------------------------ MODULE NativeReceiptsProofs ------------------------
(***************************************************************************)
(* Receipts for any operations, any limits of journal, page and flush and  *)
(* any number of faults: one write per operation, honest receipts, a       *)
(* server and a journal that differ by at most one report, a slot for a    *)
(* terminal's stop, and a release only after the exit.                     *)
(***************************************************************************)
EXTENDS NativeReceipts, SequenceTheorems, FiniteSetTheorems, TLAPS

States ==
  {"accepted", "write_started", "rejected", "expired", "uncertain",
   "write_acknowledged", "turn_started", "turn_completed", "exit_confirmed"}

Entry == [op : Ops, log : Seq(States), sent : Nat]

Places ==
  [at : {"idle", "accepted", "begun", "written", "unsure", "reject", "report",
         "ack", "retire", "release", "reconcile", "events", "observe"},
   for : {"", "send", "poll", "key", "event", "exit", "own"},
   op : Ops, scope : SUBSET Ops, idx : Nat, off : Nat, n : Nat,
   back : {"idle", "reconcile", "events"}]

Event == [op : Inputs, state : {"turn_started", "turn_completed"}]

Callers == {"send", "poll", "key", "event", "exit", "own"}

Typed ==
  /\ mode \in {"structured", "terminal"}
  /\ store \in {"open", "poisoned", "down"}
  /\ events \in Seq(Event)
  /\ known \in [Ops -> States \cup {"none"}]
  /\ writes \in [Ops -> {0, 1}]
  /\ th \in [Threads -> Places]
  /\ \A t \in Threads : th[t].at \in {"report", "ack"} => th[t].for \in Callers

In(c, op) == \E i \in DOMAIN c : c[i].op = op

(* The log of an operation: accepted first, and what may only follow that   *)
(* at the second place.                                                     *)
LogOk(log) ==
  /\ log # <<>>
  /\ \A k \in 1..Len(log) :
       /\ log[k] = "accepted" <=> k = 1
       /\ k > 2 => log[k] \notin {"write_started", "rejected", "expired"}

(* The server has what the entry counts as sent, or one state more. *)
Reported(e) ==
  /\ e.sent <= Len(e.log)
  /\ \/ known[e.op] = IF e.sent = 0 THEN "none" ELSE e.log[e.sent]
     \/ e.sent < Len(e.log) /\ known[e.op] = e.log[e.sent + 1]

Begun(e) == Len(e.log) > 1 /\ e.log[2] = "write_started"

Honest(e) ==
  /\ writes[e.op] # 0 => Begun(e)
  /\ \A k \in 1..Len(e.log) :
       /\ e.log[k] \in Acknowledged => writes[e.op] = 1
       /\ e.log[k] = "exit_confirmed" => proc = "gone"

EntryOk(e) ==
  /\ e.op \in Offers
  /\ e.op \in Keys => e.op \in offered
  /\ LogOk(e.log)
  /\ Reported(e)
  /\ Honest(e)

Closed == {"write_acknowledged", "rejected", "expired"}

(* What a copy of the journal lacks is not written and not known, or a      *)
(* settled keystroke.                                                       *)
Complete(c) ==
  \A op \in Ops :
    \/ In(c, op)
    \/ op \notin Keys /\ writes[op] = 0 /\ known[op] = "none"
    \/ op \in Keys /\ known[op] \in {"none"} \cup Closed

Room(c) == mode = "terminal" /\ ~In(c, Stop) => Len(c) < MaxReceipts

Distinct(c) == \A i, j \in DOMAIN c : c[i].op = c[j].op => i = j

CopyOk(c) ==
  /\ c \in Seq(Entry)
  /\ Distinct(c)
  /\ \A i \in DOMAIN c : EntryOk(c[i])
  /\ Complete(c)
  /\ Room(c)

(* What a restart may read, and what the handle has. *)
Copies == images \cup IF store = "down" THEN {} ELSE {mem}

ServerOk ==
  \A op \in Ops :
    /\ known[op] \in {"rejected", "expired"} => writes[op] = 0
    /\ known[op] \in Acknowledged => writes[op] = 1
    /\ known[op] = "exit_confirmed" => proc = "gone"
    /\ op \in Keys /\ (known[op] # "none" \/ writes[op] # 0) => op \in offered

MineOk ==
  \A i \in DOMAIN mem :
    (/\ mem[i].op \in Inputs \ recovered
     /\ \E k \in 1..Len(mem[i].log) : mem[i].log[k] \in Acknowledged)
      => mem[i].op \in mine

Down == store = "down" => mem = <<>> /\ th = [t \in Threads |-> Idle]

Past(c, op) ==
  /\ op \in Keys \/ In(c, op)
  /\ \A i \in DOMAIN c : c[i].op = op => Begun(c[i])

(* Where the owner is, and what it may rely on there. *)
OwnerOk ==
  LET p == th["owner"] IN
  /\ p.at \in {"accepted", "begun", "written", "unsure", "reject"} => p.op \in Offers
  /\ p.at = "reject" => p.op \in Keys
  /\ p.at = "accepted" =>
       /\ writes[p.op] = 0
       /\ \E i \in DOMAIN mem : mem[i].op = p.op /\ mem[i].log = <<"accepted">>
  /\ p.at = "begun" =>
       /\ writes[p.op] = 0
       /\ \E i \in DOMAIN mem :
            mem[i].op = p.op /\ mem[i].log = <<"accepted", "write_started">>
       /\ \A c \in Copies : Past(c, p.op)
  /\ p.at = "written" =>
       IF p.op = Stop THEN proc = "gone" ELSE writes[p.op] = 1 /\ p.op \in mine
  /\ p.at = "retire" => mode = "terminal"

ReaderOk ==
  LET p == th["reader"] IN
  /\ p.at \in {"idle", "observe", "report", "ack"} /\ p.back = "idle"
  /\ p.at # "idle" => mode = "structured"
  /\ p.at \in {"report", "ack"} => p.for = "event"

(* eventMu has one holder, and an event is reported before it leaves the     *)
(* queue.                                                                   *)
EventsOk ==
  /\ ~(HoldsEvents("owner") /\ HoldsEvents("reader"))
  /\ \A t \in Threads :
       th[t].at \in {"report", "ack"} /\ th[t].for = "event" => events # <<>>

(* A report that was taken, and is not yet counted. *)
AckOk(t) ==
  LET p == th[t]
      e == mem[p.idx]
  IN
  p.at = "ack" =>
    /\ p.idx \in DOMAIN mem /\ p.off <= e.sent
    /\ e.sent = p.off => p.off < Len(e.log) /\ known[e.op] = e.log[p.off + 1]

IInv ==
  /\ Typed
  /\ \A c \in Copies : CopyOk(c)
  /\ ServerOk /\ MineOk /\ Down /\ OwnerOk /\ ReaderOk /\ EventsOk
  /\ \A t \in Threads : AckOk(t)

-----------------------------------------------------------------------------
(* Lemmas about entries and copies of the journal.                          *)

(* A set of positions has a least one. *)
LEMMA LeastOf ==
  ASSUME NEW S, S \subseteq Nat, S # {}
  PROVE  Min(S) \in S
<1>1. PICK R : R = {p \in Nat \X Nat : p[1] < p[2]} /\ IsWellFoundedOn(R, Nat)
  BY NatLessThanWellFounded, Zenon DEF OpToRel
<1>2. PICK x \in S : \A y \in S : ~(<<y, x>> \in R)
  BY <1>1, WFMin
<1>3. ASSUME NEW y \in S
      PROVE  x <= y
  <2>1. x \in Nat /\ y \in Nat
    OBVIOUS
  <2>2. <<y, x>> \in R <=> y < x
    BY <1>1, <2>1
  <2> QED BY <1>2, <2>1, <2>2
<1> QED BY <1>3 DEF Min

(* advance: a further state the transition table allows leaves an entry in  *)
(* order, if an acknowledgement and an exit are true.                       *)
LEMMA AdvancedOk ==
  ASSUME NEW e \in Entry, EntryOk(e), NEW s \in States,
         Transition(e.op, Last(e.log), s), Last(e.log) # s,
         s = "write_acknowledged" => writes[e.op] = 1,
         s = "exit_confirmed" => proc = "gone",
         NEW f \in Entry, f.op = e.op, f.sent = e.sent, f.log = Append(e.log, s)
  PROVE  EntryOk(f)
<1> DEFINE n == Len(e.log)
<1>1. /\ e.log \in Seq(States) /\ n \in Nat \ {0} /\ Last(e.log) = e.log[n]
      /\ Len(f.log) = n + 1 /\ f.log[n + 1] = s
      /\ \A k \in 1..n : f.log[k] = e.log[k]
      /\ e.sent \in Nat /\ e.sent <= n
  BY DEF Entry, EntryOk, LogOk, Last, Reported
<1>2. s # "accepted" /\ (s \in {"write_started", "rejected", "expired"} => n = 1)
  <2>1. \A k \in 1..n : e.log[k] = "accepted" => k = 1
    BY DEF EntryOk, LogOk
  <2>2. n \in 1..n
    BY <1>1
  <2>3. e.log[n] = "accepted" => n = 1
    BY <2>1, <2>2
  <2> QED BY <1>1, <2>3 DEF Transition, Unwritten
<1>3. LogOk(f.log)
  BY <1>1, <1>2 DEF EntryOk, LogOk
<1>4. Reported(f)
  BY <1>1 DEF EntryOk, Reported
<1>5. writes[f.op] # 0 => Begun(f)
  BY <1>1 DEF EntryOk, Honest, Begun
<1>6. s \in Acknowledged => writes[e.op] = 1
  BY <1>1 DEF Transition, Acknowledged, EntryOk, Honest
<1>7. Honest(f)
  BY <1>1, <1>5, <1>6 DEF EntryOk, Honest
<1> QED BY <1>3, <1>4, <1>7 DEF EntryOk

(* The acknowledgement of a report that was taken. *)
LEMMA CountedOk ==
  ASSUME NEW e \in Entry, EntryOk(e), e.sent < Len(e.log),
         known[e.op] = e.log[e.sent + 1],
         NEW f \in Entry, f.op = e.op, f.sent = e.sent + 1, f.log = e.log
  PROVE  EntryOk(f)
<1>1. Reported(f)
  BY DEF Entry, Reported
<1>2. LogOk(f.log) /\ Honest(f)
  BY DEF EntryOk, Honest, Begun
<1> QED BY <1>1, <1>2 DEF EntryOk

(* A copy with the same operations and sound entries is sound. *)
LEMMA SameOpsOk ==
  ASSUME NEW c, CopyOk(c), NEW d \in Seq(Entry), Len(d) = Len(c),
         \A i \in DOMAIN c : d[i].op = c[i].op /\ EntryOk(d[i])
  PROVE  CopyOk(d)
<1>1. c \in Seq(Entry) /\ DOMAIN d = DOMAIN c
  BY DEF CopyOk
<1>2. \A op : In(d, op) <=> In(c, op)
  BY <1>1 DEF In
<1>3. Distinct(d)
  BY <1>1 DEF CopyOk, Distinct
<1>4. Complete(d) /\ Room(d)
  BY <1>2 DEF CopyOk, Complete, Room
<1> QED BY <1>1, <1>3, <1>4 DEF CopyOk

(* The index of an operation. *)
LEMMA Found ==
  ASSUME CopyOk(mem), NEW op, Has(op)
  PROVE  At(op) \in DOMAIN mem /\ mem[At(op)].op = op /\ mem[At(op)] \in Entry
<1>1. At(op) \in DOMAIN mem /\ mem[At(op)].op = op
  BY DEF Has, At
<1>2. mem \in Seq(Entry)
  BY DEF CopyOk
<1> QED BY <1>1, <1>2

Grown(c, d) ==
  /\ d \in Seq(Entry)
  /\ \A i \in DOMAIN c :
       /\ i \in DOMAIN d /\ d[i].op = c[i].op /\ c[i].sent <= d[i].sent
       /\ Len(c[i].log) <= Len(d[i].log)
       /\ \A k \in 1..Len(c[i].log) : d[i].log[k] = c[i].log[k]

(* Moved adds one state to one log and keeps the rest of the journal. *)
LEMMA MovedShape ==
  ASSUME CopyOk(mem), NEW op \in Ops, Has(op), NEW s \in States
  PROVE  LET i == At(op)
             d == Moved(op, s)
         IN  /\ d \in Seq(Entry) /\ Len(d) = Len(mem) /\ DOMAIN d = DOMAIN mem
             /\ \A j \in DOMAIN mem : d[j].op = mem[j].op /\ d[j].sent = mem[j].sent
             /\ \A j \in DOMAIN mem : j # i => d[j] = mem[j]
             /\ d[i] \in Entry /\ d[i].log = Append(mem[i].log, s)
<1>1. PICK i \in DOMAIN mem : i = At(op) /\ mem[i].op = op /\ mem[i] \in Entry
  BY Found
<1>2. mem \in Seq(Entry)
  BY DEF CopyOk
<1>3. PICK e \in Entry : e = [mem[i] EXCEPT !.log = Append(@, s)]
  <2>1. Append(mem[i].log, s) \in Seq(States)
    BY <1>1 DEF Entry
  <2> QED BY <1>1, <2>1 DEF Entry
<1>4. e.op = mem[i].op /\ e.sent = mem[i].sent /\ e.log = Append(mem[i].log, s)
  BY <1>1, <1>3 DEF Entry
<1>5. Moved(op, s) = [mem EXCEPT ![i] = e]
  BY <1>1, <1>2, <1>3 DEF Moved
<1>6. [mem EXCEPT ![i] = e] \in Seq(Entry) /\ Len([mem EXCEPT ![i] = e]) = Len(mem)
  BY <1>1, <1>2
<1> QED BY <1>1, <1>2, <1>4, <1>5, <1>6

(* A state the transition table allows leaves the journal sound. *)
LEMMA MovedOk ==
  ASSUME CopyOk(mem), NEW op \in Ops, Has(op), NEW s \in States,
         State(op) # s, Transition(op, State(op), s),
         s = "write_acknowledged" => writes[op] = 1,
         s = "exit_confirmed" => proc = "gone"
  PROVE  CopyOk(Moved(op, s)) /\ Grown(mem, Moved(op, s))
<1>1. PICK i \in DOMAIN mem, d \in Seq(Entry) :
        /\ i = At(op) /\ d = Moved(op, s) /\ mem[i].op = op /\ mem[i] \in Entry
        /\ Len(d) = Len(mem) /\ DOMAIN d = DOMAIN mem
        /\ \A j \in DOMAIN mem : d[j].op = mem[j].op /\ d[j].sent = mem[j].sent
        /\ \A j \in DOMAIN mem : j # i => d[j] = mem[j]
        /\ d[i] \in Entry /\ d[i].log = Append(mem[i].log, s)
  BY MovedShape, Found
<1>2. EntryOk(mem[i]) /\ \A j \in DOMAIN mem : EntryOk(mem[j]) /\ mem[j] \in Entry
  BY <1>1 DEF CopyOk
<1>3. EntryOk(d[i])
  BY <1>1, <1>2, AdvancedOk DEF State
<1>4. CopyOk(d)
  BY <1>1, <1>2, <1>3, SameOpsOk
<1>5. Grown(mem, d)
  <2>1. ASSUME NEW j \in DOMAIN mem
        PROVE  /\ mem[j].sent <= d[j].sent /\ Len(mem[j].log) <= Len(d[j].log)
               /\ \A k \in 1..Len(mem[j].log) : d[j].log[k] = mem[j].log[k]
    <3>1. mem[j].sent \in Nat /\ mem[j].log \in Seq(States)
      BY <1>2 DEF Entry
    <3>2. CASE j # i
      BY <1>1, <3>1, <3>2
    <3>3. CASE j = i
      <4>1. d[j].sent = mem[j].sent /\ d[j].log = Append(mem[j].log, s)
        BY <1>1, <3>3
      <4>2. PICK log \in Seq(States) : log = mem[j].log
        BY <3>1
      <4>3. /\ Len(log) <= Len(Append(log, s))
            /\ \A k \in 1..Len(log) : Append(log, s)[k] = log[k]
        BY <4>2
      <4> QED BY <3>1, <4>1, <4>2, <4>3
    <3> QED BY <3>2, <3>3
  <2> QED BY <1>1, <2>1 DEF Grown
<1> QED BY <1>1, <1>4, <1>5

(* What the other variables leave alone. *)
LEMMA CopyFrame ==
  ASSUME NEW c, CopyOk(c), UNCHANGED <<mode, known, writes, proc>>,
         offered \subseteq offered'
  PROVE  CopyOk(c)'
<1>1. \A e : EntryOk(e) => EntryOk(e)'
  BY DEF EntryOk, Reported, Honest, Begun, Offers
<1>2. Complete(c)' /\ Room(c)'
  BY DEF CopyOk, Complete, Room, In
<1> QED BY <1>1, <1>2 DEF CopyOk, Distinct

(* A report that was taken stays so while the journal grows. *)
LEMMA AckFrame ==
  ASSUME NEW t \in Threads, AckOk(t), Grown(mem, mem'), th'[t] = th[t],
         UNCHANGED known, mem \in Seq(Entry), Typed
  PROVE  AckOk(t)'
<1>1. SUFFICES ASSUME th[t].at = "ack"
               PROVE  /\ th[t].idx \in DOMAIN mem' /\ th[t].off <= mem'[th[t].idx].sent
                      /\ mem'[th[t].idx].sent = th[t].off =>
                           /\ th[t].off < Len(mem'[th[t].idx].log)
                           /\ known[mem'[th[t].idx].op] = mem'[th[t].idx].log[th[t].off + 1]
  BY DEF AckOk
<1>2. PICK i \in DOMAIN mem : i = th[t].idx
  BY <1>1 DEF AckOk
<1>3. th[t].off \in Nat /\ mem[i] \in Entry /\ mem'[i] \in Entry /\ i \in DOMAIN mem'
  <2>1. th[t] \in Places
    BY DEF Typed
  <2>2. i \in DOMAIN mem' /\ mem' \in Seq(Entry)
    BY <1>2 DEF Grown
  <2>3. mem[i] \in Entry
    BY <1>2
  <2>4. mem'[i] \in Entry
    BY <2>2
  <2>5. th[t].off \in Nat
    BY <2>1 DEF Places
  <2> QED BY <2>2, <2>3, <2>4, <2>5
<1>4. /\ mem[i].sent \in Nat /\ mem'[i].sent \in Nat
      /\ Len(mem[i].log) \in Nat /\ Len(mem'[i].log) \in Nat
  BY <1>3 DEF Entry
<1>5. /\ mem'[i].op = mem[i].op /\ mem[i].sent <= mem'[i].sent
      /\ Len(mem[i].log) <= Len(mem'[i].log)
      /\ \A k \in 1..Len(mem[i].log) : mem'[i].log[k] = mem[i].log[k]
  BY <1>2 DEF Grown
<1>6. /\ th[t].off <= mem[i].sent
      /\ mem[i].sent = th[t].off =>
           th[t].off < Len(mem[i].log) /\ known[mem[i].op] = mem[i].log[th[t].off + 1]
  BY <1>1, <1>2 DEF AckOk
<1>7. mem'[i].sent = th[t].off => mem[i].sent = th[t].off
  BY <1>3, <1>4, <1>5, <1>6
<1>8. th[t].off <= mem'[i].sent
  BY <1>3, <1>4, <1>5, <1>6
<1>9. ASSUME mem'[i].sent = th[t].off
      PROVE  /\ th[t].off < Len(mem'[i].log)
             /\ known[mem'[i].op] = mem'[i].log[th[t].off + 1]
  <2>1. th[t].off < Len(mem[i].log) /\ known[mem[i].op] = mem[i].log[th[t].off + 1]
    BY <1>6, <1>7, <1>9
  <2>2. th[t].off + 1 \in 1..Len(mem[i].log)
    BY <1>3, <1>4, <2>1
  <2>3. mem'[i].log[th[t].off + 1] = mem[i].log[th[t].off + 1]
    BY <1>5, <2>2
  <2>4. th[t].off < Len(mem'[i].log)
    BY <1>3, <1>4, <1>5, <2>1
  <2> QED BY <1>5, <2>1, <2>3, <2>4
<1> QED BY <1>2, <1>3, <1>8, <1>9

(* The ranks of a finite set of positions are 1 to its size. *)
LEMMA Ranks ==
  ASSUME NEW n \in Nat, NEW K, K \subseteq 1..n
  PROVE  LET Rank(i) == Cardinality({j \in K : j <= i})
         IN  /\ Cardinality(K) \in Nat /\ Cardinality(K) <= n
             /\ \A i \in K : Rank(i) \in 1..Cardinality(K)
             /\ \A i, j \in K : Rank(i) = Rank(j) => i = j
             /\ \A k \in 1..Cardinality(K) : \E i \in K : Rank(i) = k
<1> DEFINE Upto(i) == {j \in K : j <= i}
           r == [i \in K |-> Cardinality(Upto(i))]
<1>1. /\ IsFiniteSet(K) /\ Cardinality(K) \in Nat /\ Cardinality(K) <= n
  <2>1. IsFiniteSet(1..n) /\ Cardinality(1..n) = n
    BY FS_Interval
  <2> QED BY <2>1, FS_Subset, FS_CardinalityType
<1>2. ASSUME NEW i \in K
      PROVE  IsFiniteSet(Upto(i)) /\ Cardinality(Upto(i)) \in 1..Cardinality(K)
  <2>1. PICK S : S = Upto(i)
    OBVIOUS
  <2>2. S \subseteq K /\ i \in S
    BY <2>1
  <2>3. IsFiniteSet(S) /\ Cardinality(S) \in Nat /\ Cardinality(S) <= Cardinality(K)
    BY <1>1, <2>2, FS_Subset, FS_CardinalityType
  <2>4. Cardinality(S) # 0
    BY <2>2, <2>3, FS_EmptySet
  <2> QED BY <1>1, <2>1, <2>3, <2>4
<1>3. ASSUME NEW i \in K, NEW j \in K, i < j
      PROVE  Cardinality(Upto(i)) # Cardinality(Upto(j))
  <2>1. PICK S, T : S = Upto(i) /\ T = Upto(j)
    OBVIOUS
  <2>2. S \subseteq T /\ j \in T /\ j \notin S
    <3>1. \A x \in K : x \in Nat
      OBVIOUS
    <3>2. \A x \in S : x \in K /\ x <= i
      BY <2>1
    <3>3. \A x \in K : x <= j => x \in T
      BY <2>1
    <3>4. i \in Nat /\ j \in Nat /\ i < j
      BY <1>3, <3>1
    <3>5. ASSUME NEW x \in S PROVE x <= j /\ x # j
      <4>1. x \in Nat /\ x <= i
        BY <3>1, <3>2
      <4> QED BY <3>4, <4>1
    <3>6. j <= j
      BY <3>4
    <3> QED BY <3>2, <3>3, <3>5, <3>6
  <2>3. IsFiniteSet(T)
    BY <1>2, <2>1
  <2>4. Cardinality(S) # Cardinality(T)
    BY <2>2, <2>3, FS_Subset
  <2> QED BY <2>1, <2>4
<1>4. \A i, j \in K : Cardinality(Upto(i)) = Cardinality(Upto(j)) => i = j
  BY <1>3
<1>5. r \in Injection(K, 1..Cardinality(K))
  BY <1>2, <1>4 DEF Injection, IsInjective
<1>6. \A k \in 1..Cardinality(K) : \E i \in K : r[i] = k
  <2>1. PICK m \in Nat : m = Cardinality(K)
    BY <1>1
  <2>2. IsFiniteSet(1..m) /\ Cardinality(1..m) = m
    BY <2>1, FS_Interval
  <2>3. r \in Surjection(K, 1..m)
    BY <1>5, <2>1, <2>2, FS_Injection
  <2> QED BY <2>1, <2>3 DEF Surjection
<1> QED BY <1>1, <1>2, <1>4, <1>6

(* RetirePTYReports: what is dropped is settled, the rest keeps its order. *)
LEMMA RetainedShape ==
  ASSUME CopyOk(mem)
  PROVE  \E K \in SUBSET (1..Len(mem)), n \in Nat :
           /\ n <= Len(mem) /\ n = Cardinality(K)
           /\ \A i \in 1..Len(mem) : i \notin K => Settled(mem[i])
           /\ (\A i \in 1..Len(mem) : ~Settled(mem[i])) => K = 1..Len(mem)
           /\ Retained \in Seq(Entry) /\ Len(Retained) = n
           /\ \A i \in K : \E k \in 1..n : Retained[k] = mem[i]
           /\ \A k \in 1..n : \E i \in K :
                Retained[k] = mem[i] /\ Cardinality({j \in K : j <= i}) = k
<1>1. mem \in Seq(Entry) /\ Len(mem) \in Nat /\ DOMAIN mem = 1..Len(mem)
  BY DEF CopyOk
<1> DEFINE settled == {i \in DOMAIN mem : Settled(mem[i])}
           K == {i \in DOMAIN mem :
                   i \in settled => Cardinality({j \in settled : j > i}) < History}
<1>2. Retained = [k \in 1..Cardinality(K) |->
                    mem[CHOOSE i \in K : Cardinality({j \in K : j <= i}) = k]]
  BY DEF Retained
<1>3. /\ K \in SUBSET (1..Len(mem))
      /\ \A i \in 1..Len(mem) : i \notin K => Settled(mem[i])
      /\ (\A i \in 1..Len(mem) : ~Settled(mem[i])) => K = 1..Len(mem)
  BY <1>1
<1> HIDE DEF K
<1> DEFINE Rank(i) == Cardinality({j \in K : j <= i})
<1>4. /\ Cardinality(K) \in Nat /\ Cardinality(K) <= Len(mem)
      /\ \A i \in K : Rank(i) \in 1..Cardinality(K)
      /\ \A i, j \in K : Rank(i) = Rank(j) => i = j
      /\ \A k \in 1..Cardinality(K) : \E i \in K : Rank(i) = k
  BY <1>1, <1>3, Ranks
<1>5. PICK n \in Nat : n = Cardinality(K)
  BY <1>4
<1>6. Retained = [k \in 1..n |-> mem[CHOOSE i \in K : Rank(i) = k]]
  BY <1>2, <1>5
<1> HIDE DEF Rank
<1>7. ASSUME NEW k \in 1..n
      PROVE  \E i \in K : Retained[k] = mem[i] /\ Rank(i) = k
  BY <1>4, <1>5, <1>6
<1>8. ASSUME NEW i \in K
      PROVE  \E k \in 1..n : Retained[k] = mem[i]
  <2>1. Rank(i) \in 1..n
    BY <1>4, <1>5
  <2>2. PICK j \in K : Retained[Rank(i)] = mem[j] /\ Rank(j) = Rank(i)
    BY <1>7, <2>1
  <2> QED BY <1>4, <2>1, <2>2
<1>9. Retained \in Seq(Entry) /\ Len(Retained) = n
  <2>1. \A k \in 1..n : Retained[k] \in Entry
    BY <1>1, <1>3, <1>7
  <2>2. Retained \in [1..n -> Entry]
    BY <1>6, <2>1
  <2> QED BY <2>2
<1> QED BY <1>3, <1>4, <1>5, <1>7, <1>8, <1>9, ZenonT(40) DEF Rank

(* What RetirePTYReports keeps is sound; without keystrokes it keeps all. *)
LEMMA RetainedOk ==
  ASSUME CopyOk(mem), Typed
  PROVE  CopyOk(Retained) /\ (mode = "structured" => Retained = mem)
<1>1. mem \in Seq(Entry) /\ Len(mem) \in Nat /\ DOMAIN mem = 1..Len(mem)
  BY DEF CopyOk
<1>2. PICK K \in SUBSET (1..Len(mem)), n \in Nat, d \in Seq(Entry) :
           /\ n <= Len(mem) /\ d = Retained /\ n = Cardinality(K)
           /\ \A i \in 1..Len(mem) : i \notin K => Settled(mem[i])
           /\ (\A i \in 1..Len(mem) : ~Settled(mem[i])) => K = 1..Len(mem)
           /\ Len(d) = n
           /\ \A i \in K : \E k \in 1..n : d[k] = mem[i]
           /\ \A k \in 1..n : \E i \in K :
                d[k] = mem[i] /\ Cardinality({j \in K : j <= i}) = k
  BY RetainedShape
<1>3. DOMAIN d = 1..n
  BY <1>2
<1>4. \A k \in DOMAIN d : EntryOk(d[k])
  BY <1>1, <1>2, <1>3 DEF CopyOk
<1>5. Distinct(d)
  <2> SUFFICES ASSUME NEW k \in 1..n, NEW l \in 1..n, d[k].op = d[l].op PROVE k = l
    BY <1>3 DEF Distinct
  <2>1. PICK i \in K : d[k] = mem[i] /\ Cardinality({j \in K : j <= i}) = k
    BY <1>2
  <2>2. PICK h \in K : d[l] = mem[h] /\ Cardinality({j \in K : j <= h}) = l
    BY <1>2
  <2>3. i = h
    BY <1>1, <2>1, <2>2 DEF CopyOk, Distinct
  <2> QED BY <2>1, <2>2, <2>3
<1>6. ASSUME NEW i \in DOMAIN mem, Settled(mem[i])
      PROVE  mem[i].op \in Keys /\ known[mem[i].op] \in Closed
  <2>1. mem[i] \in Entry /\ EntryOk(mem[i])
    BY <1>1 DEF CopyOk
  <2> QED BY <1>6, <2>1 DEF Settled, Entry, EntryOk, LogOk, Reported, Closed, Last
<1>7. ASSUME NEW op, In(mem, op)
      PROVE  In(d, op) \/ (op \in Keys /\ known[op] \in Closed)
  <2>1. PICK i \in DOMAIN mem : mem[i].op = op
    BY <1>7 DEF In
  <2>2. CASE i \in K
    <3>1. PICK k \in 1..n : d[k] = mem[i]
      BY <1>2, <2>2
    <3>2. k \in DOMAIN d /\ d[k].op = op
      BY <1>3, <2>1, <3>1
    <3> QED BY <3>2 DEF In
  <2>3. CASE i \notin K
    BY <1>1, <1>2, <1>6, <2>1, <2>3
  <2> QED BY <2>2, <2>3
<1>8. Complete(d)
  BY <1>7 DEF CopyOk, Complete
<1>9. Room(d)
  <2>1. Stop \notin Keys
    BY OperationsAssumption
  <2> QED BY <1>1, <1>2, <1>7, <2>1, OperationsAssumption DEF CopyOk, Room
<1>10. ASSUME mode = "structured" PROVE d = mem
  <2>1. \A i \in 1..Len(mem) : mem[i].op \in Inputs \cup {Stop}
    BY <1>1, <1>10 DEF CopyOk, EntryOk, Offers
  <2>2. \A i \in 1..Len(mem) : ~Settled(mem[i])
    BY <2>1, OperationsAssumption DEF Settled
  <2>3. K = 1..Len(mem)
    BY <1>2, <2>2
  <2>4. n = Len(mem)
    BY <1>1, <1>2, <2>3, FS_Interval
  <2>5. ASSUME NEW k \in 1..n PROVE d[k] = mem[k]
    <3>1. PICK i \in K : d[k] = mem[i] /\ Cardinality({j \in K : j <= i}) = k
      BY <1>2
    <3>2. {j \in K : j <= i} = 1..i /\ i \in Nat /\ i >= 1
      BY <1>1, <2>3
    <3>3. Cardinality(1..i) = i
      BY <3>2, FS_Interval
    <3> QED BY <3>1, <3>2, <3>3
  <2> QED BY <1>1, <1>2, <1>3, <2>4, <2>5
<1> QED BY <1>2, <1>3, <1>4, <1>5, <1>8, <1>9, <1>10 DEF CopyOk

(* recover: a lost write becomes uncertain, an expired operation expired. *)
LEMMA RecoverOk ==
  ASSUME NEW c, CopyOk(c), NEW expired
  PROVE  CopyOk(Recover(c, expired))
<1>1. PICK d : d = Recover(c, expired)
  OBVIOUS
<1>2. c \in Seq(Entry) /\ DOMAIN c = 1..Len(c) /\ Len(c) \in Nat
  BY DEF CopyOk
<1>3. ASSUME NEW i \in DOMAIN c
      PROVE  d[i] \in Entry /\ d[i].op = c[i].op /\ EntryOk(d[i])
  <2>1. PICK e \in Entry : e = c[i] /\ EntryOk(e)
    BY <1>2 DEF CopyOk
  <2>2. ASSUME NEW s \in {"uncertain", "expired"}, d[i] = [e EXCEPT !.log = Append(@, s)],
               Transition(e.op, Last(e.log), s), Last(e.log) # s
        PROVE  d[i] \in Entry /\ d[i].op = e.op /\ EntryOk(d[i])
    <3>1. s \in States /\ Append(e.log, s) \in Seq(States)
      BY DEF States, Entry
    <3>2. /\ d[i] \in Entry /\ d[i].op = e.op /\ d[i].sent = e.sent
          /\ d[i].log = Append(e.log, s)
      BY <2>2, <3>1 DEF Entry
    <3> QED BY <2>1, <2>2, <3>1, <3>2, AdvancedOk
  <2>3. CASE Last(e.log) = "write_started"
    <3>1. d[i] = [e EXCEPT !.log = Append(@, "uncertain")]
      BY <1>1, <2>1, <2>3 DEF Recover, Unwritten
    <3>2. Transition(e.op, Last(e.log), "uncertain")
      BY <2>3 DEF Transition, Final, Ended, Unwritten
    <3> QED BY <2>1, <2>2, <2>3, <3>1, <3>2
  <2>4. CASE Last(e.log) # "write_started" /\ Last(e.log) \in Unwritten /\ e.op \in expired
    <3>1. d[i] = [e EXCEPT !.log = Append(@, "expired")]
      BY <1>1, <2>1, <2>4 DEF Recover
    <3>2. Transition(e.op, Last(e.log), "expired") /\ Last(e.log) # "expired"
      BY <2>4 DEF Transition, Final, Ended, Unwritten
    <3> QED BY <2>1, <2>2, <3>1, <3>2
  <2>5. CASE Last(e.log) # "write_started" /\ ~(Last(e.log) \in Unwritten /\ e.op \in expired)
    <3>1. d[i] = e
      BY <1>1, <2>1, <2>5 DEF Recover
    <3> QED BY <2>1, <3>1
  <2> QED BY <2>1, <2>3, <2>4, <2>5
<1>4. d \in Seq(Entry) /\ Len(d) = Len(c)
  <2>1. DOMAIN d = 1..Len(c) /\ d = [i \in 1..Len(c) |-> d[i]]
    BY <1>1, <1>2 DEF Recover
  <2>2. d \in [1..Len(c) -> Entry]
    BY <1>2, <1>3, <2>1
  <2> QED BY <1>2, <2>2
<1> QED BY <1>1, <1>3, <1>4, SameOpsOk

(* Accept: a new operation joins the journal, and keystrokes leave a slot. *)
LEMMA AcceptedOk ==
  ASSUME CopyOk(mem), NEW op \in Offers, ~Has(op), ~Full(op), Typed,
         known[op] = "none", writes[op] = 0,
         UNCHANGED <<mode, known, writes, proc>>, offered \subseteq offered',
         op \in Keys => op \in offered',
         NEW d, d = Append(mem, [op |-> op, log |-> <<"accepted">>, sent |-> 0])
  PROVE  CopyOk(d)' /\ Grown(mem, d)
<1>1. mem \in Seq(Entry) /\ Len(mem) \in Nat /\ DOMAIN mem = 1..Len(mem)
  BY DEF CopyOk
<1>2. op \in Ops
  BY DEF Ops, Offers
<1>3. PICK e \in Entry : e = [op |-> op, log |-> <<"accepted">>, sent |-> 0]
  <2>1. <<"accepted">> \in Seq(States)
    BY DEF States
  <2> QED BY <1>2, <2>1 DEF Entry
<1>4. e.op = op /\ e.log = <<"accepted">> /\ e.sent = 0
  BY <1>3
<1>5. /\ d \in Seq(Entry) /\ Len(d) = Len(mem) + 1 /\ DOMAIN d = 1..(Len(mem) + 1)
      /\ d[Len(mem) + 1] = e /\ \A i \in 1..Len(mem) : d[i] = mem[i]
  BY <1>1, <1>3
<1>6. EntryOk(e)'
  BY <1>4 DEF EntryOk, LogOk, Reported, Honest, Begun, Offers, Acknowledged
<1>7. CopyOk(mem) => \A i \in 1..Len(mem) : EntryOk(mem[i])
  BY <1>1 DEF CopyOk
<1>8. \A x : EntryOk(x) => EntryOk(x)'
  BY DEF EntryOk, Reported, Honest, Begun, Offers
<1>9. \A i \in DOMAIN d : EntryOk(d[i])'
  BY <1>1, <1>5, <1>6, <1>7, <1>8
<1>10. Distinct(d)
  <2>1. \A i \in 1..Len(mem) : mem[i].op # op
    BY <1>1 DEF Has
  <2> QED BY <1>1, <1>4, <1>5, <2>1 DEF CopyOk, Distinct
<1>11. In(d, op) /\ \A x : In(mem, x) => In(d, x)
  BY <1>1, <1>4, <1>5, SMTT(30) DEF In
<1>12. Complete(d)'
  BY <1>11 DEF CopyOk, Complete, In
<1>13. Room(d)'
  <2>1. CASE mode = "terminal" /\ op \in Keys
    <3>1. ~(Len(mem) >= MaxReceipts - 1)
      BY <2>1 DEF Full
    <3> QED BY <1>1, <1>5, <3>1, OperationsAssumption DEF Room
  <2>2. CASE mode = "terminal" /\ op \notin Keys
    <3>1. op = Stop
      BY <2>2 DEF Offers
    <3> QED BY <1>11, <3>1 DEF Room, In
  <2>3. CASE mode # "terminal"
    BY <2>3 DEF Room
  <2> QED BY <2>1, <2>2, <2>3
<1>14. Grown(mem, d)
  <2>1. ASSUME NEW i \in 1..Len(mem) PROVE mem[i].sent \in Nat /\ Len(mem[i].log) \in Nat
    <3>1. mem[i] \in Entry
      BY <1>1
    <3> QED BY <3>1 DEF Entry
  <2> QED BY <1>1, <1>5, <2>1 DEF Grown
<1> QED BY <1>5, <1>9, <1>10, <1>12, <1>13, <1>14 DEF CopyOk, Distinct

-----------------------------------------------------------------------------
(* Lemmas about steps.                                                      *)

(* A journal grows to itself. *)
LEMMA SelfGrown ==
  ASSUME CopyOk(mem)
  PROVE  Grown(mem, mem)
<1>1. mem \in Seq(Entry)
  BY DEF CopyOk
<1>2. ASSUME NEW i \in DOMAIN mem
      PROVE  mem[i].sent <= mem[i].sent /\ Len(mem[i].log) <= Len(mem[i].log)
  <2>1. mem[i] \in Entry
    BY <1>1
  <2> QED BY <2>1 DEF Entry
<1> QED BY <1>1, <1>2 DEF Grown

(* A begun operation stays begun while the journal grows. *)
LEMMA PastGrown ==
  ASSUME CopyOk(mem), NEW op, Past(mem, op), NEW d, Grown(mem, d), DOMAIN d = DOMAIN mem
  PROVE  Past(d, op)
<1>1. \A i \in DOMAIN mem : d[i].op = mem[i].op
  BY DEF Grown
<1>2. op \in Keys \/ In(d, op)
  BY <1>1 DEF Past, In
<1>3. ASSUME NEW i \in DOMAIN mem, mem[i].op = op PROVE Begun(d[i])
  <2>1. Begun(mem[i])
    BY <1>3 DEF Past
  <2>2. mem[i] \in Entry /\ d[i] \in Entry
    BY DEF CopyOk, Grown
  <2>3. Len(mem[i].log) \in Nat /\ Len(d[i].log) \in Nat
    BY <2>2 DEF Entry
  <2>4. 2 \in 1..Len(mem[i].log) /\ mem[i].log[2] = "write_started"
    BY <2>1, <2>3 DEF Begun
  <2> QED BY <2>3, <2>4 DEF Begun, Grown
<1> QED BY <1>1, <1>2, <1>3 DEF Past

(* What the owner relies on survives the steps of the reader, which extends  *)
(* only acknowledged logs.                                                  *)
LEMMA OwnerFrame ==
  ASSUME IInv, store # "down", th'["owner"] = th["owner"],
         UNCHANGED <<mode, writes, proc, mine>>,
         NEW d, Grown(mem, d), DOMAIN d = DOMAIN mem,
         mem' \in {mem, d}, Copies' \subseteq Copies \cup {d},
         \A i \in DOMAIN mem :
           \/ d[i].log = mem[i].log
           \/ \E k \in 1..Len(mem[i].log) : mem[i].log[k] \in Acknowledged
  PROVE  OwnerOk'
<1> DEFINE p == th["owner"]
<1>1. mem \in Copies /\ CopyOk(mem)
  BY DEF IInv, Copies
<1>2. ASSUME NEW log, log \in {<<"accepted">>, <<"accepted", "write_started">>},
             NEW i \in DOMAIN mem, mem[i].op = p.op, mem[i].log = log
      PROVE  i \in DOMAIN mem' /\ mem'[i].op = p.op /\ mem'[i].log = log
  <2>1. ~\E k \in 1..Len(mem[i].log) : mem[i].log[k] \in Acknowledged
    <3>1. CASE log = <<"accepted">>
      BY <1>2, <3>1 DEF Acknowledged
    <3>2. CASE log = <<"accepted", "write_started">>
      BY <1>2, <3>2 DEF Acknowledged
    <3> QED BY <1>2, <3>1, <3>2
  <2> QED BY <1>2, <2>1 DEF Grown
<1>3. p.at = "accepted" =>
        \E i \in DOMAIN mem' : mem'[i].op = p.op /\ mem'[i].log = <<"accepted">>
  BY <1>2 DEF IInv, OwnerOk
<1>4. p.at = "begun" =>
        \E i \in DOMAIN mem' :
          mem'[i].op = p.op /\ mem'[i].log = <<"accepted", "write_started">>
  BY <1>2 DEF IInv, OwnerOk
<1>5. p.at = "begun" => \A c \in Copies' : Past(c, p.op)
  <2> SUFFICES ASSUME p.at = "begun", NEW c \in Copies' PROVE Past(c, p.op)
    OBVIOUS
  <2>1. Past(mem, p.op) /\ \A x \in Copies : Past(x, p.op)
    BY <1>1 DEF IInv, OwnerOk
  <2> QED BY <1>1, <2>1, PastGrown
<1>6. \A c, op : Past(c, op)' <=> Past(c, op)
  BY DEF Past, In, Begun
<1>7. Offers' = Offers
  BY DEF Offers
<1>8. /\ p.at = "accepted" => writes'[p.op] = 0
      /\ p.at = "begun" => writes'[p.op] = 0
      /\ p.at = "written" =>
           IF p.op = Stop THEN proc' = "gone" ELSE writes'[p.op] = 1 /\ p.op \in mine'
      /\ p.at = "retire" => mode' = "terminal"
      /\ p.at \in {"accepted", "begun", "written", "unsure", "reject"} => p.op \in Offers'
      /\ p.at = "reject" => p.op \in Keys
  BY <1>7 DEF IInv, OwnerOk
<1> QED BY <1>3, <1>4, <1>5, <1>6, <1>8 DEF OwnerOk

(* The owner goes where it relies on nothing. *)
LEMMA OwnerFree ==
  ASSUME th'["owner"].at \in {"idle", "report", "ack", "release", "reconcile",
                              "events", "observe"}
  PROVE  OwnerOk'
  BY DEF OwnerOk

(* A step of one goroutine, with what it does to the journal. *)
LEMMA ThreadStep ==
  ASSUME IInv, NEW t \in Threads, NEW q \in Places, th' = [th EXCEPT ![t] = q],
         store # "down", store' \in {"open", "poisoned"},
         UNCHANGED <<mode, known, writes, proc>>, offered \subseteq offered',
         events' \in Seq(Event),
         NEW d, CopyOk(d)', Grown(mem, d), mem' \in {mem, d},
         Copies' \subseteq Copies \cup {d},
         MineOk',
         q.at # "ack", q.at = "report" => q.for \in Callers,
         t = "owner" => OwnerOk',
         t = "reader" =>
           /\ ReaderOk' /\ UNCHANGED mine /\ DOMAIN d = DOMAIN mem
           /\ \A i \in DOMAIN mem :
                \/ d[i].log = mem[i].log
                \/ \E k \in 1..Len(mem[i].log) : mem[i].log[k] \in Acknowledged,
         HoldsEvents(t)' =>
           HoldsEvents(t) \/ EventsFree \/ (t = "owner" /\ mode = "terminal"),
         events' = events \/ HoldsEvents(t) \/ events' # <<>>,
         q.at = "report" /\ q.for = "event" => events' # <<>>
  PROVE  IInv'
<1>1. th'[t] = q /\ (\A u \in Threads : u # t => th'[u] = th[u]) /\ th' \in [Threads -> Places]
  BY DEF IInv, Typed
<1>2. Typed'
  BY <1>1 DEF IInv, Typed
<1>3. \A c \in Copies' : CopyOk(c)'
  BY CopyFrame DEF IInv
<1>4. ServerOk'
  BY DEF IInv, ServerOk
<1>5. Down'
  BY DEF Down
<1>6. OwnerOk'
  <2>1. CASE t = "owner"
    BY <2>1
  <2>2. CASE t = "reader"
    <3>1. th'["owner"] = th["owner"]
      BY <1>1, <2>2 DEF Threads
    <3> QED BY <2>2, <3>1, OwnerFrame
  <2> QED BY <2>1, <2>2 DEF Threads
<1>7. ReaderOk'
  <2>1. CASE t = "reader"
    BY <2>1
  <2>2. CASE t = "owner"
    <3>1. th'["reader"] = th["reader"]
      BY <1>1, <2>2 DEF Threads
    <3> QED BY <3>1 DEF IInv, ReaderOk
  <2> QED BY <2>1, <2>2 DEF Threads
<1>8. \A u \in Threads : u # t => (HoldsEvents(u)' <=> HoldsEvents(u))
  BY <1>1 DEF HoldsEvents
<1>9. ~(HoldsEvents("owner")' /\ HoldsEvents("reader")')
  <2> SUFFICES ASSUME HoldsEvents("owner")', HoldsEvents("reader")' PROVE FALSE
    OBVIOUS
  <2>1. CASE t = "owner"
    <3>1. HoldsEvents("reader")
      BY <1>8, <2>1 DEF Threads
    <3>2. mode = "structured"
      BY <3>1 DEF IInv, ReaderOk, HoldsEvents
    <3> QED BY <2>1, <3>1, <3>2 DEF IInv, EventsOk, EventsFree, Threads
  <2>2. CASE t = "reader"
    <3>1. HoldsEvents("owner")
      BY <1>8, <2>2 DEF Threads
    <3> QED BY <2>2, <3>1 DEF IInv, EventsOk, EventsFree, Threads
  <2> QED BY <2>1, <2>2 DEF Threads
<1>10. ASSUME NEW u \in Threads, th'[u].at \in {"report", "ack"}, th'[u].for = "event"
       PROVE  events' # <<>>
  <2>1. CASE u = t
    BY <1>1, <1>10, <2>1
  <2>2. CASE u # t
    <3>1. HoldsEvents(u) /\ events # <<>>
      BY <1>1, <1>10, <2>2 DEF IInv, EventsOk, HoldsEvents
    <3>2. ~HoldsEvents(t)
      BY <2>2, <3>1 DEF IInv, EventsOk, Threads
    <3> QED BY <3>1, <3>2
  <2> QED BY <2>1, <2>2
<1>11. EventsOk'
  BY <1>9, <1>10 DEF EventsOk
<1>12. ASSUME NEW u \in Threads PROVE AckOk(u)'
  <2>1. CASE u = t
    BY <1>1, <2>1 DEF AckOk
  <2>2. CASE u # t
    <3>1. CopyOk(mem)
      BY DEF IInv, Copies
    <3>2. Grown(mem, mem') /\ mem \in Seq(Entry)
      BY <3>1, SelfGrown DEF CopyOk
    <3> QED BY <1>1, <2>2, <3>2, AckFrame DEF IInv
  <2> QED BY <2>1, <2>2
<1> QED BY <1>2, <1>3, <1>4, <1>5, <1>6, <1>7, <1>11, <1>12 DEF IInv

(* Places and what they carry. *)
LEMMA PlaceOk ==
  ASSUME NEW a \in {"idle", "accepted", "begun", "written", "unsure", "reject",
                    "retire", "release", "reconcile", "events", "observe"},
         NEW op \in Ops, NEW b \in {"idle", "reconcile", "events"}
  PROVE  /\ Place(a, op, b) \in Places
         /\ Place(a, op, b).at = a /\ Place(a, op, b).op = op
         /\ Place(a, op, b).back = b
<1>1. Stop \in Ops
  BY DEF Ops
<1> QED BY <1>1 DEF Place, Idle, Places

(* The idle place. *)
LEMMA IdleOk == Idle \in Places /\ Idle.at = "idle" /\ Idle.back = "idle"
<1>1. Stop \in Ops
  BY DEF Ops
<1> QED BY <1>1 DEF Idle, Places

(* A flush starts at report, for its caller. *)
LEMMA FlushOk ==
  ASSUME NEW f \in Callers, NEW op \in Ops, NEW scope, scope \subseteq Ops,
         NEW b \in {"idle", "reconcile", "events"}
  PROVE  /\ Flush(f, op, scope, b) \in Places
         /\ Flush(f, op, scope, b).at = "report" /\ Flush(f, op, scope, b).for = f
         /\ Flush(f, op, scope, b).op = op /\ Flush(f, op, scope, b).back = b
<1>1. Stop \in Ops
  BY DEF Ops
<1> QED BY <1>1 DEF Flush, Place, Idle, Places, Callers

(* The place of a release, still under the lock of Delivery. *)
LEMMA ReleaseOk ==
  ASSUME NEW op \in Ops, NEW b \in {"idle", "reconcile", "events"}
  PROVE  LET r == [Place("release", op, b) EXCEPT !.for = "exit"]
         IN  r \in Places /\ r.at = "release"
<1>1. Stop \in Ops
  BY DEF Ops
<1>2. PICK r : r = Place("release", op, b) /\ r \in Places /\ r.at = "release"
  BY PlaceOk
<1>3. [r EXCEPT !.for = "exit"] \in Places /\ [r EXCEPT !.for = "exit"].at = "release"
  BY <1>2 DEF Places
<1> QED BY <1>2, <1>3

(* The two halves of a report. *)
Taken(p, i, off) == [p EXCEPT !.at = "ack", !.idx = i, !.off = off]
Again(p) == [p EXCEPT !.at = "report", !.n = @ + 1]

(* A flush goes on to its next report. *)
LEMMA AgainOk ==
  ASSUME NEW p \in Places
  PROVE  /\ Again(p) \in Places /\ Again(p).at = "report"
         /\ Again(p).for = p.for /\ Again(p).back = p.back
<1>1. p.n \in Nat
  BY DEF Places
<1>2. p.n + 1 \in Nat
  BY <1>1
<1> QED BY <1>2 DEF Places, Again

(* A step of one goroutine that leaves the journal alone. *)
LEMMA QuietStep ==
  ASSUME IInv, NEW t \in Threads, NEW q \in Places, th' = [th EXCEPT ![t] = q],
         store # "down", UNCHANGED journal,
         UNCHANGED <<mode, known, writes, proc, recovered, mine>>,
         offered \subseteq offered', events' \in Seq(Event),
         q.at # "ack", q.at = "report" => q.for \in Callers,
         t = "owner" => OwnerOk',
         t = "reader" => ReaderOk',
         HoldsEvents(t)' =>
           HoldsEvents(t) \/ EventsFree \/ (t = "owner" /\ mode = "terminal"),
         events' = events \/ HoldsEvents(t) \/ events' # <<>>,
         q.at = "report" /\ q.for = "event" => events' # <<>>
  PROVE  IInv'
<1>1. mem' = mem /\ images' = images /\ store' = store /\ Copies' = Copies
  BY DEF journal, Copies
<1>2. PICK d : d = mem
  OBVIOUS
<1>3. CopyOk(d) /\ CopyOk(mem)
  BY <1>2 DEF IInv, Copies
<1>4. CopyOk(d)'
  BY <1>3, CopyFrame
<1>5. Grown(mem, d)
  BY <1>2, <1>3, SelfGrown
<1>6. MineOk'
  BY <1>1 DEF IInv, MineOk
<1>7. store' \in {"open", "poisoned"}
  BY <1>1 DEF IInv, Typed
<1> QED BY <1>1, <1>2, <1>4, <1>5, <1>6, <1>7, ThreadStep

(* What save does to the copies. *)
LEMMA SaveEffect ==
  ASSUME NEW d, Typed,
         \/ Saved(d) \/ SaveFails(d) \/ (Shut /\ store # "down")
         \/ (store # "down" /\ UNCHANGED journal)
  PROVE  /\ store # "down" /\ store' \in {"open", "poisoned"}
         /\ mem' \in {mem, d} /\ Copies' \subseteq Copies \cup {d}
<1>1. CASE Saved(d)
  BY <1>1 DEF Saved, Copies
<1>2. CASE SaveFails(d)
  BY <1>2 DEF SaveFails, Copies
<1>3. CASE Shut /\ store # "down"
  BY <1>3 DEF Shut, journal, Copies, Typed
<1>4. CASE store # "down" /\ UNCHANGED journal
  BY <1>4 DEF journal, Copies, Typed
<1> QED BY <1>1, <1>2, <1>3, <1>4

(* The journal d is mem, but for a state more in the log of one operation. *)
Extended(d, op, s) ==
  /\ DOMAIN d = DOMAIN mem
  /\ \A i \in DOMAIN mem :
       \/ d[i].log = mem[i].log
       \/ /\ mem[i].op = op /\ d[i].log = Append(mem[i].log, s)
          /\ Transition(op, Last(mem[i].log), s) /\ Last(mem[i].log) # s

(* advance, whether it succeeds or not: the journal it leaves. *)
LEMMA AdvanceEffect ==
  ASSUME IInv, store # "down", NEW op \in Ops, NEW s \in States,
         s = "write_acknowledged" => writes[op] = 1,
         s = "exit_confirmed" => proc = "gone",
         Advances(op, s) \/ AdvanceFails(op, s),
         UNCHANGED <<mode, offered, known, writes, proc>>
  PROVE  \E d :
           /\ CopyOk(d)' /\ Grown(mem, d) /\ Extended(d, op, s)
           /\ store' \in {"open", "poisoned"}
           /\ mem' \in {mem, d} /\ Copies' \subseteq Copies \cup {d}
<1>1. CopyOk(mem) /\ Typed
  BY DEF IInv, Copies
<1>2. CASE /\ Has(op) /\ State(op) # s /\ Transition(op, State(op), s)
           /\ Saved(Moved(op, s)) \/ SaveFails(Moved(op, s))
  <2>1. PICK d : d = Moved(op, s)
    OBVIOUS
  <2>2. CopyOk(d) /\ Grown(mem, d)
    BY <1>1, <1>2, <2>1, MovedOk
  <2>3. CopyOk(d)'
    BY <2>2, CopyFrame
  <2>4. store' \in {"open", "poisoned"} /\ mem' \in {mem, d} /\ Copies' \subseteq Copies \cup {d}
    BY <1>1, <1>2, <2>1, SaveEffect
  <2>5. /\ DOMAIN d = DOMAIN mem /\ At(op) \in DOMAIN mem /\ mem[At(op)].op = op
        /\ \A j \in DOMAIN mem : j # At(op) => d[j] = mem[j]
        /\ d[At(op)].log = Append(mem[At(op)].log, s)
    BY <1>1, <1>2, <2>1, MovedShape, Found
  <2>6. Extended(d, op, s)
    BY <1>2, <2>5 DEF State, Extended
  <2> QED BY <2>2, <2>3, <2>4, <2>6
<1>3. CASE UNCHANGED journal
  <2>1. PICK d : d = mem
    OBVIOUS
  <2>2. CopyOk(d)'
    BY <1>1, <2>1, CopyFrame
  <2>3. Grown(mem, d)
    BY <1>1, <2>1, SelfGrown
  <2>4. store' \in {"open", "poisoned"} /\ mem' \in {mem, d} /\ Copies' \subseteq Copies \cup {d}
    BY <1>1, <1>3, SaveEffect
  <2>5. Extended(d, op, s)
    BY <2>1 DEF Extended
  <2> QED BY <2>2, <2>3, <2>4, <2>5
<1>4. \/ UNCHANGED journal
      \/ /\ Has(op) /\ State(op) # s /\ Transition(op, State(op), s)
         /\ Saved(Moved(op, s)) \/ SaveFails(Moved(op, s))
  BY DEF Advances, AdvanceFails, Shut
<1> QED BY <1>2, <1>3, <1>4

(* Acknowledgements stay with this journal lifetime's own writes. *)
LEMMA MineStays ==
  ASSUME IInv, NEW op, NEW s, NEW d, Grown(mem, d), Extended(d, op, s),
         CopyOk(mem), mem' \in {mem, d}, UNCHANGED <<recovered, mine>>,
         s = "write_acknowledged" => op \in mine
  PROVE  MineOk'
<1> SUFFICES ASSUME NEW i \in DOMAIN mem', mem'[i].op \in Inputs \ recovered,
                    NEW k \in 1..Len(mem'[i].log), mem'[i].log[k] \in Acknowledged
             PROVE  mem'[i].op \in mine
  BY DEF MineOk
<1>1. i \in DOMAIN mem /\ mem'[i].op = mem[i].op /\ mem[i] \in Entry /\ EntryOk(mem[i])
  BY DEF Grown, CopyOk, Extended
<1>2. CASE mem'[i].log = mem[i].log
  BY <1>1, <1>2 DEF IInv, MineOk
<1>3. CASE /\ mem[i].op = op /\ mem'[i].log = Append(mem[i].log, s)
           /\ Transition(op, Last(mem[i].log), s) /\ Last(mem[i].log) # s
  <2>1. /\ mem[i].log \in Seq(States) /\ Len(mem[i].log) \in Nat
        /\ Len(mem'[i].log) = Len(mem[i].log) + 1
        /\ mem'[i].log[Len(mem[i].log) + 1] = s
        /\ \A l \in 1..Len(mem[i].log) : mem'[i].log[l] = mem[i].log[l]
    BY <1>1, <1>3 DEF Entry
  <2>2. CASE k \in 1..Len(mem[i].log)
    BY <1>1, <2>1, <2>2 DEF IInv, MineOk
  <2>3. CASE k = Len(mem[i].log) + 1
    <3>1. s \in Acknowledged
      BY <2>1, <2>3
    <3>2. CASE s = "write_acknowledged"
      BY <1>1, <1>3, <3>2
    <3>3. CASE s # "write_acknowledged"
      <4>1. Last(mem[i].log) \in Acknowledged
        BY <1>3, <3>1, <3>3 DEF Acknowledged, Transition
      <4>2. Len(mem[i].log) \in 1..Len(mem[i].log)
        BY <1>1, <2>1 DEF EntryOk, LogOk
      <4> QED BY <1>1, <4>1, <4>2 DEF IInv, MineOk, Last
    <3> QED BY <3>2, <3>3
  <2> QED BY <2>1, <2>2, <2>3
<1> QED BY <1>1, <1>2, <1>3 DEF Extended

(* A goroutine that is busy has a journal. *)
LEMMA Awake ==
  ASSUME IInv, NEW t \in Threads, th[t].at # "idle"
  PROVE  store # "down" /\ CopyOk(mem) /\ mem \in Copies /\ th[t] \in Places
<1>1. store # "down"
  BY IdleOk DEF IInv, Down
<1> QED BY <1>1 DEF IInv, Copies, Typed

(* A step of one goroutine around an advance of the journal. *)
LEMMA AdvanceStep ==
  ASSUME IInv, NEW t \in Threads, NEW q \in Places, th' = [th EXCEPT ![t] = q],
         store # "down", NEW op \in Ops, NEW s \in States,
         s = "write_acknowledged" => writes[op] = 1 /\ op \in mine,
         s = "exit_confirmed" => proc = "gone",
         Advances(op, s) \/ AdvanceFails(op, s),
         UNCHANGED <<mode, offered, known, writes, proc, recovered, mine, events>>,
         q.at # "ack", q.at = "report" => q.for \in Callers,
         t = "owner" => OwnerOk',
         t = "reader" => ReaderOk' /\ s \in {"turn_started", "turn_completed"},
         HoldsEvents(t)' =>
           HoldsEvents(t) \/ EventsFree \/ (t = "owner" /\ mode = "terminal"),
         q.at = "report" /\ q.for = "event" => events # <<>>
  PROVE  IInv'
<1>1. CopyOk(mem) /\ events' \in Seq(Event)
  BY DEF IInv, Copies, Typed
<1>2. PICK d :
        /\ CopyOk(d)' /\ Grown(mem, d) /\ Extended(d, op, s)
        /\ store' \in {"open", "poisoned"}
        /\ mem' \in {mem, d} /\ Copies' \subseteq Copies \cup {d}
  BY AdvanceEffect
<1>3. MineOk'
  <2>1. UNCHANGED <<recovered, mine>> /\ (s = "write_acknowledged" => op \in mine)
    OBVIOUS
  <2> QED BY <1>1, <1>2, <2>1, MineStays
<1>4. ASSUME t = "reader", NEW i \in DOMAIN mem
      PROVE  \/ d[i].log = mem[i].log
             \/ \E k \in 1..Len(mem[i].log) : mem[i].log[k] \in Acknowledged
  <2>1. mem[i] \in Entry /\ EntryOk(mem[i])
    BY <1>1 DEF CopyOk
  <2>2. Len(mem[i].log) \in 1..Len(mem[i].log)
    BY <2>1 DEF Entry, EntryOk, LogOk
  <2>3. d[i].log = mem[i].log \/ Last(mem[i].log) \in Acknowledged
    BY <1>2, <1>4 DEF Transition, Acknowledged, Extended
  <2> QED BY <2>2, <2>3 DEF Last
<1>5. t = "reader" =>
        /\ ReaderOk' /\ UNCHANGED mine /\ DOMAIN d = DOMAIN mem
        /\ \A i \in DOMAIN mem :
             \/ d[i].log = mem[i].log
             \/ \E k \in 1..Len(mem[i].log) : mem[i].log[k] \in Acknowledged
  BY <1>2, <1>4 DEF Extended
<1> QED BY <1>1, <1>2, <1>3, <1>5, ThreadStep

-----------------------------------------------------------------------------
(* The invariant is kept by every step.                                     *)

(* executeLocked and ptyOperation accept or replay an operation. *)
LEMMA ExecuteOk ==
  ASSUME IInv, NEW op \in Offers, th["owner"].at = "idle", Execute(op),
         UNCHANGED <<mode, recovered, events, proc, writes, mine, known>>,
         offered' = offered \cup ({op} \cap Keys), op \in Keys => op \notin offered
  PROVE  IInv'
<1>1. /\ store # "down" /\ CopyOk(mem) /\ mem \in Copies /\ Typed /\ op \in Ops
      /\ events \in Seq(Event) /\ offered \subseteq offered' /\ "owner" \in Threads
  BY DEF Execute, IInv, Copies, Typed, Offers, Ops, Threads
<1>2. Offers' = Offers
  BY DEF Offers
<1>3. PICK e : e = [op |-> op, log |-> <<"accepted">>, sent |-> 0]
  OBVIOUS
<1>4. PICK q \in Places :
        /\ th' = [th EXCEPT !["owner"] = q]
        /\ q = Idle \/ q = Place("accepted", op, "idle") \/ q = Flush("send", op, Ops, "idle")
        /\ \/ UNCHANGED journal
           \/ ~Has(op) /\ ~Full(op) /\ (Saved(Append(mem, e)) \/ SaveFails(Append(mem, e)))
        /\ q = Place("accepted", op, "idle") =>
             \/ UNCHANGED journal /\ Has(op) /\ State(op) \in Unwritten
             \/ ~Has(op) /\ ~Full(op) /\ Saved(Append(mem, e))
  <2>1. /\ Idle \in Places /\ Place("accepted", op, "idle") \in Places
        /\ Flush("send", op, Ops, "idle") \in Places
        /\ Idle.at = "idle" /\ Place("accepted", op, "idle").at = "accepted"
        /\ Flush("send", op, Ops, "idle").at = "report"
    BY <1>1, IdleOk, PlaceOk, FlushOk DEF Callers
  <2> QED BY <1>3, <2>1 DEF Execute, Goto, NotSaved, Shut, Saved, SaveFails
<1>5. /\ q.at \in {"idle", "accepted", "report"} /\ (q.at = "report" => q.for = "send")
      /\ q.at = "accepted" => q = Place("accepted", op, "idle") /\ q.op = op
      /\ th'["owner"] = q
  <2>1. th \in [Threads -> Places]
    BY <1>1 DEF Typed
  <2> QED BY <1>1, <1>4, <2>1, IdleOk, PlaceOk, FlushOk DEF Callers
<1>6. ~HoldsEvents("owner")'
  BY <1>5 DEF HoldsEvents
<1>7. ~Has(op) => known[op] = "none" /\ writes[op] = 0
  <2>1. ~Has(op) <=> ~In(mem, op)
    BY DEF Has, In
  <2>2. CASE op \in Keys
    BY <1>1, <2>2 DEF IInv, ServerOk
  <2>3. CASE op \notin Keys
    BY <1>1, <2>1, <2>3 DEF CopyOk, Complete
  <2> QED BY <2>2, <2>3
<1>8. CASE UNCHANGED journal /\ (q.at = "accepted" => Has(op) /\ State(op) \in Unwritten)
  <2>1. OwnerOk'
    <3>1. CASE q.at # "accepted"
      BY <1>5, <3>1, OwnerFree
    <3>2. CASE q.at = "accepted"
      <4>1. PICK i \in DOMAIN mem : i = At(op) /\ mem[i].op = op /\ mem[i] \in Entry
        BY <1>1, <1>8, <3>2, Found
      <4>2. mem[i].log \in Seq(States) /\ EntryOk(mem[i]) /\ Last(mem[i].log) = "accepted"
        BY <1>1, <1>8, <3>2, <4>1 DEF CopyOk, Entry, State, Unwritten
      <4>3. Len(mem[i].log) = 1 /\ mem[i].log[1] = "accepted"
        <5>1. Len(mem[i].log) \in 1..Len(mem[i].log)
          BY <4>2 DEF EntryOk, LogOk
        <5> QED BY <4>2, <5>1 DEF EntryOk, LogOk, Last
      <4>4. mem[i].log = <<"accepted">>
        BY <4>2, <4>3
      <4>5. writes[op] = 0
        BY <4>1, <4>2, <4>3 DEF EntryOk, Honest, Begun
      <4>6. mem' = mem
        BY <1>8 DEF journal
      <4> QED BY <1>2, <1>5, <3>2, <4>1, <4>4, <4>5, <4>6 DEF OwnerOk
    <3> QED BY <3>1, <3>2
  <2> QED BY <1>1, <1>4, <1>5, <1>6, <1>8, <2>1, QuietStep DEF Callers
<1>9. CASE /\ ~Has(op) /\ ~Full(op) /\ (Saved(Append(mem, e)) \/ SaveFails(Append(mem, e)))
           /\ q.at = "accepted" => Saved(Append(mem, e))
  <2>1. PICK d : d = Append(mem, e)
    OBVIOUS
  <2>2. CopyOk(d)' /\ Grown(mem, d)
    <3>1. d = Append(mem, [op |-> op, log |-> <<"accepted">>, sent |-> 0])
      BY <1>3, <2>1
    <3>2. op \in Keys => op \in offered'
      OBVIOUS
    <3> QED BY <1>1, <1>7, <1>9, <3>1, <3>2, AcceptedOk
  <2>3. store' \in {"open", "poisoned"} /\ mem' \in {mem, d} /\ Copies' \subseteq Copies \cup {d}
    BY <1>1, <1>9, <2>1, SaveEffect
  <2>4. /\ mem \in Seq(Entry) /\ Len(mem) \in Nat /\ DOMAIN d = 1..(Len(mem) + 1)
        /\ d[Len(mem) + 1] = e /\ \A i \in 1..Len(mem) : d[i] = mem[i]
    BY <1>1, <2>1 DEF CopyOk
  <2>5. e.op = op /\ e.log = <<"accepted">>
    BY <1>3
  <2>6. MineOk'
    <3>1. CASE mem' = mem
      BY <3>1 DEF IInv, MineOk
    <3>2. CASE mem' = d
      BY <2>4, <2>5, <3>2 DEF IInv, MineOk, Acknowledged
    <3> QED BY <2>3, <3>1, <3>2
  <2>7. OwnerOk'
    <3>1. CASE q.at # "accepted"
      BY <1>5, <3>1, OwnerFree
    <3>2. CASE q.at = "accepted"
      <4>1. mem' = d
        BY <1>9, <2>1, <3>2 DEF Saved
      <4>2. Len(mem) + 1 \in DOMAIN mem' /\ mem'[Len(mem) + 1] = e
        BY <2>4, <4>1
      <4> QED BY <1>2, <1>5, <1>7, <1>9, <2>5, <3>2, <4>2 DEF OwnerOk
    <3> QED BY <3>1, <3>2
  <2> QED BY <1>1, <1>4, <1>5, <1>6, <2>2, <2>3, <2>6, <2>7, ThreadStep DEF Callers
<1> QED BY <1>4, <1>5, <1>8, <1>9

(* A person's command, or a keystroke, is offered. *)
LEMMA CommandOk ==
  ASSUME IInv,
         \/ \E op \in Inputs \cup {Stop} : Command(op)
         \/ \E op \in Keys : PTYOperation(op)
  PROVE  IInv'
<1>1. ASSUME NEW op \in Inputs \cup {Stop}, Command(op) PROVE IInv'
  <2>1. /\ op \in Offers /\ op \notin Keys /\ th["owner"].at = "idle" /\ Execute(op)
        /\ UNCHANGED <<mode, recovered, events, proc, writes, mine, known>>
        /\ offered' = offered \cup ({op} \cap Keys)
    BY <1>1 DEF Command, native, server
  <2> QED BY <2>1, ExecuteOk
<1>2. ASSUME NEW op \in Keys, PTYOperation(op) PROVE IInv'
  <2>1. /\ op \in Offers /\ op \notin offered /\ th["owner"].at = "idle" /\ Execute(op)
        /\ UNCHANGED <<mode, recovered, events, proc, writes, mine, known>>
        /\ offered' = offered \cup ({op} \cap Keys)
    BY <1>2 DEF PTYOperation, native, server
  <2> QED BY <2>1, ExecuteOk
<1> QED BY <1>1, <1>2

(* BeginWrite: the marker is on disk before the write. *)
LEMMA BeginOk ==
  ASSUME IInv, Begin
  PROVE  IInv'
<1>1. PICK op \in Ops : op = th["owner"].op /\ th["owner"].at = "accepted" /\ op \in Offers
  BY DEF Begin, IInv, OwnerOk, Offers, Ops
<1>2. /\ store # "down" /\ CopyOk(mem) /\ Typed /\ "owner" \in Threads
      /\ events \in Seq(Event) /\ ~HoldsEvents("owner")
      /\ UNCHANGED <<mode, offered, known, writes, proc, mine, events>>
      /\ "write_started" \in States
  BY <1>1, Awake DEF Begin, IInv, Typed, Threads, HoldsEvents, daemon, native, server, States
<1>3. PICK i \in DOMAIN mem :
        writes[op] = 0 /\ mem[i].op = op /\ mem[i].log = <<"accepted">>
  BY <1>1 DEF IInv, OwnerOk
<1>4. Offers' = Offers
  BY <1>2 DEF Offers
<1>5. th \in [Threads -> Places]
  BY <1>2 DEF Typed
<1>6. CASE RefusedWrite(op) /\ UNCHANGED recovered
           /\ (UNCHANGED journal \/ AdvanceFails(op, "write_started"))
  <2>1. PICK q \in Places :
          /\ th' = [th EXCEPT !["owner"] = q]
          /\ q.at \in {"idle", "reject"} /\ (q.at = "reject" => q.op = op /\ op \in Keys)
    <3>1. /\ Idle \in Places /\ Idle.at = "idle"
          /\ Place("reject", op, "idle") \in Places
          /\ Place("reject", op, "idle").at = "reject"
          /\ Place("reject", op, "idle").op = op
      BY IdleOk, PlaceOk
    <3> QED BY <1>6, <3>1 DEF RefusedWrite, Goto
  <2>2. th'["owner"] = q
    BY <1>2, <1>5, <2>1
  <2>3. OwnerOk' /\ ~HoldsEvents("owner")'
    BY <1>1, <1>4, <2>1, <2>2 DEF OwnerOk, HoldsEvents
  <2>4. CASE UNCHANGED journal
    BY <1>2, <1>6, <2>1, <2>3, <2>4, QuietStep
  <2>5. CASE AdvanceFails(op, "write_started")
    BY <1>2, <1>6, <2>1, <2>3, <2>5, AdvanceStep
  <2> QED BY <1>6, <2>4, <2>5
<1>7. CASE /\ Advances(op, "write_started") /\ Goto("owner", Place("begun", op, "idle"))
           /\ recovered' = recovered \ {op}
  <2>1. PICK q \in Places : /\ th' = [th EXCEPT !["owner"] = q]
                            /\ q.at = "begun" /\ q.op = op
    <3>1. /\ Place("begun", op, "idle") \in Places
          /\ Place("begun", op, "idle").at = "begun" /\ Place("begun", op, "idle").op = op
      BY PlaceOk
    <3> QED BY <1>7, <3>1 DEF Goto
  <2>2. th'["owner"] = q
    BY <1>2, <1>5, <2>1
  <2>3. At(op) = i
    BY <1>2, <1>3, <1>7, Found DEF CopyOk, Distinct, Advances
  <2>4. State(op) = "accepted"
    <3>1. Len(mem[i].log) = 1 /\ mem[i].log[1] = "accepted"
      BY <1>3
    <3> QED BY <2>3, <3>1 DEF State, Last
  <2>5. PICK d : d = Moved(op, "write_started")
    OBVIOUS
  <2>6. Has(op) /\ Saved(d) /\ Transition(op, State(op), "write_started")
    BY <1>7, <2>4, <2>5 DEF Advances
  <2>7. CopyOk(d) /\ Grown(mem, d)
    BY <1>2, <2>4, <2>5, <2>6, MovedOk
  <2>8. CopyOk(d)'
    BY <1>2, <2>7, CopyFrame
  <2>9. /\ store' \in {"open", "poisoned"} /\ mem' = d /\ Copies' = {d}
    BY <1>2, <2>6 DEF Saved, Copies
  <2>10. /\ DOMAIN d = DOMAIN mem /\ d[i].op = op
         /\ \A j \in DOMAIN mem : d[j].op = mem[j].op
         /\ \A j \in DOMAIN mem : j # i => d[j] = mem[j]
         /\ d[i].log = Append(mem[i].log, "write_started")
    <3>1. /\ DOMAIN d = DOMAIN mem
          /\ \A j \in DOMAIN mem : d[j].op = mem[j].op /\ d[j].sent = mem[j].sent
          /\ \A j \in DOMAIN mem : j # At(op) => d[j] = mem[j]
          /\ d[At(op)].log = Append(mem[At(op)].log, "write_started")
      BY <1>2, <2>5, <2>6, MovedShape
    <3> QED BY <1>3, <2>3, <3>1
  <2>11. d[i].log = <<"accepted", "write_started">>
    <3>1. Append(<<"accepted">>, "write_started") = <<"accepted", "write_started">>
      <4>1. PICK s, u : /\ s = Append(<<"accepted">>, "write_started")
                        /\ u = <<"accepted", "write_started">>
        OBVIOUS
      <4>2. s \in Seq(States) /\ Len(s) = 2 /\ s[1] = "accepted" /\ s[2] = "write_started"
        BY <4>1 DEF States
      <4>3. u \in Seq(States) /\ Len(u) = 2 /\ u[1] = "accepted" /\ u[2] = "write_started"
        BY <4>1 DEF States
      <4>4. \A k \in 1..2 : s[k] = u[k]
        BY <4>2, <4>3
      <4>5. s = u
        BY <4>2, <4>3, <4>4, SeqEqual
      <4> QED BY <4>1, <4>5
    <3> QED BY <1>3, <2>10, <3>1
  <2>12. Past(d, op)
    <3>1. \A j \in DOMAIN d : d[j].op = op => j = i
      BY <2>7, <2>10 DEF CopyOk, Distinct
    <3>2. Begun(d[i])
      BY <2>11 DEF Begun
    <3> QED BY <2>10, <3>1, <3>2 DEF Past, In
  <2>13. OwnerOk'
    <3>1. \A c \in Copies' : Past(c, op)'
      BY <2>9, <2>12 DEF Past, In, Begun
    <3>2. i \in DOMAIN mem' /\ mem'[i].op = op /\ mem'[i].log = <<"accepted", "write_started">>
      BY <2>9, <2>10, <2>11
    <3> QED BY <1>1, <1>2, <1>3, <1>4, <2>1, <2>2, <3>1, <3>2 DEF OwnerOk
  <2>14. MineOk'
    <3> SUFFICES ASSUME NEW j \in DOMAIN mem', mem'[j].op \in Inputs \ recovered',
                        NEW k \in 1..Len(mem'[j].log), mem'[j].log[k] \in Acknowledged
                 PROVE  mem'[j].op \in mine'
      BY DEF MineOk
    <3>1. CASE j = i
      BY <2>9, <2>11, <3>1 DEF Acknowledged
    <3>2. CASE j # i
      <4>1. mem'[j] = mem[j] /\ j \in DOMAIN mem
        BY <2>9, <2>10, <3>2
      <4>2. mem[j].op # op
        BY <1>2, <1>3, <3>2, <4>1 DEF CopyOk, Distinct
      <4> QED BY <1>2, <1>7, <4>1, <4>2 DEF IInv, MineOk
    <3> QED BY <3>1, <3>2
  <2>15. ~HoldsEvents("owner")'
    BY <2>1, <2>2 DEF HoldsEvents
  <2> QED BY <1>2, <2>1, <2>7, <2>8, <2>9, <2>13, <2>14, <2>15, ThreadStep
<1> QED BY <1>1, <1>6, <1>7 DEF Begin

(* The native write happens to an operation that is begun in every copy. *)
LEMMA WriteOk ==
  ASSUME IInv, Write
  PROVE  IInv'
<1>1. PICK op \in Ops : op = th["owner"].op /\ th["owner"].at = "begun" /\ op \in Offers
  BY DEF Write, IInv, OwnerOk, Offers, Ops
<1>2. /\ store # "down" /\ CopyOk(mem) /\ mem \in Copies /\ Typed /\ "owner" \in Threads
      /\ events \in Seq(Event) /\ ~HoldsEvents("owner")
      /\ UNCHANGED <<mode, offered, known, recovered, events>> /\ UNCHANGED journal
  BY <1>1, Awake DEF Write, IInv, Typed, Threads, HoldsEvents, daemon, server
<1>3. PICK i \in DOMAIN mem :
        /\ writes[op] = 0 /\ mem[i].op = op /\ mem[i].log = <<"accepted", "write_started">>
        /\ \A c \in Copies : Past(c, op)
  BY <1>1 DEF IInv, OwnerOk
<1>4. Offers' = Offers /\ mem' = mem /\ store' = store /\ Copies' = Copies
  BY <1>2 DEF Offers, journal, Copies
<1>5. th \in [Threads -> Places]
  BY <1>2 DEF Typed
<1>6. PICK q \in Places :
        /\ th' = [th EXCEPT !["owner"] = q]
        /\ q.at \in {"idle", "written", "unsure"} /\ (q.at # "idle" => q.op = op)
        /\ \/ q.at # "written" /\ UNCHANGED native
           \/ /\ q.at # "idle" /\ writes' = [writes EXCEPT ![op] = @ + 1]
              /\ mine' = mine \cup {op}
              /\ proc' = IF op = Stop /\ q.at = "written" THEN "gone" ELSE proc
  <2>1. /\ Idle \in Places /\ Idle.at = "idle"
        /\ \A a \in {"written", "unsure"} :
             /\ Place(a, op, "idle") \in Places
             /\ Place(a, op, "idle").at = a /\ Place(a, op, "idle").op = op
    BY IdleOk, PlaceOk
  <2> QED BY <1>1, <2>1 DEF Write, Goto
<1>7. th'["owner"] = q /\ th'["reader"] = th["reader"] /\ th' \in [Threads -> Places]
  BY <1>2, <1>5, <1>6 DEF Threads
<1>8. ~HoldsEvents("owner")'
  BY <1>6, <1>7 DEF HoldsEvents
<1>9. CASE q.at # "written" /\ UNCHANGED native
  <2>1. OwnerOk'
    BY <1>1, <1>4, <1>6, <1>7, <1>9 DEF OwnerOk
  <2> QED BY <1>2, <1>6, <1>8, <1>9, <2>1, QuietStep DEF native
<1>10. CASE /\ q.at # "idle" /\ writes' = [writes EXCEPT ![op] = @ + 1]
            /\ mine' = mine \cup {op}
            /\ proc' = IF op = Stop /\ q.at = "written" THEN "gone" ELSE proc
  <2>1. /\ writes \in [Ops -> {0, 1}] /\ writes' \in [Ops -> {0, 1}] /\ writes'[op] = 1
        /\ \A x \in Ops : x # op => writes'[x] = writes[x]
    BY <1>2, <1>3, <1>10 DEF Typed
  <2>2. proc = "gone" => proc' = "gone"
    BY <1>10
  <2>3. Typed'
    BY <1>2, <1>4, <1>6, <1>7, <2>1 DEF Typed
  <2>4. ASSUME NEW c \in Copies PROVE CopyOk(c)'
    <3>1. CopyOk(c) /\ Past(c, op)
      BY <1>3 DEF IInv
    <3>2. ASSUME NEW j \in DOMAIN c PROVE EntryOk(c[j])'
      <4>0. c[j] \in Entry /\ EntryOk(c[j])
        BY <3>1 DEF CopyOk
      <4>1. EntryOk(c[j]) /\ c[j].op \in Ops
        BY <4>0 DEF Entry
      <4>2. c[j].op = op => Begun(c[j])
        BY <3>1 DEF Past
      <4>3. Honest(c[j])'
        BY <1>3, <2>1, <2>2, <4>1, <4>2 DEF EntryOk, Honest, Begun
      <4> QED BY <1>2, <1>4, <4>1, <4>3 DEF EntryOk, Reported
    <3>3. Complete(c)'
      <4> SUFFICES ASSUME NEW x \in Ops
                   PROVE  \/ In(c, x)
                          \/ x \notin Keys /\ writes'[x] = 0 /\ known[x] = "none"
                          \/ x \in Keys /\ known[x] \in {"none"} \cup Closed
        BY <1>2 DEF Complete, In
      <4>1. CASE x = op /\ op \notin Keys
        BY <3>1, <4>1 DEF Past
      <4>2. CASE x = op /\ op \in Keys
        BY <3>1, <4>2 DEF CopyOk, Complete
      <4>3. CASE x # op
        BY <2>1, <3>1, <4>3 DEF CopyOk, Complete
      <4> QED BY <4>1, <4>2, <4>3
    <3>4. Room(c)'
      BY <1>2, <3>1 DEF CopyOk, Room, In
    <3> QED BY <3>1, <3>2, <3>3, <3>4 DEF CopyOk, Distinct
  <2>5. EntryOk(mem[i])
    BY <1>2 DEF CopyOk
  <2>6. known[op] \in {"none", "accepted", "write_started"}
    <3>1. /\ mem[i].sent \in Nat /\ Len(mem[i].log) = 2
          /\ mem[i].log[1] = "accepted" /\ mem[i].log[2] = "write_started"
      <4>1. mem[i] \in Entry
        BY <1>2 DEF CopyOk
      <4> QED BY <1>3, <4>1 DEF Entry
    <3>2. mem[i].sent \in {0, 1, 2}
      BY <2>5, <3>1 DEF EntryOk, Reported
    <3> QED BY <1>3, <2>5, <3>1, <3>2 DEF EntryOk, Reported
  <2>7. op \in Keys => op \in offered
    BY <1>3, <2>5 DEF EntryOk
  <2>8. ServerOk'
    BY <1>2, <2>1, <2>2, <2>6, <2>7 DEF IInv, ServerOk, Acknowledged
  <2>9. MineOk'
    BY <1>2, <1>4, <1>10 DEF IInv, MineOk
  <2>10. Down'
    BY <1>2, <1>4 DEF Down
  <2>11. OwnerOk'
    BY <1>1, <1>4, <1>6, <1>7, <1>10, <2>1 DEF OwnerOk
  <2>12. ReaderOk'
    BY <1>2, <1>7 DEF IInv, ReaderOk
  <2>13. EventsOk'
    BY <1>2, <1>6, <1>7, <1>8 DEF IInv, EventsOk, Threads
  <2>14. \A u \in Threads : AckOk(u)'
    BY <1>2, <1>4, <1>6, <1>7 DEF IInv, AckOk, Threads
  <2> QED BY <1>4, <2>3, <2>4, <2>8, <2>9, <2>10, <2>11, <2>12, <2>13, <2>14 DEF IInv
<1> QED BY <1>6, <1>9, <1>10

(* AcknowledgeWrite and ConfirmExit come with the transport's evidence. *)
LEMMA SettleOk ==
  ASSUME IInv, Settle
  PROVE  IInv'
<1>1. PICK op \in Ops : op = th["owner"].op /\ th["owner"].at = "written" /\ op \in Offers
  BY DEF Settle, IInv, OwnerOk, Offers, Ops
<1>2. /\ store # "down" /\ Typed /\ "owner" \in Threads /\ events \in Seq(Event)
      /\ UNCHANGED <<mode, offered, known, writes, proc, recovered, mine, events>>
  BY <1>1, Awake DEF Settle, IInv, Typed, Threads, daemon, native, server
<1>3. PICK s \in States :
        /\ s = Evidence(op)
        /\ s = "write_acknowledged" => writes[op] = 1 /\ op \in mine
        /\ s = "exit_confirmed" => proc = "gone"
  BY <1>1 DEF Evidence, States, IInv, OwnerOk
<1>4. PICK q \in Places :
        /\ th' = [th EXCEPT !["owner"] = q]
        /\ \/ q.at = "unsure" /\ q.op = op
           \/ q.at = "report" /\ q.for \in {"send", "key", "exit"} /\ (q.for = "key" => op \in Keys)
  <2>1. op \in Inputs \/ op \in Keys \/ op = Stop
    BY DEF Ops
  <2>2. /\ Place("unsure", op, "idle") \in Places
        /\ Place("unsure", op, "idle").at = "unsure" /\ Place("unsure", op, "idle").op = op
    BY PlaceOk
  <2>3. ASSUME NEW f \in {"send", "key", "exit"}, NEW scope, scope \subseteq Ops
        PROVE  /\ Flush(f, op, scope, "idle") \in Places
               /\ Flush(f, op, scope, "idle").at = "report"
               /\ Flush(f, op, scope, "idle").for = f
    <3>1. f \in Callers /\ "idle" \in {"idle", "reconcile", "events"}
      BY DEF Callers
    <3> QED BY <2>3, <3>1, FlushOk
  <2>4. CASE Goto("owner", Place("unsure", op, "idle"))
    BY <2>2, <2>4 DEF Goto
  <2>5. CASE Goto("owner", CASE op \in Inputs -> Flush("send", op, Ops, "idle")
                             [] op \in Keys -> Flush("key", op, {op}, "idle")
                             [] op = Stop -> Flush("exit", op, Ops, "idle"))
    <3>1. CASE op \in Inputs
      <4>1. th' = [th EXCEPT !["owner"] = Flush("send", op, Ops, "idle")]
        BY <2>5, <3>1, OperationsAssumption DEF Goto
      <4> QED BY <2>3, <4>1
    <3>2. CASE op \in Keys
      <4>1. th' = [th EXCEPT !["owner"] = Flush("key", op, {op}, "idle")]
        BY <2>5, <3>2, OperationsAssumption DEF Goto
      <4> QED BY <2>3, <3>2, <4>1
    <3>3. CASE op = Stop
      <4>1. th' = [th EXCEPT !["owner"] = Flush("exit", op, Ops, "idle")]
        BY <2>5, <3>3, OperationsAssumption DEF Goto
      <4> QED BY <2>3, <4>1
    <3> QED BY <2>1, <3>1, <3>2, <3>3
  <2> QED BY <1>1, <2>4, <2>5 DEF Settle
<1>5. th'["owner"] = q
  BY <1>2, <1>4 DEF Typed
<1>6. OwnerOk'
  <2>1. CASE q.at = "unsure"
    BY <1>1, <1>2, <1>4, <1>5, <2>1 DEF OwnerOk, Offers
  <2>2. CASE q.at = "report"
    BY <1>5, <2>2, OwnerFree
  <2> QED BY <1>4, <2>1, <2>2
<1>7. HoldsEvents("owner")' => mode = "terminal"
  <2>1. op \in Keys => mode = "terminal"
    BY <1>1, <1>2, OperationsAssumption DEF Offers, Typed
  <2> QED BY <1>4, <1>5, <2>1 DEF HoldsEvents
<1>8. Advances(op, s) \/ AdvanceFails(op, s)
  BY <1>1, <1>3 DEF Settle
<1> QED BY <1>2, <1>3, <1>4, <1>6, <1>7, <1>8, AdvanceStep, ZenonT(40) DEF Callers

(* A possible write becomes uncertain. *)
LEMMA UnsureOk ==
  ASSUME IInv, Unsure
  PROVE  IInv'
<1>1. PICK op \in Ops : op = th["owner"].op /\ th["owner"].at = "unsure"
  BY DEF Unsure, IInv, OwnerOk, Offers, Ops
<1>2. /\ store # "down" /\ Typed /\ "owner" \in Threads /\ "uncertain" \in States
      /\ UNCHANGED <<mode, offered, known, writes, proc, recovered, mine, events>>
  BY <1>1, Awake DEF Unsure, IInv, Typed, Threads, States, native, server
<1>3. PICK q \in Places : th' = [th EXCEPT !["owner"] = q] /\ q.at = "idle"
  BY IdleOk DEF Unsure, Goto
<1>4. th'["owner"] = q
  BY <1>2, <1>3 DEF Typed
<1>5. OwnerOk' /\ ~HoldsEvents("owner")'
  BY <1>3, <1>4, OwnerFree DEF HoldsEvents
<1>6. Advances(op, "uncertain") \/ AdvanceFails(op, "uncertain")
  BY <1>1 DEF Unsure
<1> QED BY <1>2, <1>3, <1>5, <1>6, AdvanceStep

(* A refused keystroke is rejected. *)
LEMMA RejectOk ==
  ASSUME IInv, Reject
  PROVE  IInv'
<1>1. PICK op \in Ops : /\ op = th["owner"].op /\ th["owner"].at = "reject"
                        /\ op \in Offers /\ op \in Keys
  BY DEF Reject, IInv, OwnerOk, Offers, Ops
<1>2. /\ store # "down" /\ Typed /\ "owner" \in Threads /\ "rejected" \in States
      /\ UNCHANGED <<mode, offered, known, writes, proc, recovered, mine, events>>
  BY <1>1, Awake DEF Reject, IInv, Typed, Threads, States, daemon, native, server
<1>3. PICK q \in Places : /\ th' = [th EXCEPT !["owner"] = q]
                          /\ q.at = "report" /\ q.for = "key"
  <2>1. /\ Flush("key", op, {op}, "idle") \in Places
        /\ Flush("key", op, {op}, "idle").at = "report"
        /\ Flush("key", op, {op}, "idle").for = "key"
    BY FlushOk DEF Callers
  <2> QED BY <1>1, <2>1 DEF Reject, Goto
<1>4. th'["owner"] = q
  BY <1>2, <1>3 DEF Typed
<1>5. OwnerOk' /\ mode = "terminal"
  BY <1>1, <1>2, <1>3, <1>4, OwnerFree, OperationsAssumption DEF Offers, Typed
<1>6. Advances(op, "rejected") \/ AdvanceFails(op, "rejected")
  BY <1>1 DEF Reject
<1> QED BY <1>2, <1>3, <1>5, <1>6, AdvanceStep DEF Callers

(* reconcileExit: only a process that was seen gone is called exited. *)
LEMMA ReconcileOk ==
  ASSUME IInv, Reconcile
  PROVE  IInv'
<1>1. /\ store # "down" /\ Typed /\ "owner" \in Threads /\ "exit_confirmed" \in States
      /\ Stop \in Ops /\ events \in Seq(Event)
      /\ UNCHANGED <<mode, offered, known, writes, proc, recovered, mine, events>>
  BY Awake DEF Reconcile, IInv, Typed, Threads, States, Ops, daemon, native, server
<1>2. /\ Place("events", Stop, "idle") \in Places
      /\ Place("events", Stop, "idle").at = "events"
      /\ Flush("exit", Stop, Ops, "events") \in Places
      /\ Flush("exit", Stop, Ops, "events").at = "report"
      /\ Flush("exit", Stop, Ops, "events").for = "exit"
  BY <1>1, PlaceOk, FlushOk DEF Callers
<1>3. PICK q \in Places :
        /\ th' = [th EXCEPT !["owner"] = q]
        /\ q.at = "events" \/ (q.at = "report" /\ q.for = "exit")
        /\ \/ UNCHANGED journal
           \/ /\ proc = "gone"
              /\ Advances(Stop, "exit_confirmed") \/ AdvanceFails(Stop, "exit_confirmed")
  BY <1>2 DEF Reconcile, Goto
<1>4. th'["owner"] = q
  BY <1>1, <1>3 DEF Typed
<1>5. OwnerOk' /\ ~HoldsEvents("owner")'
  BY <1>3, <1>4, OwnerFree DEF HoldsEvents
<1>6. CASE UNCHANGED journal
  BY <1>1, <1>3, <1>5, <1>6, QuietStep DEF Callers
<1>7. CASE /\ proc = "gone"
           /\ Advances(Stop, "exit_confirmed") \/ AdvanceFails(Stop, "exit_confirmed")
  BY <1>1, <1>3, <1>5, <1>7, AdvanceStep DEF Callers
<1> QED BY <1>3, <1>6, <1>7

(* The other steps of a poll leave the journal alone. *)
LEMMA PollOk ==
  ASSUME IInv, PollStart \/ PollEvents \/ Release
  PROVE  IInv'
<1>1. /\ Typed /\ "owner" \in Threads /\ Stop \in Ops /\ th["owner"] \in Places
      /\ events \in Seq(Event)
  BY DEF IInv, Typed, Threads, Ops
<1>2. /\ store # "down" /\ UNCHANGED journal
      /\ UNCHANGED <<mode, offered, known, writes, proc, recovered, mine, events>>
  <2>1. CASE PollStart
    BY <2>1 DEF PollStart, FinishTerminalExit, daemon, native, server
  <2>2. CASE PollEvents
    BY <2>2, <1>1, Awake DEF PollEvents, daemon, native, server
  <2>3. CASE Release
    BY <2>3, <1>1, Awake DEF Release, daemon, native, server
  <2> QED BY <2>1, <2>2, <2>3
<1>3. /\ Idle \in Places /\ Idle.at = "idle"
      /\ \A a \in {"idle", "release", "reconcile", "events", "observe"} :
           Place(a, Stop, "idle") \in Places /\ Place(a, Stop, "idle").at = a
      /\ Flush("poll", Stop, Ops, "reconcile") \in Places
      /\ Flush("poll", Stop, Ops, "reconcile").at = "report"
      /\ Flush("poll", Stop, Ops, "reconcile").for = "poll"
  BY <1>1, IdleOk, PlaceOk, FlushOk DEF Callers
<1>4. PICK q \in Places :
        /\ th' = [th EXCEPT !["owner"] = q]
        /\ q.at \in {"idle", "report", "release", "reconcile", "events", "observe"}
        /\ q.at = "report" => q.for = "poll" /\ EventsFree
        /\ q.at = "observe" => EventsFree
  <2>1. CASE PollStart
    BY <1>3, <2>1 DEF PollStart, FinishTerminalExit, Goto
  <2>2. CASE PollEvents
    BY <1>3, <2>2 DEF PollEvents, Goto
  <2>3. CASE Release
    <3>1. th["owner"].back \in {"idle", "reconcile", "events"}
      BY <1>1 DEF Places
    <3> QED BY <1>3, <2>3, <3>1 DEF Release, Goto
  <2> QED BY <2>1, <2>2, <2>3
<1>5. th'["owner"] = q
  BY <1>1, <1>4 DEF Typed
<1>6. OwnerOk'
  BY <1>4, <1>5, OwnerFree
<1>7. HoldsEvents("owner")' => EventsFree
  BY <1>4, <1>5 DEF HoldsEvents
<1> QED BY <1>1, <1>2, <1>4, <1>6, <1>7, QuietStep DEF Callers

(* A provider's event, and what the flusher of events does with it. *)
LEMMA ArriveOk ==
  ASSUME IInv, NEW i \in Inputs, Arrive(i)
  PROVE  IInv'
<1>1. /\ Typed /\ "reader" \in Threads /\ Stop \in Ops /\ i \in Ops /\ i \notin Keys
      /\ store # "down" /\ CopyOk(mem) /\ events \in Seq(Event) /\ EventsFree
      /\ UNCHANGED journal
      /\ UNCHANGED <<mode, offered, known, writes, proc, recovered, mine>>
  BY OperationsAssumption DEF Arrive, IInv, Copies, Typed, Threads, Ops, server
<1>2. PICK q \in Places : /\ th' = [th EXCEPT !["reader"] = q]
                          /\ q.at = "observe" /\ q.back = "idle"
  <2>1. /\ Place("observe", Stop, "idle") \in Places
        /\ Place("observe", Stop, "idle").at = "observe"
        /\ Place("observe", Stop, "idle").back = "idle"
    BY <1>1, PlaceOk
  <2> QED BY <2>1 DEF Arrive, Goto
<1>3. th'["reader"] = q
  BY <1>1, <1>2 DEF Typed
<1>4. mode = "structured"
  <2>1. writes[i] # 0
    BY <1>1 DEF Arrive, Typed
  <2>2. PICK j \in DOMAIN mem : mem[j].op = i
    BY <1>1, <2>1 DEF CopyOk, Complete, In
  <2>3. i \in Offers
    BY <1>1, <2>2 DEF CopyOk, EntryOk
  <2> QED BY <1>1, <2>3, OperationsAssumption DEF Offers, Typed
<1>5. ReaderOk'
  BY <1>1, <1>2, <1>3, <1>4 DEF ReaderOk
<1>6. PICK e \in Event : events' = Append(events, e)
  <2>1. \A s \in {"turn_started", "turn_completed"} : [op |-> i, state |-> s] \in Event
    BY DEF Event
  <2> QED BY <2>1 DEF Arrive
<1>7. events' \in Seq(Event) /\ events' # <<>>
  BY <1>1, <1>6
<1> QED BY <1>1, <1>2, <1>5, <1>7, QuietStep

(* flushEvents journals the event at the head, drops it or keeps it. *)
LEMMA ObserveOk ==
  ASSUME IInv, NEW t \in Threads, Observe(t)
  PROVE  IInv'
<1>1. /\ Typed /\ Stop \in Ops /\ th[t] \in Places /\ th \in [Threads -> Places]
      /\ store # "down" /\ events \in Seq(Event) /\ HoldsEvents(t) /\ th[t].at = "observe"
      /\ UNCHANGED <<mode, offered, known, writes, proc, recovered, mine>>
  BY Awake DEF Observe, IInv, Typed, Ops, HoldsEvents, native, server
<1>2. th[t].back \in {"idle", "reconcile", "events"}
  BY <1>1 DEF Places
<1>3. t = "reader" => mode = "structured" /\ th[t].back = "idle"
  BY <1>1 DEF IInv, ReaderOk
<1>4. ASSUME NEW q \in Places, th' = [th EXCEPT ![t] = q],
             \/ q.at = th[t].back
             \/ q.at = "observe" /\ q.back = th[t].back
             \/ q.at = "report" /\ q.for = "event" /\ q.back = th[t].back,
             t = "reader" => q.back = "idle"
      PROVE  (t = "owner" => OwnerOk') /\ (t = "reader" => ReaderOk')
  <2>1. th'[t] = q
    BY <1>1, <1>4
  <2>2. t = "owner" => OwnerOk'
    BY <1>2, <1>4, <2>1, OwnerFree
  <2>3. t = "reader" => ReaderOk'
    BY <1>1, <1>3, <1>4, <2>1 DEF ReaderOk
  <2> QED BY <2>2, <2>3
<1>5. PICK back \in Places : /\ back = Place(th[t].back, Stop, "idle")
                             /\ back.at = th[t].back /\ back.back = "idle"
  <2>1. \A a \in {"idle", "reconcile", "events"} :
          /\ Place(a, Stop, "idle") \in Places /\ Place(a, Stop, "idle").at = a
          /\ Place(a, Stop, "idle").back = "idle"
    BY <1>1, PlaceOk
  <2> QED BY <1>2, <2>1
<1>6. CASE events = <<>> /\ Goto(t, back) /\ UNCHANGED <<journal, faults, events>>
  <2>1. th' = [th EXCEPT ![t] = back]
    BY <1>6 DEF Goto
  <2>2. (t = "owner" => OwnerOk') /\ (t = "reader" => ReaderOk')
    BY <1>4, <1>5, <2>1
  <2>3. UNCHANGED journal /\ events' = events /\ back.at \in {"idle", "reconcile", "events"}
    BY <1>2, <1>5, <1>6
  <2> QED BY <1>1, <2>1, <2>2, <2>3, QuietStep
<1>7. CASE events # <<>> /\ events' = Tail(events) /\ UNCHANGED <<journal, faults, th>>
  <2>1. th' = [th EXCEPT ![t] = th[t]]
    BY <1>1, <1>7
  <2>2. (t = "owner" => OwnerOk') /\ (t = "reader" => ReaderOk')
    BY <1>1, <1>3, <1>4, <2>1
  <2>3. UNCHANGED journal /\ events' \in Seq(Event)
    BY <1>1, <1>7
  <2> QED BY <1>1, <2>1, <2>2, <2>3, QuietStep
<1>8. CASE /\ events # <<>> /\ UNCHANGED events
           /\ \/ /\ Advances(Head(events).op, Head(events).state)
                 /\ Goto(t, Flush("event", Head(events).op, Ops, th[t].back))
              \/ /\ AdvanceFails(Head(events).op, Head(events).state)
                 /\ Goto(t, back)
  <2>1. PICK op \in Inputs, s \in {"turn_started", "turn_completed"} :
          op = Head(events).op /\ s = Head(events).state
    <3>1. Head(events) \in Event
      BY <1>1, <1>8
    <3> QED BY <3>1 DEF Event
  <2>2. op \in Ops /\ s \in States
    BY DEF Ops, States
  <2>3. PICK q \in Places :
          /\ th' = [th EXCEPT ![t] = q] /\ (t = "reader" => q.back = "idle")
          /\ \/ q.at = th[t].back
             \/ q.at = "report" /\ q.for = "event" /\ q.back = th[t].back
    <3>1. /\ Flush("event", op, Ops, th[t].back) \in Places
          /\ Flush("event", op, Ops, th[t].back).at = "report"
          /\ Flush("event", op, Ops, th[t].back).for = "event"
          /\ Flush("event", op, Ops, th[t].back).back = th[t].back
      BY <1>2, <2>2, FlushOk DEF Callers
    <3> QED BY <1>3, <1>5, <1>8, <2>1, <3>1 DEF Goto
  <2>4. (t = "owner" => OwnerOk') /\ (t = "reader" => ReaderOk')
    BY <1>4, <2>3
  <2>5. Advances(op, s) \/ AdvanceFails(op, s)
    BY <1>8, <2>1
  <2>6. q.at # "ack" /\ (q.at = "report" => q.for \in Callers)
    BY <1>2, <2>3 DEF Callers
  <2>7. UNCHANGED <<mode, offered, known, writes, proc, recovered, mine, events>>
    BY <1>1, <1>8
  <2> QED BY <1>1, <1>8, <2>2, <2>3, <2>4, <2>5, <2>6, <2>7, AdvanceStep
<1> QED BY <1>5, <1>6, <1>7, <1>8 DEF Observe

(* Only the truth of an exit depends on the process. *)
LEMMA ProcessExitsOk ==
  ASSUME IInv, ProcessExits
  PROVE  IInv'
<1>1. /\ proc' = "gone" /\ mem' = mem /\ images' = images /\ store' = store
      /\ Copies' = Copies /\ Offers' = Offers
      /\ UNCHANGED <<mode, offered, known, writes, recovered, mine, events, th>>
  BY DEF ProcessExits, journal, daemon, server, Copies, Offers
<1>2. ASSUME NEW c, CopyOk(c) PROVE CopyOk(c)'
  <2>1. \A e : EntryOk(e) => EntryOk(e)'
    BY <1>1 DEF EntryOk, Reported, Honest, Begun
  <2>2. Complete(c)' /\ Room(c)'
    BY <1>1, <1>2 DEF CopyOk, Complete, Room, In
  <2> QED BY <1>2, <2>1, <2>2 DEF CopyOk, Distinct
<1>3. Typed' /\ ServerOk' /\ MineOk' /\ Down' /\ ReaderOk'
  BY <1>1 DEF IInv, Typed, ServerOk, MineOk, Down, ReaderOk
<1>4. OwnerOk'
  BY <1>1, OwnerFree DEF ProcessExits
<1>5. EventsOk' /\ \A t \in Threads : AckOk(t)'
  BY <1>1 DEF IInv, EventsOk, HoldsEvents, AckOk
<1> QED BY <1>1, <1>2, <1>3, <1>4, <1>5 DEF IInv

(* Where the caller of a flush goes on. *)
Lands(t, q) ==
  /\ th' = [th EXCEPT ![t] = q]
  /\ q.at \in {"idle", "reconcile", "events", "observe", "release", "report", "retire"}
  /\ q.at = "report" => q.for = "own"
  /\ q.at \in {"report", "release"} => th[t].for \in {"exit", "own"}
  /\ q.at \in {"observe", "retire"} => HoldsEvents(t)
  /\ q.at = "retire" => mode = "terminal"
  /\ t = "reader" => q.at \in {"idle", "observe"} /\ q.back = "idle"
  /\ events' \in Seq(Event)
  /\ events' = events \/ HoldsEvents(t)

(* Every result of a flush lands its caller at one of those places. *)
LEMMA FinishLands ==
  ASSUME IInv, NEW t \in Threads, th[t].at \in {"report", "ack"},
         NEW result \in {"ok", "error", "refused"}, Finish(t, result)
  PROVE  \E q \in Places : Lands(t, q)
<1> DEFINE p == th[t]
<1>1. /\ Typed /\ Stop \in Ops /\ p \in Places /\ CopyOk(mem) /\ events \in Seq(Event)
      /\ p.for \in Callers
  BY Awake DEF IInv, Typed, Ops
<1>2. p.back \in {"idle", "reconcile", "events"} /\ p.op \in Ops
  BY <1>1 DEF Places
<1>3. t = "reader" => p.for = "event" /\ p.back = "idle"
  BY DEF IInv, ReaderOk
<1>4. p.for \in {"poll", "key", "event"} => HoldsEvents(t)
  BY DEF HoldsEvents
<1>5. Retained # mem => mode = "terminal"
  BY <1>1, RetainedOk DEF Typed
<1>6. /\ Idle \in Places /\ Idle.at = "idle"
      /\ Place(p.back, Stop, "idle") \in Places
      /\ Place(p.back, Stop, "idle").at = p.back
      /\ Place(p.back, Stop, "idle").back = "idle"
  BY <1>1, <1>2, IdleOk, PlaceOk
<1>7. CASE p.for = "send"
  <2>1. Goto(t, Idle) /\ UNCHANGED events
    BY <1>7 DEF Finish
  <2> QED BY <1>1, <1>3, <1>6, <1>7, <2>1 DEF Goto, Lands
<1>8. CASE p.for \in {"poll", "key"}
  <2>1. /\ Place("retire", Stop, p.back) \in Places
        /\ Place("retire", Stop, p.back).at = "retire"
    BY <1>1, <1>2, PlaceOk
  <2>2. /\ UNCHANGED events
        /\ \/ Goto(t, Place(p.back, Stop, "idle"))
           \/ Retained # mem /\ Goto(t, Place("retire", Stop, p.back))
    BY <1>8 DEF Finish
  <2>3. CASE Goto(t, Place(p.back, Stop, "idle"))
    BY <1>1, <1>2, <1>3, <1>6, <1>8, <2>2, <2>3 DEF Goto, Lands
  <2>4. CASE Retained # mem /\ Goto(t, Place("retire", Stop, p.back))
    BY <1>1, <1>3, <1>4, <1>5, <1>8, <2>1, <2>2, <2>4 DEF Goto, Lands
  <2> QED BY <2>2, <2>3, <2>4
<1>9. CASE p.for = "event"
  <2>1. /\ Place("observe", p.op, p.back) \in Places
        /\ Place("observe", p.op, p.back).at = "observe"
        /\ Place("observe", p.op, p.back).back = p.back
    BY <1>2, PlaceOk
  <2>2. \/ Goto(t, Place(p.back, Stop, "idle")) /\ UNCHANGED events
        \/ Goto(t, Place("observe", p.op, p.back)) /\ events' = Tail(events)
    BY <1>9 DEF Finish
  <2>3. events # <<>>
    BY <1>9 DEF IInv, EventsOk
  <2>4. Tail(events) \in Seq(Event)
    BY <1>1, <2>3
  <2>5. CASE Goto(t, Place(p.back, Stop, "idle")) /\ UNCHANGED events
    BY <1>1, <1>2, <1>3, <1>4, <1>6, <1>9, <2>5 DEF Goto, Lands
  <2>6. CASE Goto(t, Place("observe", p.op, p.back)) /\ events' = Tail(events)
    BY <1>3, <1>4, <1>9, <2>1, <2>4, <2>6 DEF Goto, Lands
  <2> QED BY <2>2, <2>5, <2>6
<1>10. CASE p.for \in {"exit", "own"}
  <2>1. PICK r \in Places : /\ r = [Place("release", p.op, p.back) EXCEPT !.for = "exit"]
                            /\ r.at = "release"
    BY <1>2, ReleaseOk
  <2>2. /\ Flush("own", p.op, {p.op}, p.back) \in Places
        /\ Flush("own", p.op, {p.op}, p.back).at = "report"
        /\ Flush("own", p.op, {p.op}, p.back).for = "own"
    BY <1>2, FlushOk DEF Callers
  <2>3. /\ UNCHANGED events
        /\ \/ Goto(t, Place(p.back, Stop, "idle"))
           \/ Goto(t, r)
           \/ Goto(t, Flush("own", p.op, {p.op}, p.back))
    BY <1>10, <2>1 DEF Finish
  <2>4. CASE Goto(t, Place(p.back, Stop, "idle"))
    BY <1>1, <1>2, <1>3, <1>6, <1>10, <2>3, <2>4 DEF Goto, Lands
  <2>5. CASE Goto(t, r)
    BY <1>1, <1>3, <1>10, <2>1, <2>3, <2>5 DEF Goto, Lands
  <2>6. CASE Goto(t, Flush("own", p.op, {p.op}, p.back))
    BY <1>1, <1>3, <1>10, <2>2, <2>3, <2>6 DEF Goto, Lands
  <2> QED BY <2>3, <2>4, <2>5, <2>6
<1> QED BY <1>1, <1>7, <1>8, <1>9, <1>10 DEF Callers

(* There the goroutine relies on nothing new, and takes no lock. *)
LEMMA LandsOk ==
  ASSUME IInv, NEW t \in Threads, th[t].at \in {"report", "ack"},
         NEW q \in Places, Lands(t, q), UNCHANGED mode
  PROVE  /\ q.at # "ack" /\ (q.at = "report" => q.for \in Callers /\ q.for # "event")
         /\ t = "owner" => OwnerOk'
         /\ t = "reader" => ReaderOk'
         /\ HoldsEvents(t)' => HoldsEvents(t)
<1>1. th'[t] = q
  BY DEF Lands, IInv, Typed
<1>2. t = "owner" => OwnerOk'
  <2>1. CASE q.at = "retire"
    BY <1>1, <2>1 DEF Lands, OwnerOk
  <2>2. CASE q.at # "retire"
    BY <1>1, <2>2, OwnerFree DEF Lands
  <2> QED BY <2>1, <2>2
<1>3. t = "reader" => ReaderOk'
  BY <1>1 DEF Lands, IInv, ReaderOk
<1>4. HoldsEvents(t)' => HoldsEvents(t)
  BY <1>1 DEF Lands, HoldsEvents
<1> QED BY <1>2, <1>3, <1>4 DEF Lands, Callers

(* The end of a flush, with a journal whose logs are the same. *)
LEMMA FinishStep ==
  ASSUME IInv, NEW t \in Threads, th[t].at \in {"report", "ack"},
         NEW result \in {"ok", "error", "refused"}, Finish(t, result),
         UNCHANGED known, NEW d, CopyOk(d), Grown(mem, d), DOMAIN d = DOMAIN mem,
         \A i \in DOMAIN mem : d[i].log = mem[i].log,
         store' \in {"open", "poisoned"}, mem' \in {mem, d},
         Copies' \subseteq Copies \cup {d}
  PROVE  IInv'
<1>1. PICK q \in Places : Lands(t, q)
  BY FinishLands
<1>2. UNCHANGED <<mode, recovered, offered, proc, writes, mine>>
  BY DEF Finish, native
<1>3. /\ q.at # "ack" /\ (q.at = "report" => q.for \in Callers /\ q.for # "event")
      /\ t = "owner" => OwnerOk'
      /\ t = "reader" => ReaderOk'
      /\ HoldsEvents(t)' => HoldsEvents(t)
  BY <1>1, <1>2, LandsOk
<1>4. CopyOk(d)'
  BY <1>2, CopyFrame
<1>5. store # "down" /\ CopyOk(mem)
  BY Awake
<1>6. MineOk'
  <2>1. Extended(d, Stop, "none")
    BY DEF Extended
  <2> QED BY <1>2, <1>5, <2>1, MineStays
<1>7. th' = [th EXCEPT ![t] = q] /\ events' \in Seq(Event) /\ (events' = events \/ HoldsEvents(t))
  BY <1>1 DEF Lands
<1> QED BY <1>2, <1>3, <1>4, <1>5, <1>6, <1>7, ThreadStep

(* The server takes the next state of the entry at i. *)
LEMMA TakenOk ==
  ASSUME CopyOk(mem), Typed, ServerOk, NEW i \in DOMAIN mem, mem[i].sent < Len(mem[i].log),
         known' = [known EXCEPT ![mem[i].op] = mem[i].log[mem[i].sent + 1]],
         UNCHANGED <<mode, offered, writes, proc>>, NEW d, d = mem
  PROVE  /\ CopyOk(d)' /\ ServerOk'
         /\ known' \in [Ops -> States \cup {"none"}]
<1>1. mem \in Seq(Entry) /\ mem[i] \in Entry /\ EntryOk(mem[i])
  BY DEF CopyOk
<1>2. PICK op \in Ops, s \in States, k \in 1..Len(mem[i].log) :
        /\ op = mem[i].op /\ k = mem[i].sent + 1 /\ s = mem[i].log[k]
        /\ Len(mem[i].log) \in Nat /\ mem[i].sent \in Nat
  <2>1. mem[i].op \in Ops /\ mem[i].log \in Seq(States) /\ mem[i].sent \in Nat
    BY <1>1 DEF Entry
  <2>2. Len(mem[i].log) \in Nat /\ mem[i].sent + 1 \in 1..Len(mem[i].log)
    BY <2>1
  <2>3. mem[i].log[mem[i].sent + 1] \in States
    BY <2>1, <2>2
  <2> QED BY <2>1, <2>2, <2>3
<1>3. known' = [known EXCEPT ![op] = s] /\ known \in [Ops -> States \cup {"none"}]
  BY <1>2 DEF Typed
<1>4. known'[op] = s /\ \A x \in Ops : x # op => known'[x] = known[x]
  BY <1>2, <1>3
<1>5. s \in {"rejected", "expired"} => writes[op] = 0
  <2> SUFFICES ASSUME s \in {"rejected", "expired"} PROVE writes[op] = 0
    OBVIOUS
  <2>1. k = 2
    BY <1>1, <1>2 DEF EntryOk, LogOk
  <2> QED BY <1>1, <1>2, <2>1 DEF EntryOk, Honest, Begun
<1>6. /\ s \in Acknowledged => writes[op] = 1
      /\ s = "exit_confirmed" => proc = "gone"
      /\ op \in Keys => op \in offered
  BY <1>1, <1>2 DEF EntryOk, Honest
<1>7. ServerOk'
  BY <1>4, <1>5, <1>6 DEF ServerOk
<1>8. ASSUME NEW j \in DOMAIN mem PROVE EntryOk(mem[j]) /\ mem[j] \in Entry
  BY <1>1 DEF CopyOk
<1>9. ASSUME NEW j \in DOMAIN mem, NEW e, e = mem[j] PROVE EntryOk(e)'
  <2>1. EntryOk(e) /\ e.op \in Ops /\ e.sent \in Nat
    BY <1>8, <1>9 DEF Entry
  <2>2. Reported(e)'
    <3>1. CASE j = i
      BY <1>2, <1>4, <1>9, <2>1, <3>1 DEF EntryOk, Reported
    <3>2. CASE j # i
      <4>1. e.op # op
        BY <1>2, <1>9, <3>2 DEF CopyOk, Distinct
      <4>2. known'[e.op] = known[e.op]
        BY <1>4, <2>1, <4>1
      <4> QED BY <2>1, <4>2 DEF EntryOk, Reported
    <3> QED BY <3>1, <3>2
  <2> QED BY <2>1, <2>2 DEF EntryOk, Honest, Begun, Offers
<1>10. Complete(d)'
  <2>1. In(mem, op)
    BY <1>2 DEF In
  <2> QED BY <1>4, <2>1 DEF CopyOk, Complete, In
<1>11. Room(d)' /\ Distinct(d)' /\ d \in Seq(Entry)
  BY DEF CopyOk, Room, In, Distinct
<1>12. known' \in [Ops -> States \cup {"none"}]
  BY <1>3
<1> QED BY <1>7, <1>9, <1>10, <1>11, <1>12 DEF CopyOk

(* A report that reached the server, whether its answer came or not. *)
LEMMA TakenStep ==
  ASSUME IInv, NEW t \in Threads, NEW q \in Places, th' = [th EXCEPT ![t] = q],
         store = "open", UNCHANGED <<mem, store>>, images' = {mem},
         UNCHANGED <<mode, offered, writes, proc, recovered, mine>>,
         NEW i \in DOMAIN mem, mem[i].sent < Len(mem[i].log),
         known' = [known EXCEPT ![mem[i].op] = mem[i].log[mem[i].sent + 1]],
         events' \in Seq(Event),
         q.at = "ack" => q.idx = i /\ q.off = mem[i].sent,
         q.at \in {"report", "ack"} => q.for \in Callers,
         t = "owner" => OwnerOk',
         t = "reader" => ReaderOk',
         HoldsEvents(t)' => HoldsEvents(t),
         events' = events \/ HoldsEvents(t),
         q.at \in {"report", "ack"} /\ q.for = "event" => events' # <<>>
  PROVE  IInv'
<1>1. /\ th'[t] = q /\ (\A u \in Threads : u # t => th'[u] = th[u])
      /\ th' \in [Threads -> Places] /\ CopyOk(mem) /\ mem \in Copies /\ Typed
      /\ Copies' = {mem}
  BY DEF IInv, Typed, Copies
<1>2. PICK d : d = mem
  OBVIOUS
<1>3. CopyOk(d)' /\ ServerOk' /\ known' \in [Ops -> States \cup {"none"}]
  BY <1>1, <1>2, TakenOk DEF IInv
<1>4. Typed'
  BY <1>1, <1>3 DEF IInv, Typed
<1>5. \A c \in Copies' : CopyOk(c)'
  BY <1>1, <1>2, <1>3
<1>6. MineOk' /\ Down'
  BY DEF IInv, MineOk, Down
<1>7. OwnerOk'
  <2>1. CASE t = "owner"
    BY <2>1
  <2>2. CASE t = "reader"
    <3>1. th'["owner"] = th["owner"]
      BY <1>1, <2>2 DEF Threads
    <3>2. Grown(mem, d) /\ DOMAIN d = DOMAIN mem /\ \A j \in DOMAIN mem : d[j].log = mem[j].log
      BY <1>1, <1>2, SelfGrown
    <3>3. mem' \in {mem, d} /\ Copies' \subseteq Copies \cup {d}
      BY <1>1
    <3> QED BY <3>1, <3>2, <3>3, OwnerFrame
  <2> QED BY <2>1, <2>2 DEF Threads
<1>8. ReaderOk'
  <2>1. CASE t = "reader"
    BY <2>1
  <2>2. CASE t = "owner"
    <3>1. th'["reader"] = th["reader"]
      BY <1>1, <2>2 DEF Threads
    <3> QED BY <3>1 DEF IInv, ReaderOk
  <2> QED BY <2>1, <2>2 DEF Threads
<1>9. \A u \in Threads : u # t => (HoldsEvents(u)' <=> HoldsEvents(u))
  BY <1>1 DEF HoldsEvents
<1>10. ~(HoldsEvents("owner")' /\ HoldsEvents("reader")')
  BY <1>9 DEF IInv, EventsOk, Threads
<1>11. ASSUME NEW u \in Threads, th'[u].at \in {"report", "ack"}, th'[u].for = "event"
       PROVE  events' # <<>>
  <2>1. CASE u = t
    BY <1>1, <1>11, <2>1
  <2>2. CASE u # t
    <3>1. HoldsEvents(u) /\ events # <<>>
      BY <1>1, <1>11, <2>2 DEF IInv, EventsOk, HoldsEvents
    <3>2. ~HoldsEvents(t)
      BY <2>2, <3>1 DEF IInv, EventsOk, Threads
    <3> QED BY <3>1, <3>2
  <2> QED BY <2>1, <2>2
<1>12. EventsOk'
  BY <1>10, <1>11 DEF EventsOk
<1>13. ASSUME NEW u \in Threads PROVE AckOk(u)'
  <2>1. mem[i] \in Entry /\ mem[i].op \in Ops /\ mem[i].sent \in Nat
    <3>1. mem[i] \in Entry
      BY <1>1 DEF CopyOk
    <3> QED BY <3>1 DEF Entry
  <2>2. known'[mem[i].op] = mem[i].log[mem[i].sent + 1]
    BY <1>1, <2>1 DEF Typed
  <2>3. CASE u = t
    BY <1>1, <2>1, <2>2, <2>3 DEF AckOk
  <2>4. CASE u # t
    <3> SUFFICES ASSUME th[u].at = "ack" PROVE AckOk(u)'
      BY <1>1, <2>4 DEF AckOk
    <3>1. PICK j \in DOMAIN mem : j = th[u].idx
      BY DEF IInv, AckOk
    <3>2. /\ th[u].off <= mem[j].sent
          /\ mem[j].sent = th[u].off =>
               th[u].off < Len(mem[j].log) /\ known[mem[j].op] = mem[j].log[th[u].off + 1]
      BY <3>1 DEF IInv, AckOk
    <3>3. mem[j].sent = th[u].off => known'[mem[j].op] = mem[j].log[th[u].off + 1]
      <4>1. CASE j = i
        BY <2>2, <4>1
      <4>2. CASE j # i
        <5>1. mem[j].op # mem[i].op
          BY <1>1, <4>2 DEF CopyOk, Distinct
        <5>2. mem[j] \in Entry
          BY <1>1 DEF CopyOk
        <5>3. mem[j].op \in Ops
          BY <5>2 DEF Entry
        <5>4. known'[mem[j].op] = known[mem[j].op]
          BY <1>1, <2>1, <5>1, <5>3 DEF Typed
        <5> QED BY <3>2, <5>4
      <4> QED BY <4>1, <4>2
    <3> QED BY <1>1, <2>4, <3>1, <3>2, <3>3 DEF AckOk
  <2> QED BY <2>3, <2>4
<1> QED BY <1>4, <1>3, <1>5, <1>6, <1>7, <1>8, <1>12, <1>13 DEF IInv

(* flush, to the server's answer. *)
LEMMA ReportOk ==
  ASSUME IInv, NEW t \in Threads, Report(t)
  PROVE  IInv'
<1>1. /\ th[t].at = "report" /\ Typed /\ th[t] \in Places /\ CopyOk(mem) /\ mem \in Copies
      /\ store # "down" /\ th[t].for \in Callers
  BY Awake DEF Report, IInv, Typed
<1>2. PICK d : d = mem
  OBVIOUS
<1>3. /\ CopyOk(d) /\ Grown(mem, d) /\ DOMAIN d = DOMAIN mem
      /\ \A i \in DOMAIN mem : d[i].log = mem[i].log
  BY <1>1, <1>2, SelfGrown
<1>4. ASSUME NEW result \in {"ok", "error", "refused"}, Finish(t, result), UNCHANGED known,
             \/ Saved(mem) \/ SaveFails(mem) \/ UNCHANGED journal
             \/ (images' = {mem} /\ UNCHANGED <<mem, store>>)
      PROVE  IInv'
  <2>1. /\ store' \in {"open", "poisoned"} /\ mem' \in {mem, d}
        /\ Copies' \subseteq Copies \cup {d}
    <3>1. CASE Saved(mem) \/ SaveFails(mem) \/ UNCHANGED journal
      BY <1>1, <1>2, <3>1, SaveEffect
    <3>2. CASE images' = {mem} /\ UNCHANGED <<mem, store>>
      BY <1>1, <1>2, <3>2 DEF Copies, Typed
    <3> QED BY <1>4, <3>1, <3>2
  <2> QED BY <1>1, <1>3, <1>4, <2>1, FinishStep
<1> DEFINE pending == Pending(th[t].scope)
           i == Min(pending)
           more == store = "open" /\ th[t].n < Limit /\ pending # {}
<1>5. more => i \in DOMAIN mem /\ mem[i].sent < Len(mem[i].log)
  <2>1. pending \subseteq Nat
    BY <1>1 DEF Pending, CopyOk
  <2>2. pending # {} => i \in pending
    BY <2>1, LeastOf
  <2> QED BY <2>2 DEF Pending
<1>6. CASE Shut /\ Finish(t, "error") /\ UNCHANGED server
  BY <1>4, <1>6 DEF Shut, server
<1>7. CASE Finish(t, "ok") /\ UNCHANGED <<journal, faults, server>>
  BY <1>4, <1>7 DEF server
<1>8. CASE SaveFails(mem) /\ Finish(t, "error") /\ UNCHANGED server
  BY <1>4, <1>8 DEF server
<1>9. CASE /\ Saved(mem) /\ Finish(t, "refused")
           /\ UNCHANGED server \/ Withdrawn(mem[i].op)
  BY <1>4, <1>9 DEF server, Withdrawn
<1>10. CASE /\ more /\ Saved(mem) /\ ServerTakes(mem[i].op, mem[i].log[mem[i].sent + 1])
            /\ Goto(t, [th[t] EXCEPT !.at = "ack", !.idx = i, !.off = mem[i].sent])
            /\ UNCHANGED <<mode, recovered, daemon, native>>
  <2>1. PICK j \in DOMAIN mem : j = i /\ mem[j].sent < Len(mem[j].log)
    BY <1>5, <1>10
  <2>2. j \in Nat /\ mem[j].sent \in Nat
    <3>1. mem \in Seq(Entry)
      BY <1>1 DEF CopyOk
    <3>2. mem[j] \in Entry /\ j \in Nat
      BY <3>1
    <3> QED BY <3>2 DEF Entry
  <2>3. PICK q \in Places :
          /\ th' = [th EXCEPT ![t] = q] /\ q.at = "ack" /\ q.idx = j /\ q.off = mem[j].sent
          /\ q.for = th[t].for /\ q.back = th[t].back
    <3>1. th' = [th EXCEPT ![t] = Taken(th[t], j, mem[j].sent)]
      BY <1>10, <2>1 DEF Goto, Taken
    <3>2. /\ Taken(th[t], j, mem[j].sent) \in Places
          /\ Taken(th[t], j, mem[j].sent).at = "ack"
          /\ Taken(th[t], j, mem[j].sent).idx = j
          /\ Taken(th[t], j, mem[j].sent).off = mem[j].sent
          /\ Taken(th[t], j, mem[j].sent).for = th[t].for
          /\ Taken(th[t], j, mem[j].sent).back = th[t].back
      <4>1. PICK p \in Places, off \in Nat : p = th[t] /\ off = mem[j].sent
        BY <1>1, <2>2
      <4>2. j \in Nat
        BY <2>2
      <4>3. /\ Taken(p, j, off) \in Places /\ Taken(p, j, off).at = "ack"
            /\ Taken(p, j, off).idx = j /\ Taken(p, j, off).off = off
            /\ Taken(p, j, off).for = p.for /\ Taken(p, j, off).back = p.back
        BY <4>2 DEF Taken, Places
      <4> QED BY <4>1, <4>3
    <3> QED BY <3>1, <3>2
  <2>4. th'[t] = q
    BY <1>1, <2>3 DEF Typed
  <2>5. t = "owner" => OwnerOk'
    BY <2>3, <2>4, OwnerFree
  <2>6. /\ UNCHANGED <<mem, store, mode, offered, writes, proc, recovered, mine, events>>
        /\ store = "open" /\ images' = {mem} /\ events \in Seq(Event)
        /\ known' = [known EXCEPT ![mem[j].op] = mem[j].log[mem[j].sent + 1]]
    BY <1>1, <1>10, <2>1 DEF Saved, daemon, native, ServerTakes, ServerRecords, Typed
  <2>7. t = "reader" => ReaderOk'
    BY <1>1, <2>3, <2>4, <2>6 DEF IInv, ReaderOk
  <2>8. HoldsEvents(t)' => HoldsEvents(t)
    BY <1>1, <2>3, <2>4 DEF HoldsEvents
  <2>9. q.for = "event" => events' # <<>>
    BY <1>1, <2>3, <2>6 DEF IInv, EventsOk
  <2> QED BY <1>1, <2>1, <2>3, <2>5, <2>6, <2>7, <2>8, <2>9, TakenStep
<1>11. CASE /\ more /\ images' = {mem} /\ UNCHANGED <<mem, store>>
            /\ ServerRecords(mem[i].op, mem[i].log[mem[i].sent + 1])
            /\ Finish(t, "error")
  <2>1. PICK j \in DOMAIN mem : j = i /\ mem[j].sent < Len(mem[j].log)
    BY <1>5, <1>11
  <2>2. PICK q \in Places : Lands(t, q)
    BY <1>1, <1>11, FinishLands
  <2>3. /\ UNCHANGED <<mode, offered, writes, proc, recovered, mine>>
        /\ store = "open"
        /\ known' = [known EXCEPT ![mem[j].op] = mem[j].log[mem[j].sent + 1]]
    BY <1>11, <2>1 DEF Finish, native, ServerRecords
  <2>4. /\ q.at # "ack" /\ (q.at = "report" => q.for \in Callers /\ q.for # "event")
        /\ t = "owner" => OwnerOk'
        /\ t = "reader" => ReaderOk'
        /\ HoldsEvents(t)' => HoldsEvents(t)
    BY <1>1, <2>2, <2>3, LandsOk
  <2>5. /\ th' = [th EXCEPT ![t] = q] /\ events' \in Seq(Event)
        /\ events' = events \/ HoldsEvents(t)
    BY <2>2 DEF Lands
  <2> QED BY <1>11, <2>1, <2>3, <2>4, <2>5, TakenStep
<1>12. CASE /\ images' = {mem} /\ UNCHANGED <<mem, store>>
            /\ UNCHANGED server /\ Finish(t, "error")
  BY <1>4, <1>12 DEF server
<1> QED BY <1>6, <1>7, <1>8, <1>9, <1>10, <1>11, <1>12 DEF Report

(* One more state of the entry at i counted as sent. *)
LEMMA CountShape ==
  ASSUME CopyOk(mem), NEW i \in DOMAIN mem
  PROVE  LET d == [mem EXCEPT ![i].sent = @ + 1]
         IN  /\ d \in Seq(Entry) /\ Len(d) = Len(mem) /\ DOMAIN d = DOMAIN mem
             /\ \A j \in DOMAIN mem : d[j].op = mem[j].op /\ d[j].log = mem[j].log
             /\ \A j \in DOMAIN mem : j # i => d[j] = mem[j]
             /\ d[i] \in Entry /\ d[i].sent = mem[i].sent + 1
<1>1. mem \in Seq(Entry) /\ mem[i] \in Entry
  BY DEF CopyOk
<1>2. PICK e \in Entry : e = [mem[i] EXCEPT !.sent = @ + 1]
  <2>1. mem[i].sent + 1 \in Nat
    BY <1>1 DEF Entry
  <2> QED BY <1>1, <2>1 DEF Entry
<1>3. e.op = mem[i].op /\ e.sent = mem[i].sent + 1 /\ e.log = mem[i].log
  BY <1>1, <1>2 DEF Entry
<1>4. [mem EXCEPT ![i].sent = @ + 1] = [mem EXCEPT ![i] = e]
  BY <1>1, <1>2
<1>5. [mem EXCEPT ![i] = e] \in Seq(Entry) /\ Len([mem EXCEPT ![i] = e]) = Len(mem)
  BY <1>1
<1> QED BY <1>1, <1>3, <1>4, <1>5

(* Counting a report that was taken leaves the journal sound. *)
LEMMA CountOk ==
  ASSUME CopyOk(mem), NEW i \in DOMAIN mem, mem[i].sent < Len(mem[i].log),
         known[mem[i].op] = mem[i].log[mem[i].sent + 1],
         NEW d, d = [mem EXCEPT ![i].sent = @ + 1]
  PROVE  /\ CopyOk(d) /\ Grown(mem, d) /\ DOMAIN d = DOMAIN mem
         /\ \A j \in DOMAIN mem : d[j].log = mem[j].log
<1>1. /\ d \in Seq(Entry) /\ Len(d) = Len(mem) /\ DOMAIN d = DOMAIN mem
      /\ \A j \in DOMAIN mem : d[j].op = mem[j].op /\ d[j].log = mem[j].log
      /\ \A j \in DOMAIN mem : j # i => d[j] = mem[j]
      /\ d[i] \in Entry /\ d[i].sent = mem[i].sent + 1
  BY CountShape
<1>2. \A j \in DOMAIN mem : EntryOk(mem[j]) /\ mem[j] \in Entry
  BY DEF CopyOk
<1>3. EntryOk(d[i])
  BY <1>1, <1>2, CountedOk
<1>4. CopyOk(d)
  BY <1>1, <1>2, <1>3, SameOpsOk
<1>5. ASSUME NEW j \in DOMAIN mem
      PROVE  mem[j].sent <= d[j].sent /\ Len(mem[j].log) <= Len(d[j].log)
  <2>1. mem[j].sent \in Nat /\ Len(mem[j].log) \in Nat
    BY <1>2 DEF Entry
  <2> QED BY <1>1, <2>1
<1> QED BY <1>1, <1>4, <1>5 DEF Grown

(* flush, after the answer. *)
LEMMA AckStep ==
  ASSUME IInv, NEW t \in Threads, Ack(t)
  PROVE  IInv'
<1>1. /\ th[t].at = "ack" /\ Typed /\ th[t] \in Places /\ CopyOk(mem) /\ mem \in Copies
      /\ store # "down" /\ th[t].for \in Callers /\ UNCHANGED known /\ AckOk(t)
  BY Awake DEF Ack, IInv, Typed, server
<1>2. PICK i \in DOMAIN mem : i = th[t].idx
  BY <1>1 DEF AckOk
<1>3. PICK d : d = [mem EXCEPT ![i].sent = @ + 1]
  OBVIOUS
<1>4. CASE /\ store = "open" /\ mem[i].sent = th[t].off
           /\ Saved(d) \/ SaveFails(d)
  <2>1. /\ CopyOk(d) /\ Grown(mem, d) /\ DOMAIN d = DOMAIN mem
        /\ \A j \in DOMAIN mem : d[j].log = mem[j].log
    BY <1>1, <1>2, <1>3, <1>4, CountOk DEF AckOk
  <2>2. /\ store' \in {"open", "poisoned"} /\ mem' \in {mem, d}
        /\ Copies' \subseteq Copies \cup {d}
    BY <1>1, <1>4, SaveEffect
  <2>3. CASE Finish(t, "error")
    BY <1>1, <2>1, <2>2, <2>3, FinishStep
  <2>4. CASE /\ Goto(t, [th[t] EXCEPT !.at = "report", !.n = @ + 1])
             /\ UNCHANGED <<mode, recovered, daemon, native>>
    <3>1. PICK q \in Places :
            /\ th' = [th EXCEPT ![t] = q] /\ q.at = "report"
            /\ q.for = th[t].for /\ q.back = th[t].back
      <4>1. th' = [th EXCEPT ![t] = Again(th[t])]
        BY <2>4 DEF Goto, Again
      <4> QED BY <1>1, <4>1, AgainOk
    <3>2. th'[t] = q
      BY <1>1, <3>1 DEF Typed
    <3>3. t = "owner" => OwnerOk'
      BY <3>1, <3>2, OwnerFree
    <3>4. /\ UNCHANGED <<mode, offered, writes, proc, recovered, mine, events>>
          /\ events \in Seq(Event)
      BY <1>1, <2>4 DEF daemon, native, Typed
    <3>5. t = "reader" => ReaderOk'
      BY <1>1, <3>1, <3>2, <3>4 DEF IInv, ReaderOk
    <3>6. HoldsEvents(t)' => HoldsEvents(t)
      BY <1>1, <3>1, <3>2 DEF HoldsEvents
    <3>7. q.for = "event" => events' # <<>>
      BY <1>1, <3>1, <3>4 DEF IInv, EventsOk
    <3>8. MineOk'
      <4>1. Extended(d, Stop, "none")
        BY <2>1 DEF Extended
      <4> QED BY <1>1, <2>1, <2>2, <3>4, <4>1, MineStays
    <3>9. CopyOk(d)'
      BY <1>1, <2>1, <3>4, CopyFrame
    <3> QED BY <1>1, <2>1, <2>2, <3>1, <3>3, <3>4, <3>5, <3>6, <3>7, <3>8, <3>9, ThreadStep
  <2> QED BY <1>2, <1>3, <1>4, <2>3, <2>4 DEF Ack, Shut
<1>5. CASE UNCHANGED journal /\ Finish(t, "error")
  <2>1. PICK c : c = mem
    OBVIOUS
  <2>2. /\ CopyOk(c) /\ Grown(mem, c) /\ DOMAIN c = DOMAIN mem
        /\ \A j \in DOMAIN mem : c[j].log = mem[j].log
    BY <1>1, <2>1, SelfGrown
  <2>3. /\ store' \in {"open", "poisoned"} /\ mem' \in {mem, c}
        /\ Copies' \subseteq Copies \cup {c}
    BY <1>1, <1>5, <2>1, SaveEffect
  <2> QED BY <1>1, <1>5, <2>2, <2>3, FinishStep
<1> QED BY <1>2, <1>3, <1>4, <1>5 DEF Ack, Shut

(* RetirePTYReports drops settled keystrokes; a terminal has no reader. *)
LEMMA RetireOk ==
  ASSUME IInv, Retire
  PROVE  IInv'
<1>1. /\ th["owner"].at = "retire" /\ mode = "terminal" /\ Typed /\ "owner" \in Threads
      /\ th["owner"] \in Places /\ CopyOk(mem) /\ store # "down" /\ Stop \in Ops
      /\ UNCHANGED <<mode, offered, known, writes, proc, recovered, mine, events>>
  BY Awake DEF Retire, IInv, OwnerOk, Typed, Threads, Ops, daemon, native, server
<1>2. PICK d : d = Retained
  OBVIOUS
<1>3. CopyOk(d)
  BY <1>1, <1>2, RetainedOk
<1>4. /\ store' \in {"open", "poisoned"} /\ mem' \in {mem, d}
      /\ Copies' \subseteq Copies \cup {d}
  BY <1>1, <1>2, SaveEffect DEF Retire, NotSaved
<1>5. PICK q \in Places : /\ th' = [th EXCEPT !["owner"] = q]
                          /\ q.at \in {"idle", "reconcile", "events"}
  <2>1. th["owner"].back \in {"idle", "reconcile", "events"}
    BY <1>1 DEF Places
  <2>2. \A b \in {"idle", "reconcile", "events"} :
          Place(b, Stop, "idle") \in Places /\ Place(b, Stop, "idle").at = b
    BY <1>1, PlaceOk
  <2> QED BY <2>1, <2>2 DEF Retire, Goto
<1>6. /\ th'["owner"] = q /\ th'["reader"] = th["reader"] /\ th["reader"].at = "idle"
      /\ th' \in [Threads -> Places]
  BY <1>1, <1>5 DEF IInv, Typed, ReaderOk, Threads
<1>7. \A u \in Threads : th'[u].at \notin {"report", "ack", "observe", "retire"}
  BY <1>5, <1>6 DEF Threads
<1>8. Typed'
  BY <1>1, <1>4, <1>6, <1>7 DEF Typed
<1>9. \A c \in Copies' : CopyOk(c)'
  BY <1>1, <1>3, <1>4, CopyFrame DEF IInv
<1>10. MineOk'
  <2>1. \A i \in DOMAIN mem' : mem'[i].op \in Offers
    BY <1>1, <1>3, <1>4 DEF CopyOk, EntryOk
  <2>2. Offers \cap Inputs = {}
    BY <1>1, OperationsAssumption DEF Offers
  <2> QED BY <2>1, <2>2 DEF MineOk
<1>11. ServerOk' /\ Down' /\ OwnerOk' /\ ReaderOk'
  BY <1>1, <1>4, <1>5, <1>6, OwnerFree DEF IInv, ServerOk, Down, ReaderOk
<1>12. EventsOk' /\ \A u \in Threads : AckOk(u)'
  BY <1>7 DEF EventsOk, HoldsEvents, AckOk, Threads
<1> QED BY <1>8, <1>9, <1>10, <1>11, <1>12 DEF IInv

(* Everyone is idle. *)
LEMMA AllIdle ==
  ASSUME th' = [t \in Threads |-> Idle], mode' \in {"structured", "terminal"}
  PROVE  /\ th' \in [Threads -> Places]
         /\ \A t \in Threads : th'[t].at \notin {"report", "ack"}
         /\ OwnerOk' /\ ReaderOk' /\ EventsOk' /\ \A t \in Threads : AckOk(t)'
<1>1. \A t \in Threads : th'[t] = Idle
  OBVIOUS
<1>2. th' \in [Threads -> Places] /\ \A t \in Threads : th'[t].at = "idle" /\ th'[t].back = "idle"
  BY <1>1, IdleOk
<1>3. th'["owner"].at = "idle" /\ th'["reader"].at = "idle" /\ th'["reader"].back = "idle"
  BY <1>2 DEF Threads
<1>4. OwnerOk' /\ ReaderOk'
  BY <1>3, OwnerFree DEF ReaderOk
<1>5. EventsOk' /\ \A t \in Threads : AckOk(t)'
  BY <1>2, <1>3 DEF EventsOk, HoldsEvents, AckOk
<1> QED BY <1>2, <1>4, <1>5

(* A crash keeps the images and empties the daemon. *)
LEMMA CrashOk ==
  ASSUME IInv, Crash
  PROVE  IInv'
<1>1. /\ UNCHANGED <<mode, images, offered, proc, writes, known>>
      /\ store' = "down" /\ mem' = <<>> /\ events' = <<>> /\ mine' = {}
      /\ th' = [t \in Threads |-> Idle]
  BY DEF Crash, server
<1>2. /\ th' \in [Threads -> Places]
      /\ \A t \in Threads : th'[t].at \notin {"report", "ack"}
      /\ OwnerOk' /\ ReaderOk' /\ EventsOk' /\ \A t \in Threads : AckOk(t)'
  BY <1>1, AllIdle DEF IInv, Typed
<1>3. Typed' /\ ServerOk'
  BY <1>1, <1>2 DEF IInv, Typed, ServerOk
<1>4. \A c \in Copies' : CopyOk(c)'
  BY <1>1, CopyFrame DEF IInv, Copies
<1>5. MineOk' /\ Down'
  BY <1>1 DEF MineOk, Down
<1> QED BY <1>2, <1>3, <1>4, <1>5 DEF IInv

(* Open reads one of the images and recovers it. *)
LEMMA ReopenOk ==
  ASSUME IInv, Reopen
  PROVE  IInv'
<1>1. /\ UNCHANGED <<mode, offered, proc, writes, known, events, th, mine>>
      /\ store = "down" /\ mem = <<>> /\ th = [t \in Threads |-> Idle]
      /\ mode \in {"structured", "terminal"}
  BY DEF Reopen, daemon, native, server, IInv, Down, Typed
<1>2. PICK next : \E entries \in images :
        /\ \E expired \in SUBSET Offers : next = Recover(entries, expired)
        /\ \/ /\ store' = "open" /\ mem' = next
              /\ images' = IF next = entries THEN images ELSE {next}
              /\ recovered' = {next[i].op : i \in DOMAIN next} \cap Inputs
           \/ /\ images' = images \cup {next}
              /\ UNCHANGED <<store, mem, recovered>>
  BY DEF Reopen
<1>3. CopyOk(next)
  <2>1. \A entries \in images : CopyOk(entries)
    BY DEF IInv, Copies
  <2> QED BY <1>2, <2>1, RecoverOk
<1>4. Copies' \subseteq Copies \cup {next} /\ store' \in {"open", "down"}
  BY <1>1, <1>2 DEF Copies
<1>5. \A c \in Copies' : CopyOk(c)'
  BY <1>1, <1>3, <1>4, CopyFrame DEF IInv
<1>6. /\ th' \in [Threads -> Places]
      /\ \A t \in Threads : th'[t].at \notin {"report", "ack"}
      /\ OwnerOk' /\ ReaderOk' /\ EventsOk' /\ \A t \in Threads : AckOk(t)'
  <2>1. th' = [t \in Threads |-> Idle] /\ mode' \in {"structured", "terminal"}
    BY <1>1
  <2> QED BY <2>1, AllIdle
<1>7. Typed' /\ ServerOk'
  BY <1>1, <1>4, <1>6 DEF IInv, Typed, ServerOk
<1>8. MineOk'
  <2>1. CASE mem' = next /\ recovered' = {next[i].op : i \in DOMAIN next} \cap Inputs
    BY <2>1 DEF MineOk
  <2>2. CASE UNCHANGED <<mem, recovered>>
    BY <1>1, <2>2 DEF MineOk
  <2> QED BY <1>2, <2>1, <2>2
<1>9. Down'
  BY <1>1, <1>2 DEF Down
<1> QED BY <1>5, <1>6, <1>7, <1>8, <1>9 DEF IInv

(* The empty journal is sound. *)
LEMMA InitOk == Init => IInv
<1> SUFFICES ASSUME Init PROVE IInv
  OBVIOUS
<1>1. /\ \A t \in Threads : th[t] = Idle
      /\ "owner" \in Threads /\ "reader" \in Threads /\ th \in [Threads -> Places]
      /\ \A t \in Threads : th[t].at = "idle" /\ th[t].back = "idle"
  BY IdleOk DEF Init, Threads
<1>2. Typed
  BY <1>1 DEF Init, Typed
<1>3. CopyOk(<<>>)
  <2>1. Complete(<<>>)
    BY DEF Complete, Init
  <2>2. Room(<<>>)
    BY OperationsAssumption DEF Room
  <2> QED BY <2>1, <2>2 DEF CopyOk, Distinct
<1>4. \A c \in Copies : CopyOk(c)
  BY <1>3 DEF Init, Copies
<1>5. ServerOk /\ MineOk /\ Down
  BY DEF Init, ServerOk, MineOk, Down, Acknowledged
<1>6. OwnerOk /\ ReaderOk /\ EventsOk /\ \A t \in Threads : AckOk(t)
  BY <1>1 DEF OwnerOk, ReaderOk, EventsOk, HoldsEvents, AckOk
<1> QED BY <1>2, <1>4, <1>5, <1>6 DEF IInv

(* Every step of the specification keeps the invariant. *)
LEMMA StepOk == IInv /\ [Next]_vars => IInv'
<1> SUFFICES ASSUME IInv, [Next]_vars PROVE IInv'
  OBVIOUS
<1>1. "owner" \in Threads /\ "reader" \in Threads
  BY DEF Threads
<1>2. CASE \/ \E op \in Inputs \cup {Stop} : Command(op)
           \/ \E op \in Keys : PTYOperation(op)
  BY <1>2, CommandOk
<1>3. CASE OwnerStep
  BY <1>1, <1>3, BeginOk, WriteOk, SettleOk, UnsureOk, RejectOk, ReportOk, AckStep,
     RetireOk, PollOk, ReconcileOk, ObserveOk DEF OwnerStep
<1>4. CASE ReaderStep
  BY <1>1, <1>4, ReportOk, AckStep, ObserveOk DEF ReaderStep
<1>5. CASE \E i \in Inputs : Arrive(i)
  BY <1>5, ArriveOk
<1>6. CASE PollStart \/ ProcessExits \/ Crash \/ Reopen
  BY <1>6, PollOk, ProcessExitsOk, CrashOk, ReopenOk
<1>7. CASE UNCHANGED vars
  <2>1. /\ UNCHANGED <<mode, mem, images, store, recovered, events, offered, proc,
                       writes, mine, known, th>>
    BY <1>7 DEF vars, journal, daemon, native, server
  <2> QED BY <2>1 DEF IInv, Typed, Copies, CopyOk, EntryOk, Reported, Honest, Begun,
        Offers, Distinct, Complete, In, Room, ServerOk, MineOk, Down, OwnerOk, Past,
        ReaderOk, EventsOk, HoldsEvents, AckOk
<1> QED BY <1>2, <1>3, <1>4, <1>5, <1>6, <1>7 DEF Next

-----------------------------------------------------------------------------
(* The theorems.                                                            *)

(* IInv is an invariant: every copy of the journal a restart may read is in  *)
(* order, honest and at most one report behind the server, over every        *)
(* interleaving of the daemon's goroutines, failed saves, crashes and lost   *)
(* answers (Accept, BeginWrite, advance, flush, RetirePTYReports, recover).  *)
THEOREM ReceiptsInductive == Spec => []IInv
  BY InitOk, StepOk, PTL DEF Spec

(* What some copy or the server says of an operation. *)
LEMMA SaidBy ==
  ASSUME IInv, NEW op \in Ops, NEW s \in Said(op)
  PROVE  \/ s = known[op]
         \/ \E c \in Copies : \E i \in DOMAIN c : \E k \in 1..Len(c[i].log) :
              c[i] \in Entry /\ EntryOk(c[i]) /\ c[i].op = op /\ c[i].log[k] = s
<1> SUFFICES ASSUME s # known[op]
             PROVE  \E c \in Copies : \E i \in DOMAIN c : \E k \in 1..Len(c[i].log) :
                      c[i] \in Entry /\ EntryOk(c[i]) /\ c[i].op = op /\ c[i].log[k] = s
  OBVIOUS
<1>1. PICK c \in images \cup {mem} :
        \E i \in DOMAIN c : c[i].op = op /\ s \in Range(c[i].log)
  BY DEF Said
<1>2. PICK i \in DOMAIN c : c[i].op = op /\ s \in Range(c[i].log)
  BY <1>1
<1>3. c \in Copies
  <2>1. CASE store = "down" /\ c = mem
    BY <1>1, <2>1 DEF IInv, Down
  <2> QED BY <1>1, <2>1 DEF Copies
<1>4. c[i] \in Entry /\ EntryOk(c[i])
  BY <1>1, <1>3 DEF IInv, CopyOk
<1>5. c[i].log \in Seq(States)
  BY <1>4 DEF Entry
<1>6. PICK k \in 1..Len(c[i].log) : c[i].log[k] = s
  BY <1>5, <1>2 DEF Range
<1> QED BY <1>2, <1>3, <1>4, <1>6

(* Honest entries, an honest server and own writes make receipts honest. *)
LEMMA HonestFromInv == IInv => ReceiptsHonest
<1> SUFFICES ASSUME IInv, NEW op \in Ops
             PROVE  /\ writes[op] <= 1
                    /\ Said(op) \cap {"rejected", "expired"} # {} => writes[op] = 0
                    /\ Said(op) \cap Acknowledged # {} => writes[op] = 1
                    /\ "exit_confirmed" \in Said(op) => proc = "gone"
                    /\ Replayable(op) => op \in mine
  BY DEF ReceiptsHonest
<1>1. writes[op] \in {0, 1}
  BY DEF IInv, Typed
<1>2. ASSUME NEW s \in Said(op), s \in {"rejected", "expired"} PROVE writes[op] = 0
  <2>1. CASE s = known[op]
    BY <1>2, <2>1 DEF IInv, ServerOk
  <2>2. ASSUME NEW c \in Copies, NEW i \in DOMAIN c, NEW k \in 1..Len(c[i].log),
               c[i] \in Entry, EntryOk(c[i]), c[i].op = op, c[i].log[k] = s
        PROVE  writes[op] = 0
    <3>1. Len(c[i].log) \in Nat
      BY <2>2 DEF Entry
    <3>2. k = 2
      BY <1>2, <2>2, <3>1 DEF EntryOk, LogOk
    <3> QED BY <1>2, <2>2, <3>2 DEF EntryOk, Honest, Begun
  <2> QED BY <2>1, <2>2, SaidBy
<1>3. ASSUME NEW s \in Said(op), s \in Acknowledged PROVE writes[op] = 1
  <2>1. CASE s = known[op]
    BY <1>3, <2>1 DEF IInv, ServerOk
  <2>2. ASSUME NEW c \in Copies, NEW i \in DOMAIN c, NEW k \in 1..Len(c[i].log),
               EntryOk(c[i]), c[i].op = op, c[i].log[k] = s
        PROVE  writes[op] = 1
    BY <1>3, <2>2 DEF EntryOk, Honest
  <2> QED BY <2>1, <2>2, SaidBy
<1>4. ASSUME NEW s \in Said(op), s = "exit_confirmed" PROVE proc = "gone"
  <2>1. CASE s = known[op]
    BY <1>4, <2>1 DEF IInv, ServerOk
  <2>2. ASSUME NEW c \in Copies, NEW i \in DOMAIN c, NEW k \in 1..Len(c[i].log),
               EntryOk(c[i]), c[i].op = op, c[i].log[k] = s
        PROVE  proc = "gone"
    BY <1>4, <2>2 DEF EntryOk, Honest
  <2> QED BY <2>1, <2>2, SaidBy
<1>5. ASSUME Replayable(op) PROVE op \in mine
  <2>1. Has(op) /\ op \in Inputs \ recovered /\ State(op) \in Acknowledged
    BY <1>5 DEF Replayable
  <2>2. store # "down" /\ CopyOk(mem)
    BY <2>1 DEF Has, IInv, Down, Copies
  <2>3. PICK i \in DOMAIN mem : /\ mem[i].op = op /\ mem[i] \in Entry
                                /\ Last(mem[i].log) \in Acknowledged
    BY <2>1, <2>2, Found DEF State
  <2>4. Len(mem[i].log) \in 1..Len(mem[i].log)
    <3>1. EntryOk(mem[i])
      BY <2>2 DEF CopyOk
    <3> QED BY <2>3, <3>1 DEF Entry, EntryOk, LogOk
  <2> QED BY <2>1, <2>3, <2>4 DEF IInv, MineOk, Last
<1> QED BY <1>1, <1>2, <1>3, <1>4, <1>5

(* A native write happens at most once, however saves fail, the daemon       *)
(* crashes and commands repeat; no journal a restart may read, nor the       *)
(* server, calls a written operation refused, an unwritten one acknowledged  *)
(* or a running process exited; and a command is answered from the journal   *)
(* only when this journal lifetime did the write (BeginWrite, recover,       *)
(* replayInput).                                                            *)
THEOREM ReceiptsAreHonest == Spec => []ReceiptsHonest
  BY ReceiptsInductive, HonestFromInv, PTL

(* However many keystrokes wait for their reports, a terminal's journal has  *)
(* a slot for its stop (Accept's reserved slot, RetirePTYReports).           *)
THEOREM ReceiptsStopHasRoom == Spec => []StopHasRoom
<1>1. IInv => StopHasRoom
  <2> SUFFICES ASSUME IInv, mode = "terminal", store # "down", ~Has(Stop)
               PROVE  Len(mem) < MaxReceipts
    BY DEF StopHasRoom
  <2>1. Room(mem)
    BY DEF IInv, Copies, CopyOk
  <2> QED BY <2>1 DEF Room, Has, In
<1> QED BY <1>1, ReceiptsInductive, PTL

-----------------------------------------------------------------------------
(* One flusher.  Delivery.mu has one holder as eventMu has, and the reader   *)
(* flushes under both; so nobody else counts a report between its answer and *)
(* its acknowledgement.                                                      *)

(* HoldsDelivery, of a place. *)
Locked(p) ==
  \/ p.at \in {"accepted", "begun", "written", "unsure"} /\ p.op \notin Keys
  \/ p.at \in {"report", "ack", "release"} /\ p.for \in {"send", "exit", "own", "event"}

Alone == ~(HoldsDelivery("owner") /\ HoldsDelivery("reader"))

(* What a flush saw before the server's answer still stands after it. *)
Uncounted == \A t \in Threads : th[t].at = "ack" => mem[th[t].idx].sent = th[t].off

(* The exit of a stop, once the report of it is answered, has stopped the    *)
(* session; a report whose answer was an error may not have.                 *)
ToldOf(e, k) == e.op = Stop /\ e.log[k] = "exit_confirmed" => stopped

Told ==
  /\ \A c \in Copies : \A i \in DOMAIN c : c[i].sent # 0 => ToldOf(c[i], c[i].sent)
  /\ \A t \in Threads : th[t].at = "ack" => ToldOf(mem[th[t].idx], th[t].off + 1)

FInv == Alone /\ Uncounted /\ Told

(* The reader flushes under both locks, the owner under one of them. *)
LEMMA OneFlushes ==
  ASSUME IInv, Alone, NEW t \in Threads, NEW u \in Threads,
         th[t].at \in {"report", "ack"}, th[u].at \in {"report", "ack"}
  PROVE  t = u
<1> SUFFICES ASSUME th["owner"].at \in {"report", "ack"}, th["reader"].at \in {"report", "ack"}
             PROVE  FALSE
  BY DEF Threads
<1>1. th["reader"].for = "event"
  BY DEF IInv, ReaderOk
<1>2. HoldsEvents("reader") /\ HoldsDelivery("reader")
  BY <1>1 DEF HoldsEvents, HoldsDelivery
<1>3. th["owner"].for \in Callers
  BY DEF IInv, Typed, Threads
<1>4. HoldsEvents("owner") \/ HoldsDelivery("owner")
  BY <1>3 DEF HoldsEvents, HoldsDelivery, Callers
<1> QED BY <1>2, <1>4 DEF Alone, IInv, EventsOk

(* The journal d keeps every entry of mem, its count and its log, and counts *)
(* nothing of a new one.                                                     *)
Keeps(d) ==
  /\ mem' \in {mem, d} /\ Copies' \subseteq Copies \cup {d}
  /\ \A i \in DOMAIN d : i \notin DOMAIN mem => d[i].sent = 0
  /\ \A i \in DOMAIN mem :
       /\ i \in DOMAIN d /\ d[i].op = mem[i].op /\ d[i].sent = mem[i].sent
       /\ \A k \in 1..Len(mem[i].log) : d[i].log[k] = mem[i].log[k]

(* A step of one goroutine that counts no report and asks the server for     *)
(* nothing it waits for.                                                     *)
Plain ==
  /\ store # "down" /\ (stopped => stopped')
  /\ \E t \in Threads : \E q :
       /\ th' = [th EXCEPT ![t] = q] /\ q.at # "ack"
       /\ Locked(q) => Locked(th[t]) \/ DeliveryFree
  /\ \E d : Keeps(d)

(* A lock is taken only when it is free. *)
LEMMA AloneStep ==
  ASSUME IInv, Alone, NEW t \in Threads, NEW q, th' = [th EXCEPT ![t] = q],
         Locked(q) => Locked(th[t]) \/ DeliveryFree
  PROVE  Alone'
<1>1. th'[t] = q /\ \A u \in Threads : u # t => th'[u] = th[u]
  BY DEF IInv, Typed
<1>2. \A u \in Threads : HoldsDelivery(u) <=> Locked(th[u])
  BY DEF HoldsDelivery, Locked
<1>3. \A u \in Threads : HoldsDelivery(u)' <=> Locked(th'[u])
  BY DEF HoldsDelivery, Locked
<1> QED BY <1>1, <1>2, <1>3 DEF Alone, DeliveryFree, Threads

(* What an entry counts as sent is a state of its log. *)
LEMMA CountedIn ==
  ASSUME NEW c, CopyOk(c), NEW i \in DOMAIN c
  PROVE  /\ c[i].sent \in Nat /\ Len(c[i].log) \in Nat
         /\ c[i].sent # 0 => c[i].sent \in 1..Len(c[i].log)
<1>1. c[i] \in Entry /\ Reported(c[i])
  BY DEF CopyOk, EntryOk
<1>2. c[i].sent \in Nat /\ c[i].log \in Seq(States) /\ c[i].sent <= Len(c[i].log)
  BY <1>1 DEF Entry, Reported
<1> QED BY <1>2

(* A plain step keeps the counts and what was told. *)
LEMMA PlainStep ==
  ASSUME IInv, FInv, Plain
  PROVE  FInv'
<1>0. PICK t \in Threads : \E q : /\ th' = [th EXCEPT ![t] = q] /\ q.at # "ack"
                                  /\ Locked(q) => Locked(th[t]) \/ DeliveryFree
  BY DEF Plain
<1>1. PICK q : /\ th' = [th EXCEPT ![t] = q] /\ q.at # "ack"
               /\ Locked(q) => Locked(th[t]) \/ DeliveryFree
  BY <1>0
<1>2. PICK d : Keeps(d)
  BY DEF Plain
<1>3. CopyOk(mem) /\ mem \in Copies /\ (stopped => stopped')
  BY DEF Plain, IInv, Copies
<1>4. Alone'
  BY <1>1, AloneStep DEF FInv
<1>5. ASSUME NEW u \in Threads, th'[u].at = "ack"
      PROVE  /\ th'[u] = th[u] /\ mem'[th[u].idx].sent = th[u].off
             /\ mem'[th[u].idx].op = mem[th[u].idx].op
             /\ mem'[th[u].idx].log[th[u].off + 1] = mem[th[u].idx].log[th[u].off + 1]
  <2>1. th'[u] = th[u]
    BY <1>1, <1>5 DEF IInv, Typed
  <2>2. PICK i \in DOMAIN mem : i = th[u].idx /\ mem[i].sent = th[u].off /\ th[u].off < Len(mem[i].log)
    BY <1>5, <2>1 DEF IInv, AckOk, FInv, Uncounted
  <2>3. mem[i].sent + 1 \in 1..Len(mem[i].log)
    <3>1. mem[i].sent \in Nat /\ Len(mem[i].log) \in Nat /\ mem[i].sent < Len(mem[i].log)
      BY <1>3, <2>2, CountedIn
    <3> QED BY <3>1
  <2>4. /\ mem'[i].op = mem[i].op /\ mem'[i].sent = mem[i].sent
        /\ mem'[i].log[mem[i].sent + 1] = mem[i].log[mem[i].sent + 1]
    BY <1>2, <2>3 DEF Keeps
  <2> QED BY <2>1, <2>2, <2>4
<1>6. Uncounted'
  BY <1>5 DEF Uncounted
<1>7. ASSUME NEW c \in Copies', NEW i \in DOMAIN c, c[i].sent # 0, c[i].op = Stop,
             c[i].log[c[i].sent] = "exit_confirmed"
      PROVE  stopped'
  <2>1. CASE c \in Copies
    BY <1>3, <1>7, <2>1 DEF FInv, Told, ToldOf
  <2>2. CASE c = d
    <3>1. i \in DOMAIN mem /\ d[i].op = mem[i].op /\ d[i].sent = mem[i].sent
      BY <1>2, <1>7, <2>2 DEF Keeps
    <3>2. mem[i].sent \in 1..Len(mem[i].log)
      BY <1>3, <1>7, <2>2, <3>1, CountedIn
    <3>3. mem[i].op = Stop /\ mem[i].sent # 0 /\ mem[i].log[mem[i].sent] = "exit_confirmed"
      BY <1>2, <1>7, <2>2, <3>1, <3>2 DEF Keeps
    <3> QED BY <1>3, <3>1, <3>3 DEF FInv, Told, ToldOf
  <2> QED BY <1>2, <1>7, <2>1, <2>2 DEF Keeps
<1>8. ASSUME NEW u \in Threads, th'[u].at = "ack", mem'[th'[u].idx].op = Stop,
             mem'[th'[u].idx].log[th'[u].off + 1] = "exit_confirmed"
      PROVE  stopped'
  BY <1>3, <1>5, <1>8 DEF FInv, Told, ToldOf
<1>9. Told'
  BY <1>7, <1>8 DEF Told, ToldOf
<1> QED BY <1>4, <1>6, <1>9 DEF FInv

(* A step after which nobody waits for an answer, and whose journals have    *)
(* only counts that were there, or none.                                     *)
Anew ==
  /\ \A t \in Threads : th'[t].at # "ack" /\ ~Locked(th'[t])
  /\ stopped => stopped'
  /\ \A c \in Copies' : \A i \in DOMAIN c :
       \/ c[i].sent = 0
       \/ \E b \in Copies : \E j \in DOMAIN b :
            /\ b[j].op = c[i].op /\ b[j].sent = c[i].sent
            /\ b[j].log[b[j].sent] = c[i].log[c[i].sent]

(* Such a step tells nothing new. *)
LEMMA AnewStep ==
  ASSUME FInv, Anew
  PROVE  FInv'
<1>1. Alone'
  <2>1. \A u \in Threads : HoldsDelivery(u)' <=> Locked(th'[u])
    BY DEF HoldsDelivery, Locked
  <2> QED BY <2>1 DEF Anew, Alone, Threads
<1>2. Uncounted'
  BY DEF Anew, Uncounted
<1>3. ASSUME NEW c \in Copies', NEW i \in DOMAIN c, c[i].sent # 0, c[i].op = Stop,
             c[i].log[c[i].sent] = "exit_confirmed"
      PROVE  stopped'
  BY <1>3 DEF Anew, FInv, Told, ToldOf
<1>4. Told'
  BY <1>3 DEF Anew, Told, ToldOf
<1> QED BY <1>1, <1>2, <1>4 DEF FInv

(* The places and Delivery.mu. *)
LEMMA LockedPlaces ==
  /\ ~Locked(Idle) /\ Idle.at = "idle"
  /\ \A a, op, b :
       /\ Place(a, op, b).at = a
       /\ Locked(Place(a, op, b)) =>
            a \in {"accepted", "begun", "written", "unsure"} /\ op \notin Keys
  /\ \A f, op, scope, b :
       /\ Flush(f, op, scope, b).at = "report"
       /\ Locked(Flush(f, op, scope, b)) <=> f \in {"send", "exit", "own", "event"}
  BY DEF Locked, Idle, Place, Flush

(* A journal that is left alone is kept. *)
LEMMA KeptSame ==
  ASSUME UNCHANGED journal
  PROVE  Keeps(mem)
  BY DEF Keeps, journal, Copies

(* So is one that an advance moves on, or fails to. *)
LEMMA KeptAdvance ==
  ASSUME IInv, store # "down", NEW op \in Ops, NEW s \in States,
         Advances(op, s) \/ AdvanceFails(op, s)
  PROVE  \E d : Keeps(d)
<1>1. CopyOk(mem) /\ Typed
  BY DEF IInv, Copies
<1>2. CASE Has(op) /\ (Saved(Moved(op, s)) \/ SaveFails(Moved(op, s)))
  <2>1. PICK d : d = Moved(op, s)
    OBVIOUS
  <2>2. mem' \in {mem, d} /\ Copies' \subseteq Copies \cup {d}
    BY <1>1, <1>2, <2>1, SaveEffect
  <2>3. /\ DOMAIN d = DOMAIN mem /\ At(op) \in DOMAIN mem
        /\ \A j \in DOMAIN mem : d[j].op = mem[j].op /\ d[j].sent = mem[j].sent
        /\ \A j \in DOMAIN mem : j # At(op) => d[j] = mem[j]
        /\ d[At(op)].log = Append(mem[At(op)].log, s) /\ mem[At(op)] \in Entry
    BY <1>1, <1>2, <2>1, MovedShape, Found
  <2>4. \A k \in 1..Len(mem[At(op)].log) : d[At(op)].log[k] = mem[At(op)].log[k]
    BY <2>3 DEF Entry
  <2> QED BY <2>2, <2>3, <2>4 DEF Keeps
<1>3. CASE UNCHANGED journal
  BY <1>3, KeptSame
<1>4. \/ UNCHANGED journal
      \/ Has(op) /\ (Saved(Moved(op, s)) \/ SaveFails(Moved(op, s)))
  BY DEF Advances, AdvanceFails, Shut
<1> QED BY <1>2, <1>3, <1>4

(* A step of the owner that makes no report. *)
LEMMA PlainMove ==
  ASSUME store # "down", NEW t \in Threads, NEW q, Goto(t, q), q.at # "ack",
         Locked(q) => Locked(th[t]) \/ DeliveryFree, stopped => stopped',
         NEW d, Keeps(d)
  PROVE  Plain
  BY DEF Goto, Plain

(* A command waits for Delivery.mu, a keystroke does not take it. *)
LEMMA CommandPlain ==
  ASSUME IInv,
         \/ \E op \in Inputs \cup {Stop} : Command(op)
         \/ \E op \in Keys : PTYOperation(op)
  PROVE  Plain
<1>1. PICK op \in Ops : Execute(op) /\ UNCHANGED stopped
  BY DEF Command, PTYOperation, server, Ops
<1>2. store # "down" /\ CopyOk(mem) /\ Typed /\ "owner" \in Threads
  BY <1>1 DEF Execute, IInv, Copies, Threads
<1>3. PICK e : e = [op |-> op, log |-> <<"accepted">>, sent |-> 0]
  OBVIOUS
<1>4. UNCHANGED journal \/ Saved(Append(mem, e)) \/ SaveFails(Append(mem, e))
  BY <1>1, <1>3 DEF Execute, NotSaved, Shut
<1>5. \E d : Keeps(d)
  <2>1. CASE UNCHANGED journal
    BY <2>1, KeptSame
  <2>2. CASE Saved(Append(mem, e)) \/ SaveFails(Append(mem, e))
    <3>1. PICK d : d = Append(mem, e)
      OBVIOUS
    <3>2. mem' \in {mem, d} /\ Copies' \subseteq Copies \cup {d}
      BY <1>2, <2>2, <3>1, SaveEffect
    <3>3. mem \in Seq(Entry) /\ Len(mem) \in Nat /\ DOMAIN mem = 1..Len(mem)
      BY <1>2 DEF CopyOk
    <3>4. /\ DOMAIN d = 1..(Len(mem) + 1) /\ d[Len(mem) + 1] = e
          /\ \A i \in 1..Len(mem) : d[i] = mem[i]
      <4>1. <<"accepted">> \in Seq(States)
        BY DEF States
      <4>2. e \in Entry
        BY <1>3, <4>1 DEF Entry
      <4> QED BY <3>1, <3>3, <4>2
    <3> QED BY <1>3, <3>2, <3>3, <3>4 DEF Keeps
  <2> QED BY <1>4, <2>1, <2>2
<1>6. PICK q : /\ Goto("owner", q) /\ q.at # "ack" /\ (Locked(q) => DeliveryFree)
  <2>1. op \in Keys \/ DeliveryFree
    BY <1>1 DEF Execute
  <2>2. CASE Goto("owner", Idle)
    BY <2>2, LockedPlaces
  <2>3. CASE Goto("owner", Place("accepted", op, "idle"))
    BY <2>1, <2>3, LockedPlaces
  <2>4. CASE Goto("owner", Flush("send", op, Ops, "idle")) /\ Replayable(op)
    <3>1. DeliveryFree
      BY <2>1, <2>4, OperationsAssumption DEF Replayable
    <3> QED BY <2>4, <3>1, LockedPlaces
  <2> QED BY <1>1, <2>2, <2>3, <2>4 DEF Execute
<1> QED BY <1>1, <1>2, <1>5, <1>6, PlainMove

(* From the acceptance of an operation to the start of its reports the owner *)
(* keeps the lock it has, and reconcileExit takes a free one.                *)
LEMMA OwnerPlain ==
  ASSUME IInv, \/ Begin \/ Write \/ Settle \/ Unsure \/ Reject \/ Release
               \/ Reconcile \/ PollEvents
  PROVE  Plain
<1> DEFINE p == th["owner"]
<1>1. /\ "owner" \in Threads /\ p.at # "idle" /\ UNCHANGED stopped /\ Stop \in Ops
  BY DEF Begin, Write, Settle, Unsure, Reject, Release, Reconcile, PollEvents, server,
     Threads, Ops
<1>2. store # "down" /\ p \in Places /\ p.op \in Ops /\ p.back \in {"idle", "reconcile", "events"}
  <2>1. store # "down" /\ p \in Places
    BY <1>1, Awake
  <2> QED BY <2>1 DEF Places
<1>3. \E d : Keeps(d)
  <2>1. ASSUME NEW op \in Ops, NEW s \in States, Advances(op, s) \/ AdvanceFails(op, s)
        PROVE  \E d : Keeps(d)
    BY <1>2, <2>1, KeptAdvance
  <2>2. CASE UNCHANGED journal
    BY <2>2, KeptSame
  <2>3. Evidence(p.op) \in States
    BY DEF Evidence, States
  <2>4. \/ UNCHANGED journal
        \/ \E op \in Ops, s \in States : Advances(op, s) \/ AdvanceFails(op, s)
    <3>1. CASE Begin
      BY <1>2, <3>1 DEF Begin, States
    <3>2. CASE Settle
      BY <1>2, <2>3, <3>2 DEF Settle
    <3>3. CASE Unsure \/ Reject
      BY <1>2, <3>3 DEF Unsure, Reject, States
    <3>4. CASE Reconcile
      BY <1>1, <3>4 DEF Reconcile, States
    <3>5. CASE Write \/ Release \/ PollEvents
      BY <3>5 DEF Write, Release, PollEvents
    <3> QED BY <3>1, <3>2, <3>3, <3>4, <3>5
  <2> QED BY <2>1, <2>2, <2>4
<1>4. ASSUME NEW q, Goto("owner", q), q.at # "ack",
             Locked(q) => Locked(p) \/ DeliveryFree
      PROVE  Plain
  BY <1>1, <1>2, <1>3, <1>4, PlainMove
<1>5. ASSUME Goto("owner", Idle) PROVE Plain
  BY <1>4, <1>5, LockedPlaces
<1>6. ASSUME NEW a, Goto("owner", Place(a, p.op, "idle")), a # "ack",
             p.at \in {"accepted", "begun", "written", "unsure"}
      PROVE  Plain
  <2>1. p.op \notin Keys => Locked(p)
    BY <1>6 DEF Locked
  <2> QED BY <1>4, <1>6, <2>1, LockedPlaces
<1>7. ASSUME NEW a, a \in {"idle", "reconcile", "events", "observe"},
             Goto("owner", Place(a, Stop, "idle"))
      PROVE  Plain
  BY <1>4, <1>7, LockedPlaces
<1>8. ASSUME Goto("owner", Flush("key", p.op, {p.op}, "idle")) PROVE Plain
  BY <1>4, <1>8, LockedPlaces
<1>9. ASSUME NEW f, NEW op, NEW b, Goto("owner", Flush(f, op, Ops, b)),
             Locked(p) \/ DeliveryFree
      PROVE  Plain
  BY <1>4, <1>9, LockedPlaces
<1>10. CASE Begin
  <2>1. \/ Goto("owner", Place("begun", p.op, "idle")) \/ RefusedWrite(p.op)
    BY <1>10 DEF Begin
  <2>2. p.at = "accepted"
    BY <1>10 DEF Begin
  <2> QED BY <1>5, <1>6, <2>1, <2>2 DEF RefusedWrite
<1>11. CASE Write
  <2>1. \/ Goto("owner", Idle) \/ Goto("owner", Place("unsure", p.op, "idle"))
        \/ Goto("owner", Place("written", p.op, "idle"))
    BY <1>11 DEF Write
  <2>2. p.at = "begun"
    BY <1>11 DEF Write
  <2> QED BY <1>5, <1>6, <2>1, <2>2
<1>12. CASE Settle
  <2>1. p.at = "written" /\ (p.op \in Inputs \/ p.op \in Keys \/ p.op = Stop)
    BY <1>2, <1>12 DEF Settle, Ops
  <2>2. CASE Goto("owner", Place("unsure", p.op, "idle"))
    BY <1>6, <2>1, <2>2
  <2>3. CASE Goto("owner", CASE p.op \in Inputs -> Flush("send", p.op, Ops, "idle")
                             [] p.op \in Keys -> Flush("key", p.op, {p.op}, "idle")
                             [] p.op = Stop -> Flush("exit", p.op, Ops, "idle"))
    <3>1. CASE p.op \in Keys
      <4>1. Goto("owner", Flush("key", p.op, {p.op}, "idle"))
        BY <2>3, <3>1, OperationsAssumption
      <4> QED BY <1>8, <4>1
    <3>2. CASE p.op \in Inputs
      <4>1. Goto("owner", Flush("send", p.op, Ops, "idle")) /\ p.op \notin Keys
        BY <2>3, <3>2, OperationsAssumption
      <4>2. Locked(p)
        BY <2>1, <4>1 DEF Locked
      <4> QED BY <1>9, <4>1, <4>2
    <3>3. CASE p.op = Stop
      <4>1. Goto("owner", Flush("exit", p.op, Ops, "idle")) /\ p.op \notin Keys
        BY <2>3, <3>3, OperationsAssumption
      <4>2. Locked(p)
        BY <2>1, <4>1 DEF Locked
      <4> QED BY <1>9, <4>1, <4>2
    <3> QED BY <2>1, <3>1, <3>2, <3>3
  <2> QED BY <1>12, <2>2, <2>3 DEF Settle
<1>13. CASE Unsure \/ Reject
  BY <1>5, <1>8, <1>13 DEF Unsure, Reject
<1>14. CASE Release \/ PollEvents
  BY <1>2, <1>5, <1>7, <1>14 DEF Release, PollEvents
<1>15. CASE Reconcile
  BY <1>7, <1>9, <1>15 DEF Reconcile
<1> QED BY <1>10, <1>11, <1>12, <1>13, <1>14, <1>15

(* A poll starts without Delivery.mu, and the release of a terminal that is  *)
(* gone needs none.                                                          *)
LEMMA PollPlain ==
  ASSUME IInv, PollStart
  PROVE  Plain
<1>1. /\ store # "down" /\ "owner" \in Threads /\ Keeps(mem) /\ (stopped => stopped')
  <2>1. store # "down" /\ "owner" \in Threads /\ UNCHANGED journal
    BY DEF PollStart, Threads
  <2>2. stopped => stopped'
    BY DEF PollStart, FinishTerminalExit, server
  <2> QED BY <2>1, <2>2, KeptSame
<1>2. PICK q : Goto("owner", q) /\ q.at # "ack" /\ ~Locked(q)
  <2>1. CASE Goto("owner", Flush("poll", Stop, Ops, "reconcile"))
    BY <2>1, LockedPlaces
  <2>2. CASE Goto("owner", Idle)
    BY <2>2, LockedPlaces
  <2>3. ASSUME NEW a \in {"release", "reconcile"}, Goto("owner", Place(a, Stop, "idle"))
        PROVE  \E q : Goto("owner", q) /\ q.at # "ack" /\ ~Locked(q)
    BY <2>3, LockedPlaces
  <2> QED BY <2>1, <2>2, <2>3 DEF PollStart, FinishTerminalExit
<1> QED BY <1>1, <1>2, PlainMove

(* An event is journaled and reported under a free Delivery.mu. *)
LEMMA EventPlain ==
  ASSUME IInv, NEW t \in Threads, Observe(t) \/ (t = "reader" /\ \E i \in Inputs : Arrive(i))
  PROVE  Plain
<1>1. UNCHANGED stopped
  BY DEF Observe, Arrive, server
<1>2. CASE Observe(t)
  <2>1. /\ store # "down" /\ CopyOk(mem) /\ th[t] \in Places /\ th[t].at = "observe"
        /\ events \in Seq(Event) /\ DOMAIN th = Threads
    BY <1>2, Awake DEF Observe, IInv, Typed
  <2>2. th[t].back \in {"idle", "reconcile", "events"}
    BY <2>1 DEF Places
  <2>3. \E d : Keeps(d)
    <3>1. CASE UNCHANGED journal
      BY <3>1, KeptSame
    <3>2. CASE /\ events # <<>>
               /\ \/ Advances(Head(events).op, Head(events).state)
                  \/ AdvanceFails(Head(events).op, Head(events).state)
      <4>1. Head(events) \in Event
        BY <2>1, <3>2
      <4>2. Head(events).op \in Ops /\ Head(events).state \in States
        BY <4>1 DEF Event, Ops, States
      <4> QED BY <2>1, <3>2, <4>2, KeptAdvance
    <3> QED BY <1>2, <3>1, <3>2 DEF Observe
  <2>4. PICK q : Goto(t, q) /\ q.at # "ack" /\ (Locked(q) => DeliveryFree)
    <3>1. CASE Goto(t, Place(th[t].back, Stop, "idle"))
      BY <2>2, <3>1, LockedPlaces
    <3>2. CASE th' = th
      <4>1. Goto(t, th[t]) /\ ~Locked(th[t])
        <5>1. th = [th EXCEPT ![t] = th[t]]
          BY DEF IInv, Typed
        <5>2. ~Locked(th[t])
          BY <2>1 DEF Locked
        <5> QED BY <3>2, <5>1, <5>2 DEF Goto
      <4> QED BY <2>1, <4>1
    <3>3. ASSUME NEW op, Goto(t, Flush("event", op, Ops, th[t].back)), DeliveryFree
          PROVE  \E q : Goto(t, q) /\ q.at # "ack" /\ (Locked(q) => DeliveryFree)
      BY <3>3, LockedPlaces
    <3> QED BY <1>2, <3>1, <3>2, <3>3 DEF Observe
  <2> QED BY <1>1, <2>1, <2>3, <2>4, PlainMove
<1>3. CASE t = "reader" /\ \E i \in Inputs : Arrive(i)
  <2>1. store # "down" /\ Keeps(mem) /\ Goto("reader", Place("observe", Stop, "idle"))
    BY <1>3, KeptSame DEF Arrive
  <2> QED BY <1>1, <1>3, <2>1, LockedPlaces, PlainMove
<1> QED BY <1>2, <1>3

(* The end of a flush keeps the lock, for a release or the flush of the exit *)
(* alone, or gives it back.                                                  *)
LEMMA FinishMoves ==
  ASSUME IInv, NEW t \in Threads, th[t].at \in {"report", "ack"},
         NEW result \in {"ok", "error", "refused"}, Finish(t, result)
  PROVE  \E q : Goto(t, q) /\ q.at # "ack" /\ (Locked(q) => Locked(th[t]))
<1>1. PICK q \in Places : Lands(t, q)
  BY FinishLands
<1>2. Goto(t, q) /\ q.at # "ack"
  BY <1>1 DEF Lands, Goto
<1>3. Locked(q) => Locked(th[t])
  BY <1>1 DEF Lands, Locked
<1> QED BY <1>2, <1>3

(* The server answers the report of the entry at i, and the flush waits to   *)
(* count it.                                                                 *)
Takes(t) ==
  \E i \in DOMAIN mem :
    /\ th' = [th EXCEPT ![t] = Taken(th[t], i, mem[i].sent)]
    /\ stopped' = (stopped \/ mem[i].log[mem[i].sent + 1] = "exit_confirmed")

(* A report leaves the journal's memory, and may save it. *)
LEMMA ReportEffect ==
  ASSUME IInv, NEW t \in Threads, Report(t)
  PROVE  /\ store # "down" /\ store' # "down" /\ mem' = mem /\ Copies' \subseteq Copies
         /\ UNCHANGED <<mode, proc, released>> /\ (stopped => stopped')
<1>1. store # "down" /\ mem \in Copies /\ Typed
  BY Awake DEF Report, IInv
<1>2. UNCHANGED <<mode, proc, released>>
  BY DEF Report, Finish, native, daemon
<1>3. store' # "down" /\ mem' = mem /\ Copies' \subseteq Copies
  <2>1. \/ UNCHANGED journal \/ Saved(mem) \/ SaveFails(mem)
        \/ images' = {mem} /\ UNCHANGED <<mem, store>>
    BY DEF Report, Shut
  <2>2. CASE UNCHANGED journal
    BY <1>1, <2>2 DEF journal, Copies
  <2>3. CASE Saved(mem)
    BY <1>1, <2>3 DEF Saved, Copies
  <2>4. CASE SaveFails(mem)
    BY <1>1, <2>4 DEF SaveFails, Copies
  <2>5. CASE images' = {mem} /\ UNCHANGED <<mem, store>>
    BY <1>1, <2>5 DEF Copies
  <2> QED BY <2>1, <2>2, <2>3, <2>4, <2>5
<1>4. stopped => stopped'
  <2>1. UNCHANGED stopped \/ \E state : ServerStops(state)
    BY DEF Report, server, Withdrawn, ServerTakes
  <2> QED BY <2>1 DEF ServerStops
<1> QED BY <1>1, <1>2, <1>3, <1>4

(* A report is answered, or its flush is over. *)
LEMMA ReportKind ==
  ASSUME IInv, NEW t \in Threads, Report(t)
  PROVE  Plain \/ Takes(t)
<1>1. /\ th[t].at = "report" /\ store # "down" /\ mem' = mem /\ Copies' \subseteq Copies
      /\ (stopped => stopped') /\ CopyOk(mem)
  BY ReportEffect, Awake DEF Report
<1>2. Keeps(mem)
  BY <1>1 DEF Keeps
<1>3. ASSUME NEW result \in {"ok", "error", "refused"}, Finish(t, result)
      PROVE  Plain
  BY <1>1, <1>2, <1>3, FinishMoves, PlainMove
<1> DEFINE pending == Pending(th[t].scope)
           i == Min(pending)
<1>4. CASE /\ pending # {} /\ ServerTakes(mem[i].op, mem[i].log[mem[i].sent + 1])
           /\ Goto(t, [th[t] EXCEPT !.at = "ack", !.idx = i, !.off = mem[i].sent])
  <2>1. pending \subseteq Nat
    BY <1>1 DEF Pending, CopyOk
  <2>2. i \in DOMAIN mem
    BY <1>4, <2>1, LeastOf DEF Pending
  <2> QED BY <1>4, <2>2 DEF Takes, Taken, Goto, ServerTakes, ServerStops
<1> QED BY <1>3, <1>4 DEF Report

(* An answer stops the session if it is to an exit, before anyone counts it. *)
LEMMA TakesStep ==
  ASSUME IInv, FInv, NEW t \in Threads, Report(t), Takes(t)
  PROVE  FInv'
<1>0. PICK i \in DOMAIN mem :
        /\ th' = [th EXCEPT ![t] = Taken(th[t], i, mem[i].sent)]
        /\ stopped' = (stopped \/ mem[i].log[mem[i].sent + 1] = "exit_confirmed")
  BY DEF Takes
<1>1. /\ th[t].at = "report" /\ th[t] \in Places /\ DOMAIN th = Threads
      /\ mem' = mem /\ Copies' \subseteq Copies /\ (stopped => stopped')
  BY ReportEffect, Awake DEF Report, IInv, Typed
<1>2. PICK q :
        /\ th' = [th EXCEPT ![t] = q] /\ q = Taken(th[t], i, mem[i].sent)
        /\ stopped' = (stopped \/ mem[i].log[mem[i].sent + 1] = "exit_confirmed")
  BY <1>0
<1>3. q.at = "ack" /\ q.idx = i /\ q.off = mem[i].sent /\ q.for = th[t].for
  BY <1>1, <1>2 DEF Taken, Places
<1>4. Alone'
  <2>1. Locked(q) => Locked(th[t])
    BY <1>1, <1>3 DEF Locked
  <2> QED BY <1>2, <2>1, AloneStep DEF FInv
<1>5. th'[t] = q /\ \A u \in Threads : u # t => th'[u] = th[u] /\ th[u].at # "ack"
  BY <1>1, <1>2, OneFlushes DEF FInv
<1>6. Uncounted'
  BY <1>1, <1>3, <1>5 DEF Uncounted
<1>7. Told'
  <2>1. \A c \in Copies' : \A j \in DOMAIN c : c[j].sent # 0 => ToldOf(c[j], c[j].sent)'
    BY <1>1 DEF FInv, Told, ToldOf
  <2>2. ToldOf(mem[i], mem[i].sent + 1)'
    BY <1>1, <1>2 DEF ToldOf
  <2> QED BY <1>1, <1>3, <1>5, <2>1, <2>2 DEF Told, ToldOf
<1> QED BY <1>4, <1>6, <1>7 DEF FInv

(* A report is counted once, by the flush whose answer it is. *)
LEMMA CountsStep ==
  ASSUME IInv, FInv, NEW t \in Threads, th[t].at = "ack", UNCHANGED stopped,
         NEW q, Goto(t, q), q.at # "ack", Locked(q) => Locked(th[t]),
         NEW i \in DOMAIN mem, i = th[t].idx, NEW d, d = [mem EXCEPT ![i].sent = @ + 1],
         mem' \in {mem, d}, Copies' \subseteq Copies \cup {d}
  PROVE  FInv'
<1>1. CopyOk(mem) /\ mem \in Copies /\ th' = [th EXCEPT ![t] = q] /\ DOMAIN th = Threads
  BY Awake DEF Goto, IInv, Typed
<1>2. Alone'
  BY <1>1, AloneStep DEF FInv
<1>3. \A u \in Threads : th'[u].at # "ack"
  BY <1>1, OneFlushes DEF FInv
<1>4. /\ DOMAIN d = DOMAIN mem
      /\ \A j \in DOMAIN mem : d[j].op = mem[j].op /\ d[j].log = mem[j].log
      /\ \A j \in DOMAIN mem : j # i => d[j] = mem[j]
      /\ d[i].sent = mem[i].sent + 1
  BY <1>1, CountShape
<1>5. mem[i].sent = th[t].off
  BY DEF FInv, Uncounted
<1>6. ASSUME NEW c \in Copies', NEW j \in DOMAIN c, c[j].sent # 0
      PROVE  ToldOf(c[j], c[j].sent)
  <2>1. CASE c \in Copies
    BY <1>6, <2>1 DEF FInv, Told
  <2>2. CASE c = d /\ j # i
    <3>1. c[j] = mem[j] /\ j \in DOMAIN mem
      BY <1>4, <1>6, <2>2
    <3> QED BY <1>1, <1>6, <3>1 DEF FInv, Told
  <2>3. CASE c = d /\ j = i
    <3>1. ToldOf(mem[i], th[t].off + 1)
      BY DEF FInv, Told
    <3> QED BY <1>4, <1>5, <2>3, <3>1 DEF ToldOf
  <2> QED BY <1>6, <2>1, <2>2, <2>3
<1>7. Told'
  BY <1>3, <1>6 DEF Told, ToldOf
<1> QED BY <1>2, <1>3, <1>7 DEF FInv, Uncounted

(* flush, after the answer. *)
LEMMA AckCounts ==
  ASSUME IInv, FInv, NEW t \in Threads, Ack(t)
  PROVE  FInv'
<1>1. /\ th[t].at = "ack" /\ th[t] \in Places /\ store # "down" /\ Typed /\ AckOk(t)
      /\ UNCHANGED stopped
  BY Awake DEF Ack, IInv, server
<1>2. PICK i \in DOMAIN mem : i = th[t].idx
  BY <1>1 DEF AckOk
<1>3. PICK d : d = [mem EXCEPT ![i].sent = @ + 1]
  OBVIOUS
<1>4. PICK q : Goto(t, q) /\ q.at # "ack" /\ (Locked(q) => Locked(th[t]))
  <2>1. CASE Finish(t, "error")
    BY <1>1, <2>1, FinishMoves
  <2>2. CASE Goto(t, Again(th[t]))
    <3>1. Again(th[t]).at = "report" /\ Again(th[t]).for = th[t].for
      BY <1>1, AgainOk
    <3>2. Locked(Again(th[t])) => Locked(th[t])
      BY <1>1, <3>1 DEF Locked
    <3> QED BY <2>2, <3>1, <3>2
  <2> QED BY <2>1, <2>2 DEF Ack, Again
<1>5. CASE UNCHANGED journal
  BY <1>1, <1>4, <1>5, KeptSame, PlainMove, PlainStep
<1>6. CASE Saved(d) \/ SaveFails(d)
  <2>1. mem' \in {mem, d} /\ Copies' \subseteq Copies \cup {d}
    BY <1>1, <1>6, SaveEffect
  <2> QED BY <1>1, <1>2, <1>3, <1>4, <2>1, CountsStep
<1> QED BY <1>2, <1>3, <1>5, <1>6 DEF Ack, Shut

(* Retirement, a crash and a restart: what a journal counts was counted      *)
(* before, and nobody waits for an answer.                                   *)
LEMMA WorldAnew ==
  ASSUME IInv, Retire \/ Crash \/ Reopen
  PROVE  Anew
<1>1. UNCHANGED stopped /\ DOMAIN th = Threads /\ Threads = {"owner", "reader"}
  BY DEF Retire, Crash, Reopen, server, IInv, Typed, Threads
<1>2. CASE Retire
  <2>1. /\ mode = "terminal" /\ store # "down" /\ CopyOk(mem) /\ mem \in Copies /\ Typed
        /\ th["owner"] \in Places /\ th["reader"].at = "idle"
    BY <1>1, <1>2, Awake DEF Retire, IInv, OwnerOk, ReaderOk
  <2>2. th["owner"].back \in {"idle", "reconcile", "events"}
    BY <2>1 DEF Places
  <2>3. th' = [th EXCEPT !["owner"] = Place(th["owner"].back, Stop, "idle")]
    BY <1>2 DEF Retire, Goto
  <2>4. \A t \in Threads : th'[t].at # "ack" /\ ~Locked(th'[t])
    <3>1. th'["owner"].at # "ack" /\ ~Locked(th'["owner"])
      BY <1>1, <2>2, <2>3, LockedPlaces
    <3>2. th'["reader"].at # "ack" /\ ~Locked(th'["reader"])
      BY <1>1, <2>1, <2>3 DEF Locked
    <3> QED BY <1>1, <3>1, <3>2
  <2>5. PICK d : d = Retained
    OBVIOUS
  <2>6. Copies' \subseteq Copies \cup {d}
    BY <1>2, <2>1, <2>5, SaveEffect DEF Retire, NotSaved
  <2>7. \A k \in DOMAIN d : \E i \in DOMAIN mem : d[k] = mem[i]
    <3>1. PICK K \in SUBSET (1..Len(mem)), n \in Nat :
            /\ d \in Seq(Entry) /\ Len(d) = n
            /\ \A k \in 1..n : \E i \in K : d[k] = mem[i]
      BY <2>1, <2>5, RetainedShape
    <3>2. DOMAIN d = 1..n /\ DOMAIN mem = 1..Len(mem)
      BY <2>1, <3>1 DEF CopyOk
    <3> QED BY <3>1, <3>2
  <2> QED BY <1>1, <2>1, <2>4, <2>6, <2>7 DEF Anew
<1>3. ASSUME th' = [t \in Threads |-> Idle]
      PROVE  \A t \in Threads : th'[t].at # "ack" /\ ~Locked(th'[t])
  BY <1>3, LockedPlaces
<1>4. CASE Crash
  <2>1. th' = [t \in Threads |-> Idle] /\ Copies' \subseteq Copies
    BY <1>4 DEF Crash, Copies
  <2> QED BY <1>1, <1>3, <2>1 DEF Anew
<1>5. CASE Reopen
  <2>0. PICK entries \in images, expired \in SUBSET Offers :
          LET next == Recover(entries, expired) IN
          \/ /\ store' = "open" /\ mem' = next
             /\ images' = IF next = entries THEN images ELSE {next}
          \/ images' = images \cup {next} /\ UNCHANGED <<store, mem>>
    BY <1>5 DEF Reopen
  <2>1. th' = [t \in Threads |-> Idle]
    BY <1>5 DEF Reopen, IInv, Down
  <2>2. PICK next : next = Recover(entries, expired) /\ Copies' \subseteq images \cup {next}
    <3>1. PICK next : next = Recover(entries, expired)
      OBVIOUS
    <3>2. store = "down"
      BY <1>5 DEF Reopen
    <3>3. Copies' \subseteq images \cup {next}
      BY <2>0, <3>1, <3>2 DEF Copies
    <3> QED BY <3>1, <3>3
  <2>3. entries \in Copies /\ CopyOk(entries)
    BY DEF IInv, Copies
  <2>4. DOMAIN next = DOMAIN entries
    BY <2>2 DEF Recover
  <2>5. ASSUME NEW i \in DOMAIN next, next[i].sent # 0
        PROVE  /\ entries[i].op = next[i].op /\ entries[i].sent = next[i].sent
               /\ entries[i].log[entries[i].sent] = next[i].log[next[i].sent]
    <3>1. PICK e \in Entry : e = entries[i] /\ e.log \in Seq(States) /\ (e.sent # 0 => e.sent \in 1..Len(e.log))
      <4>1. entries[i] \in Entry
        BY <2>3, <2>4 DEF CopyOk
      <4> QED BY <2>3, <2>4, <4>1, CountedIn DEF Entry
    <3>2. \/ next[i] = e
          \/ \E s \in States : next[i] = [e EXCEPT !.log = Append(@, s)]
      BY <2>2, <2>4, <3>1 DEF Recover, States
    <3>3. ASSUME NEW s \in States, next[i] = [e EXCEPT !.log = Append(@, s)]
          PROVE  next[i].op = e.op /\ next[i].sent = e.sent /\ next[i].log = Append(e.log, s)
      BY <3>1, <3>3 DEF Entry
    <3>4. ASSUME NEW s \in States, e.sent # 0 PROVE Append(e.log, s)[e.sent] = e.log[e.sent]
      BY <3>1, <3>4
    <3> QED BY <2>5, <3>1, <3>2, <3>3, <3>4
  <2>6. ASSUME NEW c \in Copies', NEW i \in DOMAIN c, c[i].sent # 0
        PROVE  \E b \in Copies : \E j \in DOMAIN b :
                 /\ b[j].op = c[i].op /\ b[j].sent = c[i].sent
                 /\ b[j].log[b[j].sent] = c[i].log[c[i].sent]
    <3>1. CASE c = next
      BY <2>3, <2>4, <2>5, <2>6, <3>1
    <3>2. CASE c \in images
      BY <2>6, <3>2 DEF Copies
    <3> QED BY <2>2, <2>6, <3>1, <3>2
  <2> QED BY <1>1, <1>3, <2>1, <2>6 DEF Anew
<1> QED BY <1>2, <1>4, <1>5

(* Every step keeps the one flusher. *)
LEMMA FlusherStep == IInv /\ FInv /\ [Next]_vars => FInv'
<1> SUFFICES ASSUME IInv, FInv, [Next]_vars PROVE FInv'
  OBVIOUS
<1>1. "owner" \in Threads /\ "reader" \in Threads
  BY DEF Threads
<1>2. CASE UNCHANGED vars \/ ProcessExits
  <2>1. UNCHANGED <<mem, images, store, stopped, th>>
    BY <1>2 DEF ProcessExits, vars, journal, server
  <2> QED BY <2>1 DEF FInv, Alone, HoldsDelivery, Uncounted, Told, ToldOf, Copies
<1>3. CASE Plain
  BY <1>3, PlainStep
<1>4. ASSUME NEW t \in Threads, Report(t) PROVE FInv'
  BY <1>4, ReportKind, PlainStep, TakesStep
<1>5. ASSUME NEW t \in Threads, Ack(t) PROVE FInv'
  BY <1>5, AckCounts
<1>6. CASE Retire \/ Crash \/ Reopen
  BY <1>6, WorldAnew, AnewStep
<1>7. CASE \/ \E op \in Inputs \cup {Stop} : Command(op)
           \/ \E op \in Keys : PTYOperation(op)
           \/ PollStart
  BY <1>3, <1>7, CommandPlain, PollPlain
<1>8. CASE OwnerStep
  BY <1>1, <1>3, <1>4, <1>5, <1>6, <1>8, OwnerPlain, EventPlain DEF OwnerStep
<1>9. CASE ReaderStep \/ \E i \in Inputs : Arrive(i)
  BY <1>1, <1>3, <1>4, <1>5, <1>9, EventPlain DEF ReaderStep
<1> QED BY <1>2, <1>6, <1>7, <1>8, <1>9 DEF Next

(* Nobody flushes at the start. *)
LEMMA FlusherInit == Init => FInv
<1> SUFFICES ASSUME Init PROVE FInv
  OBVIOUS
<1>1. \A t \in Threads : th[t] = Idle
  BY DEF Init
<1>2. Alone /\ Uncounted
  BY <1>1, LockedPlaces DEF Alone, HoldsDelivery, Locked, Uncounted, Threads
<1>3. \A c \in Copies : c = <<>>
  BY DEF Init, Copies
<1> QED BY <1>1, <1>2, <1>3, LockedPlaces DEF FInv, Told

(* FInv is an invariant: Delivery.mu has one holder, what a flush saw before *)
(* the server's answer still stands when it counts the report, and an exit   *)
(* that is counted has stopped the session, though a report may fail between *)
(* its receipt and the stop (Delivery.lock, flush, Store.Report).            *)
THEOREM ReceiptsOneFlusher == Spec => []FInv
  BY FlusherInit, FlusherStep, ReceiptsInductive, PTL DEF Spec

(* The server is never ahead of a journal a restart may read by more than    *)
(* one report, and never behind what it counts as sent; what the server      *)
(* knows and the journal has not is a settled keystroke; and one goroutine   *)
(* flushes at a time, so a report that was answered is the next one its      *)
(* entry owes (flush, RetirePTYReports, Delivery.lock, poll).                *)
THEOREM ReceiptsAgree == Spec => []Agrees
<1>1. IInv => CopiesAgree
  <2> SUFFICES ASSUME IInv, NEW c \in Copies
               PROVE  /\ \A i \in DOMAIN c :
                           \/ known[c[i].op] = IF c[i].sent = 0 THEN "none"
                                               ELSE c[i].log[c[i].sent]
                           \/ c[i].sent < Len(c[i].log)
                              /\ known[c[i].op] = c[i].log[c[i].sent + 1]
                      /\ \A op \in Ops :
                           \/ known[op] = "none"
                           \/ \E i \in DOMAIN c : c[i].op = op
                           \/ op \in Keys /\ known[op] \in Closed
    BY DEF CopiesAgree, Copies, Closed
  <2>1. CopyOk(c)
    BY DEF IInv
  <2> QED BY <2>1 DEF CopyOk, EntryOk, Reported, Complete, In
<1>2. IInv /\ FInv => OneFlusher
  <2> SUFFICES ASSUME IInv, FInv PROVE OneFlusher
    OBVIOUS
  <2>1. ASSUME NEW t \in Threads, NEW u \in Threads,
               {th[t].at, th[u].at} \subseteq {"report", "ack"}
        PROVE  t = u
    BY <2>1, OneFlushes DEF FInv
  <2>2. ASSUME NEW t \in Threads, th[t].at = "ack"
        PROVE  LET e == mem[th[t].idx]
               IN  /\ th[t].idx \in DOMAIN mem /\ e.sent = th[t].off
                   /\ e.sent < Len(e.log) /\ known[e.op] = e.log[e.sent + 1]
    BY <2>2 DEF IInv, AckOk, FInv, Uncounted
  <2> QED BY <2>1, <2>2 DEF OneFlusher
<1> QED BY <1>1, <1>2, ReceiptsInductive, ReceiptsOneFlusher, PTL DEF Agrees

-----------------------------------------------------------------------------
(* The hand-over.  A flush of the exit starts from a journal whose stop ends *)
(* in it, and when the flush is over, every copy of the journal has the exit.*)

Exited(c) ==
  \E i \in DOMAIN c : c[i].op = Stop /\ \E k \in 1..Len(c[i].log) : c[i].log[k] = "exit_confirmed"

(* The process is gone, and every journal a restart may read says so. *)
Out == proc = "gone" /\ (mode = "structured" => \A c \in Copies : Exited(c))

Confirmed == \E i \in DOMAIN mem : mem[i].op = Stop /\ Last(mem[i].log) = "exit_confirmed"

(* The place of a flush that a release follows. *)
Handing(p) == p.at \in {"report", "ack"} /\ p.for \in {"exit", "own"}

XInv ==
  LET p == th["owner"] IN
  /\ Handing(p) => p.op = Stop /\ Stop \in p.scope /\ Confirmed
  /\ Handing(p) /\ (p.at = "ack" \/ p.n > 0) => Out
  /\ p.at = "release" => Out
  /\ released => Out /\ p.at = "idle" /\ store # "down"

(* A stop that ends in its exit is the exit of a process that is gone. *)
LEMMA ConfirmedExits ==
  ASSUME CopyOk(mem), Confirmed
  PROVE  Exited(mem) /\ proc = "gone"
<1>1. PICK i \in DOMAIN mem : mem[i].op = Stop /\ Last(mem[i].log) = "exit_confirmed"
  BY DEF Confirmed
<1>2. mem[i] \in Entry /\ EntryOk(mem[i])
  BY DEF CopyOk
<1>3. Len(mem[i].log) \in 1..Len(mem[i].log)
  BY <1>2 DEF Entry, EntryOk, LogOk
<1>4. mem[i].log[Len(mem[i].log)] = "exit_confirmed"
  BY <1>1 DEF Last
<1>5. proc = "gone"
  BY <1>2, <1>3, <1>4 DEF EntryOk, Honest
<1> QED BY <1>1, <1>3, <1>4, <1>5 DEF Exited

(* A journal that grows keeps the exit. *)
LEMMA ExitedGrown ==
  ASSUME CopyOk(mem), Exited(mem), NEW d, Grown(mem, d)
  PROVE  Exited(d)
<1>1. PICK i \in DOMAIN mem : mem[i].op = Stop
        /\ \E k \in 1..Len(mem[i].log) : mem[i].log[k] = "exit_confirmed"
  BY DEF Exited
<1>2. PICK k \in 1..Len(mem[i].log) : mem[i].log[k] = "exit_confirmed"
  BY <1>1
<1>3. /\ i \in DOMAIN d /\ d[i].op = Stop /\ d[i].log[k] = "exit_confirmed"
      /\ Len(mem[i].log) <= Len(d[i].log)
  BY <1>1, <1>2 DEF Grown
<1>4. Len(mem[i].log) \in Nat /\ Len(d[i].log) \in Nat
  <2>1. mem[i] \in Entry /\ d[i] \in Entry
    BY <1>1, <1>3 DEF CopyOk, Grown
  <2> QED BY <2>1 DEF Entry
<1>5. k \in 1..Len(d[i].log)
  BY <1>3, <1>4
<1> QED BY <1>3, <1>5 DEF Exited

(* What was out stays out while the journal grows. *)
LEMMA OutStays ==
  ASSUME IInv, store # "down", Out, UNCHANGED mode, proc' \in {proc, "gone"},
         NEW d, Grown(mem, d), Copies' \subseteq Copies \cup {d}
  PROVE  Out'
<1>1. mem \in Copies /\ CopyOk(mem)
  BY DEF IInv, Copies
<1>2. ASSUME mode = "structured", NEW c \in Copies' PROVE Exited(c)
  <2>1. Exited(mem) /\ \A x \in Copies : Exited(x)
    BY <1>1, <1>2 DEF Out
  <2> QED BY <1>1, <1>2, <2>1, ExitedGrown
<1>3. \A c : Exited(c)' <=> Exited(c)
  BY DEF Exited
<1> QED BY <1>2, <1>3 DEF Out

(* The end of the stop's log stays while its log does. *)
LEMMA ConfirmedStays ==
  ASSUME Confirmed, NEW d, Grown(mem, d), mem' \in {mem, d},
         \A i \in DOMAIN mem : mem[i].op = Stop => d[i].log = mem[i].log
  PROVE  Confirmed'
<1>1. PICK i \in DOMAIN mem : mem[i].op = Stop /\ Last(mem[i].log) = "exit_confirmed"
  BY DEF Confirmed
<1>2. i \in DOMAIN d /\ d[i].op = Stop /\ d[i].log = mem[i].log
  BY <1>1 DEF Grown
<1>3. i \in DOMAIN mem' /\ mem'[i].op = Stop /\ mem'[i].log = mem[i].log
  BY <1>1, <1>2
<1> QED BY <1>1, <1>3 DEF Confirmed

(* An exit the server knows is in every copy: the server is never more than  *)
(* one report ahead.                                                         *)
LEMMA KnownExits ==
  ASSUME IInv, known[Stop] = "exit_confirmed", NEW c \in Copies
  PROVE  Exited(c)
<1>1. CopyOk(c) /\ Stop \in Ops /\ Stop \notin Keys
  BY OperationsAssumption DEF IInv, Ops
<1>2. PICK i \in DOMAIN c : c[i].op = Stop
  BY <1>1 DEF CopyOk, Complete, In
<1>3. c[i] \in Entry /\ Reported(c[i])
  BY <1>1 DEF CopyOk, EntryOk
<1>4. c[i].sent \in Nat /\ Len(c[i].log) \in Nat /\ c[i].sent <= Len(c[i].log)
  BY <1>3 DEF Entry, Reported
<1>5. CASE c[i].sent # 0 /\ known[Stop] = c[i].log[c[i].sent]
  <2>1. c[i].sent \in 1..Len(c[i].log)
    BY <1>4, <1>5
  <2> QED BY <1>2, <1>5, <2>1 DEF Exited
<1>6. CASE c[i].sent < Len(c[i].log) /\ known[Stop] = c[i].log[c[i].sent + 1]
  <2>1. c[i].sent + 1 \in 1..Len(c[i].log)
    BY <1>4, <1>6
  <2> QED BY <1>2, <1>6, <2>1 DEF Exited
<1>7. c[i].sent = 0 => known[Stop] # "none"
  OBVIOUS
<1> QED BY <1>2, <1>3, <1>5, <1>6, <1>7 DEF Reported

(* When the stop has nothing left to report, the server has its exit, and    *)
(* has stopped the session.                                                  *)
LEMMA NothingPending ==
  ASSUME IInv, FInv, store # "down", Confirmed, NEW scope, Stop \in scope, Pending(scope) = {}
  PROVE  known[Stop] = "exit_confirmed" /\ stopped
<1>1. PICK i \in DOMAIN mem : mem[i].op = Stop /\ Last(mem[i].log) = "exit_confirmed"
  BY DEF Confirmed
<1>2. mem[i] \in Entry /\ EntryOk(mem[i])
  BY DEF IInv, Copies, CopyOk
<1>3. mem[i].sent \in Nat /\ Len(mem[i].log) \in Nat \ {0} /\ mem[i].sent <= Len(mem[i].log)
  BY <1>2 DEF Entry, EntryOk, LogOk, Reported
<1>4. ~(mem[i].sent < Len(mem[i].log))
  BY <1>1 DEF Pending
<1>5. mem[i].sent = Len(mem[i].log)
  BY <1>3, <1>4
<1>6. known[Stop] = "exit_confirmed"
  BY <1>1, <1>2, <1>3, <1>5 DEF EntryOk, Reported, Last
<1>7. ToldOf(mem[i], mem[i].sent)
  BY <1>1, <1>3, <1>5 DEF FInv, Told, Copies
<1> QED BY <1>1, <1>5, <1>6, <1>7 DEF ToldOf, Last

(* The kinds of steps, as the hand-over sees them.  The owner goes where no  *)
(* release is near; it stays where it is while the journal grows; it starts  *)
(* to flush an exit; it makes or counts a report of that flush; it ends a    *)
(* terminal that is gone; it gives the hold back.                            *)
Away ==
  /\ ~Handing(th'["owner"]) /\ th'["owner"].at # "release"
  /\ released' = released /\ (released => th["owner"].at # "idle" \/ store = "down")

GrowsTo(d) ==
  /\ Grown(mem, d) /\ mem' \in {mem, d} /\ Copies' \subseteq Copies \cup {d}
  /\ \A i \in DOMAIN mem : mem[i].op = Stop => d[i].log = mem[i].log

Stays ==
  /\ th'["owner"] = th["owner"] /\ UNCHANGED <<mode, released>>
  /\ proc' \in {proc, "gone"}
  /\ store # "down" /\ store' # "down" /\ \E d : GrowsTo(d)

Confirms ==
  /\ th["owner"].at # "idle" /\ UNCHANGED <<known, stopped, released>>
  /\ \E b : th'["owner"] = Flush("exit", Stop, Ops, b)
  /\ Confirmed'

Hands == Handing(th["owner"]) /\ (Report("owner") \/ Ack("owner"))

Ends ==
  /\ mode = "terminal" /\ proc = "gone" /\ UNCHANGED <<mode, proc, released>>
  /\ ~released /\ stopped' /\ th'["owner"].at = "release" /\ ~Handing(th'["owner"])

Gives ==
  /\ th["owner"].at = "release" /\ th'["owner"] = Idle
  /\ store # "down" /\ UNCHANGED <<journal, mode, proc, known, stopped>>

(* The owner goes to a place q where no release is near. *)
LEMMA GoesAway ==
  ASSUME IInv, NEW q, th' = [th EXCEPT !["owner"] = q], ~Handing(q), q.at # "release",
         UNCHANGED <<known, stopped, released>>,
         released => th["owner"].at # "idle"
  PROVE  Away
<1>1. th'["owner"] = q
  BY DEF IInv, Typed, Threads
<1> QED BY <1>1 DEF Away

(* Neither does a place without a flush, nor a flush for somebody else. *)
LEMMA PlainPlaces ==
  ASSUME NEW op, NEW b
  PROVE  /\ ~Handing(Idle) /\ Idle.at # "release"
         /\ \A a : a \notin {"report", "ack", "release"} =>
              ~Handing(Place(a, op, b)) /\ Place(a, op, b).at # "release"
         /\ \A f, scope : f \notin {"exit", "own"} =>
              ~Handing(Flush(f, op, scope, b)) /\ Flush(f, op, scope, b).at # "release"
  BY DEF Handing, Idle, Place, Flush

(* The acknowledgement changes a count and no log. *)
LEMMA AckEffect ==
  ASSUME IInv, NEW t \in Threads, Ack(t)
  PROVE  /\ store # "down" /\ store' # "down" /\ UNCHANGED <<mode, proc, released, known, stopped>>
         /\ \E d : GrowsTo(d)
<1>1. /\ th[t].at = "ack" /\ store # "down" /\ mem \in Copies /\ Typed /\ CopyOk(mem) /\ AckOk(t)
      /\ UNCHANGED <<known, stopped>>
  BY Awake DEF Ack, IInv, server
<1>2. UNCHANGED <<mode, proc, released>>
  BY DEF Ack, Finish, native, daemon
<1>3. PICK i \in DOMAIN mem : i = th[t].idx
  BY <1>1 DEF AckOk
<1>4. PICK d : d = [mem EXCEPT ![i].sent = @ + 1]
  OBVIOUS
<1>5. CASE UNCHANGED journal
  <2>1. Grown(mem, mem) /\ Copies' = Copies /\ mem' = mem /\ store' = store
    BY <1>1, <1>5, SelfGrown DEF journal, Copies
  <2>2. GrowsTo(mem)
    BY <2>1 DEF GrowsTo
  <2> QED BY <1>1, <1>2, <2>1, <2>2
<1>6. CASE mem[i].sent = th[t].off /\ (Saved(d) \/ SaveFails(d))
  <2>1. Grown(mem, d) /\ \A j \in DOMAIN mem : d[j].log = mem[j].log
    BY <1>1, <1>3, <1>4, <1>6, CountOk DEF AckOk
  <2>2. store' # "down" /\ mem' \in {mem, d} /\ Copies' \subseteq Copies \cup {d}
    BY <1>1, <1>6, SaveEffect
  <2>3. GrowsTo(d)
    BY <2>1, <2>2 DEF GrowsTo
  <2> QED BY <1>1, <1>2, <2>2, <2>3
<1> QED BY <1>3, <1>4, <1>5, <1>6 DEF Ack, Shut

(* The end of a flush that no release follows. *)
LEMMA FinishAway ==
  ASSUME IInv, th["owner"].at \in {"report", "ack"}, th["owner"].for \notin {"exit", "own"},
         NEW result, Finish("owner", result)
  PROVE  ~Handing(th'["owner"]) /\ th'["owner"].at # "release"
<1> DEFINE p == th["owner"]
<1>1. /\ DOMAIN th = Threads /\ "owner" \in Threads /\ p \in Places /\ p.for \in Callers
  BY DEF IInv, Typed, Threads
<1>2. p.back \in {"idle", "reconcile", "events"}
  BY <1>1 DEF Places
<1>3. PICK q : /\ th' = [th EXCEPT !["owner"] = q]
               /\ \/ q = Idle \/ q = Place(p.back, Stop, "idle")
                  \/ q = Place("retire", Stop, p.back) \/ q = Place("observe", p.op, p.back)
  <2>1. CASE p.for = "send"
    BY <2>1 DEF Finish, Goto
  <2>2. CASE p.for \in {"poll", "key"}
    BY <2>2 DEF Finish, Goto
  <2>3. CASE p.for = "event" /\ result = "ok"
    BY <2>3 DEF Finish, Goto
  <2>4. CASE p.for = "event" /\ result # "ok"
    BY <2>4 DEF Finish, Goto
  <2> QED BY <1>1, <2>1, <2>2, <2>3, <2>4 DEF Callers
<1>4. ~Handing(q) /\ q.at # "release"
  BY <1>2, <1>3, PlainPlaces
<1> QED BY <1>1, <1>3, <1>4

(* The end of the flush of an exit. *)
LEMMA FinishHands ==
  ASSUME IInv, Handing(th["owner"]), NEW result \in {"ok", "error", "refused"},
         Finish("owner", result)
  PROVE  /\ result = "ok" => th'["owner"].at = "release"
         /\ result # "ok" =>
              \/ th'["owner"].at \in {"idle", "reconcile", "events"}
              \/ LET p == th["owner"] IN th'["owner"] = Flush("own", p.op, {p.op}, p.back)
<1> DEFINE p == th["owner"]
<1>1. /\ DOMAIN th = Threads /\ "owner" \in Threads /\ p \in Places /\ Stop \in Ops
      /\ p.for \in {"exit", "own"}
  BY DEF IInv, Typed, Threads, Handing, Ops
<1>2. p.back \in {"idle", "reconcile", "events"} /\ p.op \in Ops
  BY <1>1 DEF Places
<1>3. Place(p.back, Stop, "idle").at = p.back
  BY <1>1, <1>2, PlaceOk
<1>4. CASE result = "ok"
  <2>1. th' = [th EXCEPT !["owner"] = [Place("release", p.op, p.back) EXCEPT !.for = "exit"]]
    BY <1>1, <1>4 DEF Finish, Goto
  <2>2. [Place("release", p.op, p.back) EXCEPT !.for = "exit"].at = "release"
    BY <1>2, ReleaseOk
  <2> QED BY <1>1, <1>4, <2>1, <2>2
<1>5. CASE result # "ok"
  <2>1. \/ th' = [th EXCEPT !["owner"] = Place(p.back, Stop, "idle")]
        \/ th' = [th EXCEPT !["owner"] = Flush("own", p.op, {p.op}, p.back)]
    <3>1. CASE p.for = "exit"
      BY <1>5, <3>1 DEF Finish, Goto
    <3>2. CASE p.for = "own"
      BY <1>5, <3>2 DEF Finish, Goto
    <3> QED BY <1>1, <3>1, <3>2
  <2> QED BY <1>1, <1>2, <1>3, <1>5, <2>1
<1> QED BY <1>4, <1>5

(* A command is taken only while the hold is kept. *)
LEMMA CommandKind ==
  ASSUME IInv,
         \/ \E op \in Inputs \cup {Stop} : Command(op)
         \/ \E op \in Keys : PTYOperation(op)
  PROVE  Away
<1>1. PICK op : Execute(op) /\ UNCHANGED <<known, stopped, released>>
  BY DEF Command, PTYOperation, server
<1>2. PICK q : /\ th' = [th EXCEPT !["owner"] = q]
               /\ q = Idle \/ q = Place("accepted", op, "idle") \/ q = Flush("send", op, Ops, "idle")
  BY <1>1 DEF Execute, Goto
<1>3. ~Handing(q) /\ q.at # "release"
  BY <1>2, PlainPlaces
<1>4. ~released
  BY <1>1 DEF Execute
<1> QED BY <1>1, <1>2, <1>3, <1>4, GoesAway

(* The owner's other steps before an exit. *)
LEMMA PlainKind ==
  ASSUME IInv, Begin \/ Write \/ Unsure \/ Reject \/ Retire \/ PollEvents
  PROVE  Away
<1>1. /\ th["owner"] \in Places /\ th["owner"].at # "idle"
      /\ UNCHANGED <<known, stopped, released>>
  BY DEF IInv, Typed, Threads, Begin, Write, Unsure, Reject, Retire, PollEvents, server, daemon
<1>2. th["owner"].back \in {"idle", "reconcile", "events"}
  BY <1>1 DEF Places
<1>3. PICK q, op, a :
        /\ th' = [th EXCEPT !["owner"] = q]
        /\ a \in {"reject", "begun", "unsure", "written", "idle", "reconcile", "events", "observe"}
        /\ q = Idle \/ q = Place(a, op, "idle") \/ q = Flush("key", op, {op}, "idle")
  <2>1. CASE Begin
    BY <2>1 DEF Begin, RefusedWrite, Goto
  <2>2. CASE Write
    <3> DEFINE o == th["owner"].op
    <3>1. \/ Goto("owner", Idle) \/ Goto("owner", Place("unsure", o, "idle"))
          \/ Goto("owner", Place("written", o, "idle"))
      BY <2>2 DEF Write
    <3> QED BY <3>1 DEF Goto
  <2>3. CASE Unsure
    BY <2>3 DEF Unsure, Goto
  <2>4. CASE Reject
    BY <2>4 DEF Reject, Goto
  <2>5. CASE Retire
    BY <1>2, <2>5 DEF Retire, Goto
  <2>6. CASE PollEvents
    BY <2>6 DEF PollEvents, Goto
  <2> QED BY <2>1, <2>2, <2>3, <2>4, <2>5, <2>6
<1>4. ~Handing(q) /\ q.at # "release"
  BY <1>3, PlainPlaces
<1> QED BY <1>1, <1>3, <1>4, GoesAway

(* An advance that succeeds leaves its state at the end of the log. *)
LEMMA AdvanceConfirms ==
  ASSUME IInv, store # "down", Advances(Stop, "exit_confirmed")
  PROVE  Confirmed'
<1>1. CopyOk(mem) /\ Has(Stop) /\ Stop \in Ops /\ "exit_confirmed" \in States
  BY DEF IInv, Copies, Advances, Ops, States
<1>2. PICK i \in DOMAIN mem : i = At(Stop) /\ mem[i].op = Stop /\ mem[i] \in Entry
  BY <1>1, Found
<1>3. CASE UNCHANGED journal /\ State(Stop) = "exit_confirmed"
  BY <1>2, <1>3 DEF journal, State, Confirmed
<1>4. CASE mem' = Moved(Stop, "exit_confirmed")
  <2>1. PICK d : /\ d = Moved(Stop, "exit_confirmed") /\ DOMAIN d = DOMAIN mem
                 /\ d[i].op = Stop /\ d[i].log = Append(mem[i].log, "exit_confirmed")
    BY <1>1, <1>2, MovedShape
  <2>2. Last(d[i].log) = "exit_confirmed"
    <3>1. mem[i].log \in Seq(States)
      BY <1>2 DEF Entry
    <3> QED BY <1>1, <2>1, <3>1 DEF Last
  <2> QED BY <1>2, <1>4, <2>1, <2>2 DEF Confirmed
<1> QED BY <1>3, <1>4 DEF Advances, Saved

(* A stop that succeeds, or a stop whose process is found gone, starts the   *)
(* flush of its exit.                                                        *)
LEMMA ConfirmKind ==
  ASSUME IInv, Settle \/ Reconcile
  PROVE  Away \/ Confirms
<1>1. /\ th["owner"].at # "idle" /\ store # "down" /\ UNCHANGED <<known, stopped, released>>
      /\ DOMAIN th = Threads /\ "owner" \in Threads
  BY Awake DEF IInv, Typed, Settle, Reconcile, server, daemon, Threads
<1>2. ASSUME NEW b, Advances(Stop, "exit_confirmed"), Goto("owner", Flush("exit", Stop, Ops, b))
      PROVE  Confirms
  BY <1>1, <1>2, AdvanceConfirms DEF Goto, Confirms
<1>3. ASSUME NEW q, Goto("owner", q), ~Handing(q), q.at # "release"
      PROVE  Away
  BY <1>1, <1>3, GoesAway DEF Goto
<1>4. CASE Settle
  <2> DEFINE op == th["owner"].op
  <2>1. CASE Goto("owner", Place("unsure", op, "idle"))
    BY <1>3, <2>1, PlainPlaces
  <2>2. CASE /\ Advances(op, Evidence(op))
             /\ Goto("owner", CASE op \in Inputs -> Flush("send", op, Ops, "idle")
                                [] op \in Keys -> Flush("key", op, {op}, "idle")
                                [] op = Stop -> Flush("exit", op, Ops, "idle"))
    <3>1. op \in Inputs \/ op \in Keys \/ op = Stop
      BY <1>4 DEF Settle, IInv, OwnerOk, Offers
    <3>2. CASE op \in Inputs
      <4>1. Goto("owner", Flush("send", op, Ops, "idle"))
        BY <2>2, <3>2, OperationsAssumption
      <4> QED BY <1>3, <4>1, PlainPlaces
    <3>3. CASE op \in Keys
      <4>1. Goto("owner", Flush("key", op, {op}, "idle"))
        BY <2>2, <3>3, OperationsAssumption
      <4> QED BY <1>3, <4>1, PlainPlaces
    <3>4. CASE op = Stop
      <4>1. /\ Goto("owner", Flush("exit", Stop, Ops, "idle")) /\ Advances(Stop, "exit_confirmed")
        BY <2>2, <3>4, OperationsAssumption DEF Evidence
      <4> QED BY <1>2, <4>1
    <3> QED BY <3>1, <3>2, <3>3, <3>4
  <2> QED BY <1>4, <2>1, <2>2 DEF Settle
<1>5. CASE Reconcile
  <2>1. CASE Goto("owner", Place("events", Stop, "idle"))
    BY <1>3, <2>1, PlainPlaces
  <2>2. CASE Advances(Stop, "exit_confirmed") /\ Goto("owner", Flush("exit", Stop, Ops, "events"))
    BY <1>2, <2>2
  <2> QED BY <1>5, <2>1, <2>2 DEF Reconcile
<1> QED BY <1>4, <1>5

(* The poll of a terminal that is gone goes to the release, another one      *)
(* does not; and the release gives the hold back or keeps it.                *)
LEMMA PollKind ==
  ASSUME IInv, PollStart \/ Release
  PROVE  Away \/ Ends \/ Gives
<1>1. /\ DOMAIN th = Threads /\ "owner" \in Threads /\ th["owner"] \in Places /\ Stop \in Ops
  BY DEF IInv, Typed, Threads, Ops
<1>2. th["owner"].back \in {"idle", "reconcile", "events"}
  BY <1>1 DEF Places
<1>3. CASE PollStart
  <2>1. ~released /\ UNCHANGED <<mode, proc, released, known>>
    BY <1>3 DEF PollStart, FinishTerminalExit, daemon, native, server
  <2>2. CASE FinishTerminalExit /\ Goto("owner", Place("release", Stop, "idle")) /\ stopped' = TRUE
    <3>1. ~Handing(Place("release", Stop, "idle")) /\ Place("release", Stop, "idle").at = "release"
      BY DEF Handing, Place, Idle
    <3>2. th'["owner"] = Place("release", Stop, "idle")
      BY <1>1, <2>2 DEF Goto
    <3> QED BY <2>1, <2>2, <3>1, <3>2 DEF Ends, FinishTerminalExit, TerminalGone
  <2>3. CASE FinishTerminalExit /\ Goto("owner", Idle) /\ stopped' \in {stopped, TRUE}
    <3>1. th'["owner"] = Idle
      BY <1>1, <2>3 DEF Goto
    <3> QED BY <2>1, <2>3, <3>1, PlainPlaces DEF Away
  <2>4. ASSUME NEW q, Goto("owner", q), UNCHANGED server,
               q = Flush("poll", Stop, Ops, "reconcile") \/ q = Place("reconcile", Stop, "idle")
        PROVE  Away
    <3>1. ~Handing(q) /\ q.at # "release"
      BY <2>4, PlainPlaces
    <3> QED BY <2>1, <2>4, <3>1, GoesAway DEF Goto, server
  <2> QED BY <1>3, <2>2, <2>3, <2>4 DEF PollStart, FinishTerminalExit
<1>4. CASE Release
  <2>1. /\ th["owner"].at = "release" /\ store # "down"
        /\ UNCHANGED <<journal, mode, proc, known, stopped>>
    BY <1>1, <1>4, Awake DEF Release, native, server
  <2>2. CASE Goto("owner", Idle)
    BY <1>1, <2>1, <2>2 DEF Gives, Goto
  <2>3. CASE Goto("owner", Place(th["owner"].back, Stop, "idle")) /\ UNCHANGED released
    <3>1. PICK q : /\ q = Place(th["owner"].back, Stop, "idle")
                   /\ ~Handing(q) /\ q.at # "release"
      BY <1>2, PlainPlaces
    <3> QED BY <2>1, <2>3, <3>1, GoesAway DEF Goto
  <2> QED BY <1>4, <2>2, <2>3 DEF Release
<1> QED BY <1>3, <1>4

(* A flush's report and its acknowledgement. *)
LEMMA FlushKind ==
  ASSUME IInv, NEW t \in Threads, Report(t) \/ Ack(t)
  PROVE  Away \/ Stays \/ Hands
<1>1. /\ DOMAIN th = Threads /\ "owner" \in Threads /\ th[t].at \in {"report", "ack"}
      /\ th["owner"] \in Places /\ CopyOk(mem)
  BY Awake DEF IInv, Typed, Threads, Report, Ack
<1>2. /\ store # "down" /\ store' # "down" /\ UNCHANGED <<mode, proc, released>>
      /\ \E d : GrowsTo(d)
  <2>1. CASE Report(t)
    <3>1. store # "down" /\ store' # "down" /\ mem' = mem /\ Copies' \subseteq Copies
      BY <2>1, ReportEffect
    <3>2. GrowsTo(mem)
      BY <1>1, <3>1, SelfGrown DEF GrowsTo
    <3> QED BY <2>1, <3>2, ReportEffect
  <2>2. CASE Ack(t)
    BY <2>2, AckEffect
  <2> QED BY <2>1, <2>2
<1>3. CASE t = "reader"
  <2>1. \E q : th' = [th EXCEPT ![t] = q]
    <3>1. \/ \E result \in {"ok", "error", "refused"} : Finish(t, result)
          \/ \E q : Goto(t, q)
      BY DEF Report, Ack
    <3> QED BY <1>1, <3>1, FinishLands DEF Lands, Goto
  <2>2. th'["owner"] = th["owner"]
    BY <1>1, <1>3, <2>1
  <2> QED BY <1>2, <2>2 DEF Stays
<1>4. CASE t = "owner" /\ Handing(th["owner"])
  BY <1>4 DEF Hands
<1>5. CASE t = "owner" /\ ~Handing(th["owner"])
  <2>1. th["owner"].for \notin {"exit", "own"} /\ th["owner"].at # "idle"
    BY <1>1, <1>5 DEF Handing
  <2>2. ASSUME NEW result, Finish("owner", result)
        PROVE  ~Handing(th'["owner"]) /\ th'["owner"].at # "release"
    BY <1>1, <1>5, <2>1, <2>2, FinishAway
  <2>3. ASSUME NEW q, Goto("owner", q), q.at \in {"report", "ack"}, q.for = th["owner"].for
        PROVE  ~Handing(th'["owner"]) /\ th'["owner"].at # "release"
    BY <1>1, <2>1, <2>3 DEF Goto, Handing
  <2>4. \/ \E result : Finish("owner", result)
        \/ \E i, off : Goto("owner", Taken(th["owner"], i, off))
        \/ Goto("owner", Again(th["owner"]))
    BY <1>5 DEF Report, Ack, Taken, Again
  <2>5. /\ \A i, off : /\ Taken(th["owner"], i, off).at = "ack"
                       /\ Taken(th["owner"], i, off).for = th["owner"].for
        /\ Again(th["owner"]).at = "report" /\ Again(th["owner"]).for = th["owner"].for
    BY <1>1 DEF Taken, Again, Places
  <2>6. ~Handing(th'["owner"]) /\ th'["owner"].at # "release"
    BY <2>2, <2>3, <2>4, <2>5
  <2> QED BY <1>2, <2>1, <2>6 DEF Away
<1> QED BY <1>3, <1>4, <1>5 DEF Threads

(* An event extends the log of an input. *)
LEMMA EventKind ==
  ASSUME IInv, NEW t \in Threads, Observe(t)
  PROVE  Away \/ Stays
<1>1. /\ DOMAIN th = Threads /\ "owner" \in Threads /\ th[t] \in Places /\ th[t].at = "observe"
      /\ store # "down" /\ CopyOk(mem) /\ events \in Seq(Event) /\ Typed
      /\ UNCHANGED <<mode, offered, proc, writes, released, known, stopped>>
  BY Awake DEF Observe, IInv, Typed, Threads, native, server
<1>2. th[t].back \in {"idle", "reconcile", "events"}
  BY <1>1 DEF Places
<1>3. CASE t = "owner"
  <2>1. PICK q : /\ th' = [th EXCEPT !["owner"] = q]
                 /\ \/ q = Place(th[t].back, Stop, "idle") \/ q = th["owner"]
                    \/ \E op : q = Flush("event", op, Ops, th[t].back)
    <3>1. th = [th EXCEPT !["owner"] = th["owner"]]
      BY <1>1 DEF Typed
    <3> QED BY <1>3, <3>1 DEF Observe, Goto
  <2>2. ~Handing(q) /\ q.at # "release"
    <3>1. CASE q = th["owner"]
      BY <1>1, <1>3, <3>1 DEF Handing
    <3>2. CASE q = Place(th[t].back, Stop, "idle")
      BY <1>2, <3>2, PlainPlaces
    <3>3. CASE \E op : q = Flush("event", op, Ops, th[t].back)
      BY <3>3, PlainPlaces
    <3> QED BY <2>1, <3>1, <3>2, <3>3
  <2> QED BY <1>1, <1>3, <2>1, <2>2, GoesAway
<1>4. CASE t = "reader"
  <2>1. th'["owner"] = th["owner"]
    BY <1>1, <1>4 DEF Observe, Goto
  <2>2. store' # "down" /\ \E d : GrowsTo(d)
    <3>1. CASE UNCHANGED journal
      <4>1. GrowsTo(mem) /\ store' = store
        BY <1>1, <3>1, SelfGrown DEF GrowsTo, journal, Copies
      <4> QED BY <1>1, <4>1
    <3>2. CASE /\ events # <<>>
               /\ \/ Advances(Head(events).op, Head(events).state)
                  \/ AdvanceFails(Head(events).op, Head(events).state)
      <4>1. PICK op \in Inputs, s \in {"turn_started", "turn_completed"} :
              op = Head(events).op /\ s = Head(events).state
        <5>1. Head(events) \in Event
          BY <1>1, <3>2
        <5> QED BY <5>1 DEF Event
      <4>2. op \in Ops /\ s \in States /\ op # Stop
        BY OperationsAssumption DEF Ops, States
      <4>3. PICK d : /\ Grown(mem, d) /\ Extended(d, op, s)
                     /\ store' \in {"open", "poisoned"}
                     /\ mem' \in {mem, d} /\ Copies' \subseteq Copies \cup {d}
        BY <1>1, <3>2, <4>1, <4>2, AdvanceEffect
      <4>4. GrowsTo(d)
        BY <4>2, <4>3 DEF GrowsTo, Extended
      <4> QED BY <4>3, <4>4
    <3> QED BY <3>1, <3>2 DEF Observe
  <2> QED BY <1>1, <2>1, <2>2 DEF Stays
<1> QED BY <1>3, <1>4 DEF Threads

(* The world: the owner is where it was, or everyone starts again. *)
LEMMA WorldKind ==
  ASSUME IInv, ProcessExits \/ Crash \/ Reopen \/ \E i \in Inputs : Arrive(i)
  PROVE  Away \/ Stays
<1>1. DOMAIN th = Threads /\ "owner" \in Threads /\ Typed
  BY DEF IInv, Typed, Threads
<1>2. CASE Crash
  <2>1. th'["owner"] = Idle /\ ~released /\ UNCHANGED <<known, stopped, released>>
    BY <1>1, <1>2 DEF Crash, server
  <2> QED BY <2>1, PlainPlaces DEF Away
<1>3. CASE store = "down" /\ (ProcessExits \/ Reopen)
  <2>1. th' = th /\ UNCHANGED <<known, stopped, released>> /\ th["owner"] = Idle
    BY <1>1, <1>3 DEF ProcessExits, Reopen, server, daemon, IInv, Down
  <2> QED BY <1>3, <2>1, PlainPlaces DEF Away
<1>4. CASE store # "down" /\ (ProcessExits \/ \E i \in Inputs : Arrive(i))
  <2>1. /\ th'["owner"] = th["owner"] /\ UNCHANGED <<journal, mode, known, stopped, released>>
        /\ proc' \in {proc, "gone"}
    BY <1>1, <1>4 DEF ProcessExits, Arrive, Goto, daemon, server
  <2>2. GrowsTo(mem) /\ store' = store
    <3>1. CopyOk(mem)
      BY <1>4 DEF IInv, Copies
    <3> QED BY <2>1, <3>1, SelfGrown DEF GrowsTo, journal, Copies
  <2> QED BY <1>4, <2>1, <2>2 DEF Stays
<1>5. (\E i \in Inputs : Arrive(i)) => store # "down"
  BY DEF Arrive
<1>6. Reopen => store = "down"
  BY DEF Reopen
<1> QED BY <1>2, <1>3, <1>4, <1>5, <1>6

(* Every step is of one of the kinds. *)
LEMMA Kinds ==
  ASSUME IInv, Next
  PROVE  Away \/ Stays \/ Confirms \/ Hands \/ Ends \/ Gives
<1>1. "owner" \in Threads /\ "reader" \in Threads
  BY DEF Threads
<1>2. CASE OwnerStep
  BY <1>1, <1>2, PlainKind, ConfirmKind, FlushKind, PollKind, EventKind DEF OwnerStep
<1>3. CASE ReaderStep
  BY <1>1, <1>3, FlushKind, EventKind DEF ReaderStep
<1> QED BY <1>2, <1>3, CommandKind, PollKind, WorldKind DEF Next

(* The flush of an exit ends in a release only when it has reported all it   *)
(* may; while it goes on, the journal on disk is the one in memory.          *)
LEMMA HandsStep ==
  ASSUME IInv, FInv, XInv, Hands
  PROVE  /\ XInv'
         /\ th'["owner"].at = "release" =>
              \/ stopped' /\ known'[Stop] = "exit_confirmed"
              \/ th["owner"].at = "report" /\ th["owner"].n >= Limit
<1> DEFINE p == th["owner"]
           q == th'["owner"]
<1>1. /\ DOMAIN th = Threads /\ "owner" \in Threads /\ p \in Places /\ Handing(p)
      /\ p.op = Stop /\ Stop \in p.scope /\ Confirmed /\ ~released
      /\ store # "down" /\ mem \in Copies /\ CopyOk(mem) /\ p.at \in {"report", "ack"}
      /\ p.n \in Nat /\ Limit \in Nat \ {0}
  <2>1. "owner" \in Threads /\ Handing(p) /\ p.at \in {"report", "ack"}
    BY DEF Hands, Handing, Threads
  <2>2. DOMAIN th = Threads /\ p \in Places /\ store # "down" /\ mem \in Copies /\ CopyOk(mem)
    BY <2>1, Awake DEF IInv, Typed
  <2>3. p.n \in Nat /\ Limit \in Nat \ {0}
    BY <2>2, OperationsAssumption DEF Places
  <2>4. p.op = Stop /\ Stop \in p.scope /\ Confirmed /\ ~released
    BY <2>1 DEF XInv
  <2> QED BY <2>1, <2>2, <2>3, <2>4
<1>2. /\ store' # "down" /\ UNCHANGED <<mode, proc, released>>
      /\ \E d : GrowsTo(d)
  <2>1. CASE Report("owner")
    <3>1. store' # "down" /\ mem' = mem /\ Copies' \subseteq Copies
      BY <1>1, <2>1, ReportEffect
    <3>2. GrowsTo(mem)
      BY <1>1, <3>1, SelfGrown DEF GrowsTo
    <3> QED BY <1>1, <2>1, <3>2, ReportEffect
  <2>2. CASE Ack("owner")
    BY <1>1, <2>2, AckEffect
  <2> QED BY <2>1, <2>2 DEF Hands
<1>3. Confirmed' /\ (Out => Out')
  BY <1>1, <1>2, ConfirmedStays, OutStays DEF GrowsTo
<1>4. CASE Finish("owner", "error") \/ Finish("owner", "refused")
  <2>1. \/ q.at \in {"idle", "reconcile", "events"}
        \/ q = Flush("own", Stop, {Stop}, p.back)
    BY <1>1, <1>4, FinishHands
  <2>2. CASE q.at \in {"idle", "reconcile", "events"}
    BY <1>1, <1>2, <2>2 DEF XInv, Handing
  <2>3. CASE q = Flush("own", Stop, {Stop}, p.back)
    <3>1. q.at = "report" /\ q.op = Stop /\ q.scope = {Stop} /\ q.n = 0
      BY <2>3 DEF Flush, Place, Idle
    <3> QED BY <1>1, <1>2, <1>3, <3>1 DEF XInv
  <2> QED BY <2>1, <2>2, <2>3
<1>5. CASE /\ Report("owner") /\ Finish("owner", "ok") /\ UNCHANGED <<journal, server>>
           /\ p.at = "report" /\ (p.n >= Limit \/ Pending(p.scope) = {})
  <2>1. q.at = "release"
    BY <1>1, <1>5, FinishHands
  <2>2. CASE p.n >= Limit
    <3>1. p.n > 0
      BY <1>1, <2>2
    <3>2. Out
      BY <1>1, <3>1 DEF XInv
    <3> QED BY <1>1, <1>2, <1>3, <1>5, <2>1, <2>2, <3>2 DEF XInv, Handing
  <2>3. CASE Pending(p.scope) = {}
    <3>1. known[Stop] = "exit_confirmed" /\ stopped
      BY <1>1, <2>3, NothingPending
    <3>2. Out
      BY <1>1, <3>1, KnownExits, ConfirmedExits DEF Out
    <3>3. known'[Stop] = "exit_confirmed" /\ stopped'
      BY <1>5, <3>1 DEF server
    <3> QED BY <1>1, <1>2, <1>3, <2>1, <3>2, <3>3 DEF XInv, Handing
  <2> QED BY <1>5, <2>2, <2>3
<1>6. ASSUME Saved(mem), NEW i, NEW off, Goto("owner", Taken(p, i, off))
      PROVE  XInv' /\ q.at # "release"
  <2>1. q = Taken(p, i, off)
    BY <1>1, <1>6 DEF Goto
  <2>2. q.at = "ack" /\ q.op = Stop /\ Stop \in q.scope
    BY <1>1, <2>1 DEF Taken, Places
  <2>3. Out'
    <3>1. Copies' = {mem} /\ mem' = mem
      BY <1>6 DEF Saved, Copies
    <3>2. Exited(mem) /\ proc = "gone"
      BY <1>1, ConfirmedExits
    <3>3. \A c : Exited(c)' <=> Exited(c)
      BY DEF Exited
    <3> QED BY <1>2, <3>1, <3>2, <3>3 DEF Out
  <2> QED BY <1>1, <1>2, <1>3, <2>2, <2>3 DEF XInv
<1>7. CASE Ack("owner") /\ Goto("owner", Again(p)) /\ p.at = "ack"
  <2>1. q = Again(p)
    BY <1>1, <1>7 DEF Goto
  <2>2. q.at = "report" /\ q.op = Stop /\ Stop \in q.scope
    BY <1>1, <2>1 DEF Again, Places
  <2>3. Out'
    BY <1>1, <1>3, <1>7 DEF XInv
  <2> QED BY <1>1, <1>2, <1>3, <2>2, <2>3 DEF XInv
<1>8. CASE Report("owner")
  <2>1. \/ Finish("owner", "error") \/ Finish("owner", "refused")
        \/ /\ Finish("owner", "ok") /\ UNCHANGED <<journal, server>>
           /\ p.at = "report" /\ store = "open"
           /\ ~(store = "open" /\ p.n < Limit /\ Pending(p.scope) # {})
        \/ Saved(mem) /\ \E i, off : Goto("owner", Taken(p, i, off))
    BY <1>8 DEF Report, Taken
  <2>2. ~(p.n < Limit) => p.n >= Limit
    BY <1>1
  <2> QED BY <1>4, <1>5, <1>6, <1>8, <2>1, <2>2
<1>9. CASE Ack("owner")
  <2>1. Finish("owner", "error") \/ (Goto("owner", Again(p)) /\ p.at = "ack")
    BY <1>9 DEF Ack, Again
  <2> QED BY <1>4, <1>7, <1>9, <2>1
<1> QED BY <1>8, <1>9 DEF Hands

(* Every step keeps the hand-over in order. *)
LEMMA HandOverStep == IInv /\ FInv /\ XInv /\ [Next]_vars => XInv'
<1> SUFFICES ASSUME IInv, FInv, XInv, [Next]_vars PROVE XInv'
  OBVIOUS
<1>1. CASE UNCHANGED vars
  <2>1. UNCHANGED <<mode, mem, images, store, proc, released, known, stopped, th>>
    BY <1>1 DEF vars, journal, daemon, native, server
  <2> QED BY <2>1 DEF XInv, Handing, Confirmed, Out, Copies, Exited
<1>2. CASE Away
  BY <1>2 DEF Away, XInv
<1>3. CASE Stays
  <2>1. PICK d : GrowsTo(d)
    BY <1>3 DEF Stays
  <2>2. Out => Out'
    BY <1>3, <2>1, OutStays DEF Stays, GrowsTo
  <2>3. Confirmed => Confirmed'
    BY <2>1, ConfirmedStays DEF GrowsTo
  <2> QED BY <1>3, <2>2, <2>3 DEF Stays, XInv
<1>4. CASE Confirms
  <2>1. PICK b : th'["owner"] = Flush("exit", Stop, Ops, b)
    BY <1>4 DEF Confirms
  <2>2. /\ th'["owner"].at = "report" /\ th'["owner"].op = Stop /\ th'["owner"].scope = Ops
        /\ th'["owner"].n = 0 /\ Stop \in Ops
    BY <2>1 DEF Flush, Place, Idle, Ops
  <2> QED BY <1>4, <2>2 DEF Confirms, XInv
<1>5. CASE Hands
  BY <1>5, HandsStep
<1>6. CASE Ends
  BY <1>6 DEF Ends, XInv, Out
<1>7. CASE Gives
  <2>1. Out'
    BY <1>7 DEF Gives, XInv, Out, Copies, Exited, journal
  <2>2. ~Handing(th'["owner"]) /\ th'["owner"].at = "idle" /\ store' # "down"
    BY <1>7, PlainPlaces, IdleOk DEF Gives, journal
  <2> QED BY <2>1, <2>2 DEF XInv
<1> QED BY <1>1, <1>2, <1>3, <1>4, <1>5, <1>6, <1>7, Kinds

(* Nothing is handed over at the start. *)
LEMMA HandOverInit == Init => XInv
<1> SUFFICES ASSUME Init PROVE XInv
  OBVIOUS
<1>1. th["owner"] = Idle /\ ~released /\ Stop \in Ops /\ known[Stop] = "none"
  BY DEF Init, Threads, Ops
<1> QED BY <1>1, PlainPlaces DEF XInv

(* A release starts from a session the server has stopped, or from a flush   *)
(* at its limit.                                                             *)
LEMMA ReleaseStep ==
  ASSUME IInv, FInv, XInv, IInv', [Next]_vars, NEW t \in Threads,
         th'[t].at = "release", th[t].at # "release"
  PROVE  \/ stopped' /\ (mode = "structured" => known'[Stop] = "exit_confirmed")
         \/ th[t].at = "report" /\ th[t].n >= Limit
<1>1. t = "owner"
  BY DEF IInv, ReaderOk, Threads
<1>2. CASE UNCHANGED vars
  BY <1>2 DEF vars
<1>3. CASE Away
  BY <1>1, <1>3 DEF Away
<1>4. CASE Stays
  BY <1>1, <1>4 DEF Stays
<1>5. CASE Confirms
  <2>1. th'["owner"].at = "report"
    BY <1>5 DEF Confirms, Flush, Place, Idle
  <2> QED BY <1>1, <2>1
<1>6. CASE Hands
  BY <1>1, <1>6, HandsStep
<1>7. CASE Ends
  BY <1>7 DEF Ends
<1>8. CASE Gives
  BY <1>1, <1>8, IdleOk DEF Gives
<1> QED BY <1>2, <1>3, <1>4, <1>5, <1>6, <1>7, <1>8, Kinds

(* XInv is an invariant: from the confirmation of an exit to its release     *)
(* the exit is the last state of the stop's log in memory, and once the      *)
(* flush has saved, in every copy (ConfirmExit, flushExit, release).         *)
THEOREM ReceiptsHandOver == Spec => []XInv
  BY HandOverInit, HandOverStep, ReceiptsInductive, ReceiptsOneFlusher, PTL DEF Spec

(* A hold is given back only for a process that is gone, and a structured    *)
(* session's only when every journal a restart may read has the exit.        *)
THEOREM ReceiptsReleasedIsExited == Spec => []ReleasedIsExited
<1>1. IInv /\ XInv => ReleasedIsExited
  <2> SUFFICES ASSUME IInv, XInv, released
               PROVE  /\ proc = "gone"
                      /\ mode = "structured" =>
                           \A c \in images \cup {mem} :
                             \E i \in DOMAIN c :
                               c[i].op = Stop /\ "exit_confirmed" \in Range(c[i].log)
    BY DEF ReleasedIsExited
  <2>1. Out /\ images \cup {mem} = Copies
    BY DEF XInv, Copies
  <2>2. ASSUME mode = "structured", NEW c \in Copies
        PROVE  \E i \in DOMAIN c : c[i].op = Stop /\ "exit_confirmed" \in Range(c[i].log)
    <3>1. PICK i \in DOMAIN c : c[i].op = Stop
            /\ \E k \in 1..Len(c[i].log) : c[i].log[k] = "exit_confirmed"
      BY <2>1, <2>2 DEF Out, Exited
    <3>2. c[i].log \in Seq(States)
      <4>1. c[i] \in Entry
        BY DEF IInv, CopyOk
      <4> QED BY <4>1 DEF Entry
    <3>3. "exit_confirmed" \in Range(c[i].log)
      BY <3>1, <3>2 DEF Range
    <3> QED BY <3>1, <3>3
  <2> QED BY <2>1, <2>2 DEF Out
<1> QED BY <1>1, ReceiptsInductive, ReceiptsHandOver, PTL

(* The release starts only when the server has stopped the session, or after *)
(* a flush that made all the reports it may.                                 *)
THEOREM ReceiptsExitReportedFirst == Spec => ExitReportedFirst
<1>1. IInv /\ FInv /\ XInv /\ IInv' /\ [Next]_vars =>
        [\A t \in Threads :
           th'[t].at = "release" /\ th[t].at # "release" =>
             \/ stopped' /\ (mode = "structured" => known'[Stop] = "exit_confirmed")
             \/ th[t].at = "report" /\ th[t].n >= Limit]_vars
  BY ReleaseStep
<1> QED BY <1>1, ReceiptsInductive, ReceiptsOneFlusher, ReceiptsHandOver, PTL
     DEF Spec, ExitReportedFirst
=============================================================================
