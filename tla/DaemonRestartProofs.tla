------------------------- MODULE DaemonRestartProofs -------------------------
(***************************************************************************)
(* What a daemon finds when it comes back, for any number of restarts.     *)
(*                                                                         *)
(* First the conversations it recovers: NativeRecovery for any sessions,   *)
(* requests, operations and grants, any number of attempts and journals.   *)
(* There is one writer, one fork per request and one restart per grant, no *)
(* fork over unreconciled effects, no callback that outlives its writer.   *)
(*                                                                         *)
(* Then the run records it opens: LocalJournal, for any keys and failures. *)
(***************************************************************************)
EXTENDS NativeRecovery, LocalJournal, SequenceTheorems, FiniteSetTheorems, WellFoundedInduction, TLAPS

Attempt == [req : Requests, next : Int, complete : BOOLEAN, retain : Int]
Journal == [auto : BOOLEAN, attempts : Seq(Attempt)]

Stages == {"read", "settle", "prepare", "save", "recheck", "attempt", "complete"}
Call ==
  [stage : Stages, req : Requests, sess : Sessions, reason : Reasons, expected : Revs,
   seen : SUBSET Ops, next : Int, to : Grants]

(* The shape of the state the proof needs. *)
Kept ==
  /\ now \in Int
  /\ file \in [Sessions -> Journal] /\ disk \in [Sessions -> Journal]
  /\ forks \in [Sessions -> [Requests \X Revs -> Nat]]
  /\ restarts \in [Sessions -> [Grants -> Nat]]

Owned ==
  /\ cur \in [Sessions -> Int] /\ grant \in [Sessions -> Grants]
  /\ proc \in [Sessions -> SUBSET Int]
  /\ occupied \in [Sessions -> BOOLEAN]
  /\ callbacks \in [Sessions -> SUBSET Int]
  /\ effects \in [Sessions -> SUBSET Ops]

Called == call = Idle \/ call \in Call

Shape == Kept /\ Owned /\ Called

EntriesOf(j) == {j.attempts[i] : i \in 1..Len(j.attempts)}

(* A consumed request whose fork, if any, is not confirmed. *)
Unconfirmed(j, q) == \E a \in EntriesOf(j) : a.req = q /\ ~a.complete

(* A spent restart that is kept at least until the grant's window closes. *)
Spent(j, g) == j.auto /\ \E a \in EntriesOf(j) : a.retain >= End[g]

-----------------------------------------------------------------------------
(* Lemmas about journals.                                                   *)

(* The window that is kept covers both grants. *)
LEMMA MaxOfTwo ==
  ASSUME NEW a \in Int, NEW b \in Int
  PROVE  Max({a, b}) \in Int /\ Max({a, b}) >= a /\ Max({a, b}) >= b
<1>1. \E x \in {a, b} : \A y \in {a, b} : x >= y
  OBVIOUS
<1>2. Max({a, b}) \in {a, b} /\ \A y \in {a, b} : Max({a, b}) >= y
  BY <1>1 DEF Max
<1> QED BY <1>2

(* The windows of grants are numbers. *)
LEMMA EndsInt == \A g \in Grants : End[g] \in Int
  BY EndOk, BoundsOk

(* Revisions are integers. *)
LEMMA RevsInt == Revs \subseteq Int
  BY DEF Revs

(* A journal from its two parts. *)
LEMMA JournalOk ==
  ASSUME NEW x \in BOOLEAN, NEW u \in Seq(Attempt)
  PROVE  [auto |-> x, attempts |-> u] \in Journal
<1>1. CASE x = TRUE
  BY <1>1 DEF Journal
<1>2. CASE x = FALSE
  BY <1>2 DEF Journal
<1> QED BY <1>1, <1>2

(* The entries of a journal are attempts. *)
LEMMA EntriesAre ==
  ASSUME NEW j \in Journal
  PROVE  EntriesOf(j) \subseteq Attempt
<1>1. PICK u \in Seq(Attempt) : u = j.attempts
  BY DEF Journal
<1> QED BY <1>1 DEF EntriesOf

(* The empty journal is a journal. *)
LEMMA EmptyOk == Empty \in Journal
<1>1. <<>> \in Seq(Attempt)
  OBVIOUS
<1> QED BY <1>1, JournalOk DEF Empty

(* Consuming a request forgets nothing and records it as open. *)
LEMMA Appending ==
  ASSUME NEW j \in Journal, NEW a \in Attempt, NEW x \in BOOLEAN
  PROVE  /\ [auto |-> x, attempts |-> Append(j.attempts, a)] \in Journal
         /\ EntriesOf([auto |-> x, attempts |-> Append(j.attempts, a)]) = EntriesOf(j) \cup {a}
<1>1. j.attempts \in Seq(Attempt)
  BY DEF Journal
<1>2. PICK t \in Seq(Attempt) : t = j.attempts
  BY <1>1
<1>3. /\ Append(t, a) \in Seq(Attempt) /\ Len(Append(t, a)) = Len(t) + 1
      /\ Append(t, a)[Len(t) + 1] = a /\ Len(t) \in Nat
      /\ \A i \in 1..Len(t) : Append(t, a)[i] = t[i]
  OBVIOUS
<1>4. {Append(t, a)[i] : i \in 1..(Len(t) + 1)} = {t[i] : i \in 1..Len(t)} \cup {a}
  BY <1>3
<1> QED BY <1>2, <1>3, <1>4 DEF Journal, EntriesOf

(* Completing the last attempt keeps every request, window and spent        *)
(* restart of the journal.                                                  *)
LEMMA Completing ==
  ASSUME NEW j \in Journal, EntriesOf(j) # {},
         NEW k, k = [j EXCEPT !.attempts[Len(j.attempts)].complete = TRUE]
  PROVE  /\ k \in Journal /\ k.auto = j.auto
         /\ \A a \in EntriesOf(j) :
              \E b \in EntriesOf(k) : b.req = a.req /\ b.retain = a.retain
<1>1. PICK t \in Seq(Attempt) : t = j.attempts
  BY DEF Journal
<1>2. Len(t) \in 1..Len(t) /\ Len(t) \in Nat
  BY <1>1 DEF EntriesOf
<1>3. PICK e \in Attempt : e = [t[Len(t)] EXCEPT !.complete = TRUE]
  <2>1. t[Len(t)] \in Attempt
    BY <1>2
  <2> QED BY <2>1 DEF Attempt
<1>4. PICK u : u = [t EXCEPT ![Len(t)] = e]
  OBVIOUS
<1>5. u \in Seq(Attempt) /\ Len(u) = Len(t) /\ u[Len(t)] = e
      /\ \A i \in 1..Len(t) : i # Len(t) => u[i] = t[i]
  BY <1>2, <1>4, ExceptSeq
<1>6. k = [auto |-> j.auto, attempts |-> u]
  BY <1>1, <1>3, <1>4 DEF Journal
<1>7. e.req = t[Len(t)].req /\ e.retain = t[Len(t)].retain
  BY <1>2, <1>3 DEF Attempt
<1>8. ASSUME NEW i \in 1..Len(t)
      PROVE  \E b \in EntriesOf(k) : b.req = t[i].req /\ b.retain = t[i].retain
  <2>1. u[i].req = t[i].req /\ u[i].retain = t[i].retain
    BY <1>5, <1>7
  <2>2. u[i] \in EntriesOf(k)
    BY <1>5, <1>6 DEF EntriesOf
  <2> QED BY <2>1, <2>2
<1>9. k \in Journal /\ k.auto = j.auto
  <2>1. PICK x \in BOOLEAN : x = j.auto
    BY DEF Journal
  <2>2. k = [auto |-> x, attempts |-> u]
    BY <1>6, <2>1
  <2>3. k.auto = x
    BY <2>2
  <2>4. k \in Journal
    BY <1>5, <2>2, JournalOk, ZenonT(40)
  <2> QED BY <2>1, <2>3, <2>4
<1>10. ASSUME NEW a \in EntriesOf(j)
       PROVE  \E b \in EntriesOf(k) : b.req = a.req /\ b.retain = a.retain
  <2>1. PICK i \in 1..Len(t) : a = t[i]
    BY <1>1 DEF EntriesOf
  <2> QED BY <1>8, <2>1
<1> QED BY <1>9, <1>10

-----------------------------------------------------------------------------
(* Lemmas about calls.                                                      *)

(* A call that goes on to another stage keeps everything else. *)
LEMMA StageOk ==
  ASSUME NEW c \in Call, NEW x \in Stages, NEW d, d = [c EXCEPT !.stage = x]
  PROVE  /\ d \in Call /\ d.stage = x /\ d.req = c.req /\ d.sess = c.sess
         /\ d.reason = c.reason /\ d.expected = c.expected /\ d.seen = c.seen
         /\ d.next = c.next /\ d.to = c.to
  BY DEF Call

-----------------------------------------------------------------------------
(* The inductive invariant.                                                 *)

Busy(stages) == call # Idle /\ call.stage \in stages

(* Never two writers, and the ledger counts the one there is. *)
Writers ==
  \A s \in Sessions : (proc[s] # {} => occupied[s]) /\ \A m, n \in proc[s] : m = n

(* Past settle the call's conversation has no writer and no callback. *)
PastFence ==
  Busy({"prepare", "save", "recheck", "attempt"}) =>
    proc[call.sess] = {} /\ callbacks[call.sess] = {}

(* The effects a launch runs over were seen, and a restart saw none. *)
Reconciled ==
  /\ call # Idle /\ call.reason = "approved_restart" => call.seen = {}
  /\ Busy({"attempt"}) => effects[call.sess] \subseteq call.seen

(* An intent that forked is for a binding that moved on, or its request is  *)
(* still open in both views of the journal.                                 *)
ForksPast ==
  \A s \in Sessions, q \in Requests, r \in Revs :
    forks[s][<<q, r>>] > 0 =>
      r <= cur[s] /\ (r = cur[s] => Unconfirmed(file[s], q) /\ Unconfirmed(disk[s], q))

(* The intent of a call past its first read has not forked, its request is  *)
(* open in both views before the launch, and the launch moves the binding.  *)
Fresh ==
  /\ Busy({"settle", "prepare", "save", "recheck", "attempt"}) =>
       call.expected = cur[call.sess] /\ forks[call.sess][<<call.req, call.expected>>] = 0
  /\ Busy({"save", "recheck", "attempt"}) => call.next > cur[call.sess]
  /\ Busy({"recheck", "attempt", "complete"}) =>
       Unconfirmed(file[call.sess], call.req) /\ Unconfirmed(disk[call.sess], call.req)
  /\ Busy({"complete"}) =>
       \A q \in Requests, r \in Revs : forks[call.sess][<<q, r>>] > 0 => r < cur[call.sess]

(* A restart is remembered by both views until its window is over. *)
RestartsPast ==
  \A s \in Sessions, g \in Grants :
    restarts[s][g] > 0 => now >= End[g] \/ (Spent(file[s], g) /\ Spent(disk[s], g))

(* A restart in progress is the first under its grant, and both views say   *)
(* so before the launch.                                                    *)
FirstRestart ==
  call # Idle /\ call.reason = "approved_restart" =>
    /\ Busy({"settle", "prepare", "save", "recheck", "attempt"}) =>
         restarts[call.sess][grant[call.sess]] = 0
    /\ Busy({"recheck", "attempt"}) =>
         Spent(file[call.sess], grant[call.sess]) /\ Spent(disk[call.sess], grant[call.sess])

IInv ==
  /\ Shape /\ Writers /\ OldCallbacksExpired /\ PastFence /\ Reconciled
  /\ ForksPast /\ Fresh /\ RequestForksOnce
  /\ RestartsPast /\ FirstRestart /\ OneRestartPerGrant

(* The call in progress. *)
LEMMA TheCall ==
  ASSUME Called, call # Idle
  PROVE  \E c \in Call, s \in Sessions :
           /\ call # Idle /\ c = call /\ s = c.sess /\ c.req \in Requests
           /\ c.reason \in Reasons /\ c.expected \in Revs
           /\ c.seen \subseteq Ops /\ c.next \in Int /\ c.to \in Grants
  BY DEF Called, Call

(* A launch counts one fork for its intent and, when it is a restart, one   *)
(* for its grant, and the request stays open and the restart spent.         *)
LEMMA Forking ==
  ASSUME Shape, Fresh, FirstRestart, RequestForksOnce, OneRestartPerGrant,
         call # Idle, call.stage = "attempt", Forked
  PROVE  /\ forks' \in [Sessions -> [Requests \X Revs -> Nat]]
         /\ restarts' \in [Sessions -> [Grants -> Nat]]
         /\ RequestForksOnce' /\ OneRestartPerGrant'
         /\ \A s \in Sessions, q \in Requests, r \in Revs :
              forks'[s][<<q, r>>] > 0 =>
                \/ forks[s][<<q, r>>] > 0
                \/ s = call.sess /\ r = cur[s] /\ Unconfirmed(file[s], q) /\ Unconfirmed(disk[s], q)
         /\ \A s \in Sessions, g \in Grants :
              restarts'[s][g] > 0 =>
                restarts[s][g] > 0 \/ (Spent(file[s], g) /\ Spent(disk[s], g))
<1> USE RevsInt
<1>1. PICK c \in Call, s \in Sessions :
        /\ call # Idle /\ c = call /\ s = c.sess /\ c.req \in Requests
        /\ c.reason \in Reasons /\ c.expected \in Revs
        /\ c.seen \subseteq Ops /\ c.next \in Int /\ c.to \in Grants
  BY TheCall DEF Shape
<1>2. PICK p \in Requests \X Revs : p = <<c.req, c.expected>>
  BY <1>1
<1>3. /\ c.expected = cur[s] /\ forks[s][p] = 0
      /\ forks \in [Sessions -> [Requests \X Revs -> Nat]]
      /\ Unconfirmed(file[s], c.req) /\ Unconfirmed(disk[s], c.req)
  BY <1>1, <1>2 DEF Fresh, Busy, Shape, Kept
<1>4. forks' = [forks EXCEPT ![s][p] = @ + 1]
  BY <1>1, <1>2 DEF Forked
<1>5. /\ forks' \in [Sessions -> [Requests \X Revs -> Nat]]
      /\ \A u \in Sessions, i \in Requests \X Revs :
           forks'[u][i] = IF u = s /\ i = p THEN 1 ELSE forks[u][i]
  <2>1. PICK I : I = Requests \X Revs
    OBVIOUS
  <2>2. forks \in [Sessions -> [I -> Nat]] /\ p \in I
    BY <1>2, <1>3, <2>1
  <2>3. /\ forks' \in [Sessions -> [I -> Nat]]
        /\ \A u \in Sessions, i \in I :
             forks'[u][i] = IF u = s /\ i = p THEN 1 ELSE forks[u][i]
    BY <1>3, <1>4, <2>2
  <2> QED BY <2>1, <2>3
<1>6. RequestForksOnce'
  BY <1>5 DEF RequestForksOnce
<1>7. ASSUME NEW u \in Sessions, NEW q \in Requests, NEW r \in Revs, forks'[u][<<q, r>>] > 0
      PROVE  \/ forks[u][<<q, r>>] > 0
             \/ u = call.sess /\ r = cur[u] /\ Unconfirmed(file[u], q) /\ Unconfirmed(disk[u], q)
  <2>1. PICK i \in Requests \X Revs : i = <<q, r>>
    OBVIOUS
  <2>2. CASE u = s /\ i = p
    BY <1>1, <1>2, <1>3, <2>1, <2>2
  <2>3. CASE ~(u = s /\ i = p)
    BY <1>5, <1>7, <2>1, <2>3
  <2> QED BY <2>2, <2>3
<1>8. CASE c.reason # "approved_restart"
  <2>1. restarts' = restarts
    BY <1>1, <1>8 DEF Forked
  <2> QED BY <1>5, <1>6, <1>7, <2>1 DEF Shape, Kept, OneRestartPerGrant
<1>9. CASE c.reason = "approved_restart"
  <2>1. PICK h \in Grants : h = grant[s]
    BY DEF Shape, Owned
  <2>2. /\ restarts[s][h] = 0 /\ restarts \in [Sessions -> [Grants -> Nat]]
        /\ Spent(file[s], h) /\ Spent(disk[s], h)
    BY <1>1, <1>9, <2>1 DEF FirstRestart, Busy, Shape, Kept
  <2>3. restarts' = [restarts EXCEPT ![s][h] = @ + 1]
    BY <1>1, <1>9, <2>1 DEF Forked
  <2>4. /\ restarts' \in [Sessions -> [Grants -> Nat]]
        /\ \A u \in Sessions, g \in Grants :
             restarts'[u][g] = IF u = s /\ g = h THEN 1 ELSE restarts[u][g]
    BY <2>2, <2>3
  <2>5. OneRestartPerGrant'
    BY <2>4 DEF OneRestartPerGrant
  <2> QED BY <1>5, <1>6, <1>7, <2>2, <2>4, <2>5
<1> QED BY <1>8, <1>9

(* Every step keeps the invariant. *)
LEMMA StepOk == IInv /\ [Next]_vars => IInv'
<1> SUFFICES ASSUME IInv, [Next]_vars
             PROVE  IInv'
  OBVIOUS
<1> USE EndsInt, RevsInt
<1>0. /\ Shape /\ Writers /\ OldCallbacksExpired /\ PastFence /\ Reconciled
      /\ ForksPast /\ Fresh /\ RequestForksOnce
      /\ RestartsPast /\ FirstRestart /\ OneRestartPerGrant
  BY DEF IInv
<1>1. CASE UNCHANGED vars
  <2>1. /\ UNCHANGED <<now, file, disk, call, poisoned, cur, grant, proc, occupied,
                       callbacks, effects, forks, restarts>>
    BY <1>1 DEF vars, journals, owner, history
  <2>2. Shape'
    <3>1. Kept'
      BY <1>0, <2>1 DEF Shape, Kept
    <3>2. Owned'
      BY <1>0, <2>1 DEF Shape, Owned
    <3>3. Called'
      BY <1>0, <2>1 DEF Shape, Called, Call, Stages
    <3> QED BY <3>1, <3>2, <3>3 DEF Shape
  <2>3. Writers' /\ OldCallbacksExpired' /\ PastFence'
    BY <1>0, <2>1 DEF Shape, Owned, Writers, OldCallbacksExpired, Called, PastFence, Busy,
       Call
  <2>4. Reconciled'
    BY <1>0, <2>1 DEF Shape, Owned, Called, Reconciled, Busy, Call
  <2>5. ForksPast' /\ Fresh' /\ RequestForksOnce'
    BY <1>0, <2>1 DEF Shape, Kept, Owned, ForksPast, Called, Fresh, Busy, Call,
       RequestForksOnce
  <2>6. RestartsPast' /\ FirstRestart' /\ OneRestartPerGrant'
    BY <1>0, <2>1 DEF Shape, Kept, RestartsPast, Owned, Called, FirstRestart, Busy, Call,
       OneRestartPerGrant
  <2> QED BY <2>2, <2>3, <2>4, <2>5, <2>6 DEF IInv
<1>2. CASE Tick
  <2>1. /\ now' \in Int /\ now' >= now
        /\ UNCHANGED <<file, disk, call, poisoned, cur, grant, proc, occupied, callbacks,
                       effects, forks, restarts>>
    BY <1>0, <1>2 DEF Tick, Shape, Kept, vars, journals, owner, history
  <2>2. Shape'
    <3>1. Kept'
      BY <1>0, <2>1 DEF Shape, Kept
    <3>2. Owned'
      BY <1>0, <2>1 DEF Shape, Owned
    <3>3. Called'
      BY <1>0, <2>1 DEF Shape, Called, Call, Stages
    <3> QED BY <3>1, <3>2, <3>3 DEF Shape
  <2>3. Writers' /\ OldCallbacksExpired' /\ PastFence'
    BY <1>0, <2>1 DEF Shape, Owned, Writers, OldCallbacksExpired, Called, PastFence, Busy,
       Call
  <2>4. Reconciled'
    BY <1>0, <2>1 DEF Shape, Owned, Called, Reconciled, Busy, Call
  <2>5. ForksPast' /\ Fresh' /\ RequestForksOnce'
    BY <1>0, <2>1 DEF Shape, Kept, Owned, ForksPast, Called, Fresh, Busy, Call,
       RequestForksOnce
  <2>6. RestartsPast' /\ FirstRestart' /\ OneRestartPerGrant'
    BY <1>0, <2>1 DEF Shape, Kept, RestartsPast, Owned, Called, FirstRestart, Busy, Call,
       OneRestartPerGrant
  <2> QED BY <2>2, <2>3, <2>4, <2>5, <2>6 DEF IInv
<1>3. CASE Crash
  <2>1. /\ call' = Idle
        /\ file' = file \/ file' = disk
        /\ UNCHANGED <<now, disk, cur, grant, proc, occupied, callbacks, effects, forks,
                       restarts>>
    BY <1>3 DEF Crash, vars, journals, owner, history
  <2>2. Shape'
    <3>1. Kept'
      BY <1>0, <2>1 DEF Shape, Kept
    <3>2. Owned'
      BY <1>0, <2>1 DEF Shape, Owned
    <3>3. Called'
      BY <1>0, <2>1 DEF Shape, Called, Call, Stages
    <3> QED BY <3>1, <3>2, <3>3 DEF Shape
  <2>3. Writers' /\ OldCallbacksExpired' /\ PastFence'
    BY <1>0, <2>1 DEF Shape, Owned, Writers, OldCallbacksExpired, Called, PastFence, Busy,
       Call
  <2>4. Reconciled'
    BY <1>0, <2>1 DEF Shape, Owned, Called, Reconciled, Busy, Call
  <2>5. ForksPast' /\ Fresh' /\ RequestForksOnce'
    BY <1>0, <2>1 DEF Shape, Kept, Owned, ForksPast, Called, Fresh, Busy, Call,
       RequestForksOnce
  <2>6. RestartsPast' /\ FirstRestart' /\ OneRestartPerGrant'
    BY <1>0, <2>1 DEF Shape, Kept, RestartsPast, Owned, Called, FirstRestart, Busy, Call,
       OneRestartPerGrant
  <2> QED BY <2>2, <2>3, <2>4, <2>5, <2>6 DEF IInv
<1>4. CASE NewCoordinator
  <2>1. /\ UNCHANGED <<now, file, disk, call, cur, grant, proc, occupied, callbacks,
                       effects, forks, restarts>>
    BY <1>4 DEF NewCoordinator, vars, journals, owner, history
  <2>2. Shape'
    <3>1. Kept'
      BY <1>0, <2>1 DEF Shape, Kept
    <3>2. Owned'
      BY <1>0, <2>1 DEF Shape, Owned
    <3>3. Called'
      BY <1>0, <2>1 DEF Shape, Called, Call, Stages
    <3> QED BY <3>1, <3>2, <3>3 DEF Shape
  <2>3. Writers' /\ OldCallbacksExpired' /\ PastFence'
    BY <1>0, <2>1 DEF Shape, Owned, Writers, OldCallbacksExpired, Called, PastFence, Busy,
       Call
  <2>4. Reconciled'
    BY <1>0, <2>1 DEF Shape, Owned, Called, Reconciled, Busy, Call
  <2>5. ForksPast' /\ Fresh' /\ RequestForksOnce'
    BY <1>0, <2>1 DEF Shape, Kept, Owned, ForksPast, Called, Fresh, Busy, Call,
       RequestForksOnce
  <2>6. RestartsPast' /\ FirstRestart' /\ OneRestartPerGrant'
    BY <1>0, <2>1 DEF Shape, Kept, RestartsPast, Owned, Called, FirstRestart, Busy, Call,
       OneRestartPerGrant
  <2> QED BY <2>2, <2>3, <2>4, <2>5, <2>6 DEF IInv
<1>5. CASE Fail
  <2>1. /\ call' = Idle
        /\ UNCHANGED <<now, file, disk, cur, grant, proc, occupied, callbacks, effects,
                       forks, restarts>>
    BY <1>5 DEF Fail, vars, journals, owner, history
  <2>2. Shape'
    <3>1. Kept'
      BY <1>0, <2>1 DEF Shape, Kept
    <3>2. Owned'
      BY <1>0, <2>1 DEF Shape, Owned
    <3>3. Called'
      BY <1>0, <2>1 DEF Shape, Called, Call, Stages
    <3> QED BY <3>1, <3>2, <3>3 DEF Shape
  <2>3. Writers' /\ OldCallbacksExpired' /\ PastFence'
    BY <1>0, <2>1 DEF Shape, Owned, Writers, OldCallbacksExpired, Called, PastFence, Busy,
       Call
  <2>4. Reconciled'
    BY <1>0, <2>1 DEF Shape, Owned, Called, Reconciled, Busy, Call
  <2>5. ForksPast' /\ Fresh' /\ RequestForksOnce'
    BY <1>0, <2>1 DEF Shape, Kept, Owned, ForksPast, Called, Fresh, Busy, Call,
       RequestForksOnce
  <2>6. RestartsPast' /\ FirstRestart' /\ OneRestartPerGrant'
    BY <1>0, <2>1 DEF Shape, Kept, RestartsPast, Owned, Called, FirstRestart, Busy, Call,
       OneRestartPerGrant
  <2> QED BY <2>2, <2>3, <2>4, <2>5, <2>6 DEF IInv
<1>6. ASSUME NEW s \in Sessions, WriterExits(s)
      PROVE  IInv'
  <2>1. /\ proc' = [proc EXCEPT ![s] = {}]
        /\ UNCHANGED <<now, file, disk, call, cur, grant, occupied, callbacks, effects,
                       forks, restarts>>
    BY <1>6 DEF WriterExits, vars, journals, owner, history
  <2>2. Shape'
    <3>1. Kept'
      BY <1>0, <2>1 DEF Shape, Kept
    <3>2. Owned'
      BY <1>0, <2>1 DEF Shape, Owned
    <3>3. Called'
      BY <1>0, <2>1 DEF Shape, Called, Call, Stages
    <3> QED BY <3>1, <3>2, <3>3 DEF Shape
  <2>3. Writers' /\ OldCallbacksExpired' /\ PastFence'
    BY <1>0, <2>1 DEF Shape, Owned, Writers, OldCallbacksExpired, Called, PastFence, Busy,
       Call
  <2>4. Reconciled'
    BY <1>0, <2>1 DEF Shape, Owned, Called, Reconciled, Busy, Call
  <2>5. ForksPast' /\ Fresh' /\ RequestForksOnce'
    BY <1>0, <2>1 DEF Shape, Kept, Owned, ForksPast, Called, Fresh, Busy, Call,
       RequestForksOnce
  <2>6. RestartsPast' /\ FirstRestart' /\ OneRestartPerGrant'
    BY <1>0, <2>1 DEF Shape, Kept, RestartsPast, Owned, Called, FirstRestart, Busy, Call,
       OneRestartPerGrant
  <2> QED BY <2>2, <2>3, <2>4, <2>5, <2>6 DEF IInv
<1>7. ASSUME NEW s \in Sessions, NEW o \in Ops, EffectStarts(s, o) \/ EffectSettles(s, o)
      PROVE  IInv'
  <2>1. /\ (proc[s] # {} /\ effects' = [effects EXCEPT ![s] = @ \cup {o}]) \/ effects' = [effects EXCEPT ![s] = @ \ {o}]
        /\ UNCHANGED <<now, file, disk, call, cur, grant, proc, occupied, callbacks,
                       forks, restarts>>
    BY <1>7 DEF EffectStarts, EffectSettles, vars, journals, owner, history
  <2>2. Shape'
    <3>1. Kept'
      BY <1>0, <2>1 DEF Shape, Kept
    <3>2. Owned'
      BY <1>0, <2>1 DEF Shape, Owned
    <3>3. Called'
      BY <1>0, <2>1 DEF Shape, Called, Call, Stages
    <3> QED BY <3>1, <3>2, <3>3 DEF Shape
  <2>3. Writers' /\ OldCallbacksExpired' /\ PastFence'
    BY <1>0, <2>1 DEF Shape, Owned, Writers, OldCallbacksExpired, Called, PastFence, Busy,
       Call
  <2>4. Reconciled'
    BY <1>0, <2>1 DEF Shape, Owned, Called, Reconciled, PastFence, Busy, Call
  <2>5. ForksPast' /\ Fresh' /\ RequestForksOnce'
    BY <1>0, <2>1 DEF Shape, Kept, Owned, ForksPast, Called, Fresh, Busy, Call,
       RequestForksOnce
  <2>6. RestartsPast' /\ FirstRestart' /\ OneRestartPerGrant'
    BY <1>0, <2>1 DEF Shape, Kept, RestartsPast, Owned, Called, FirstRestart, Busy, Call,
       OneRestartPerGrant
  <2> QED BY <2>2, <2>3, <2>4, <2>5, <2>6 DEF IInv
<1>8. ASSUME NEW s \in Sessions, TakeOver(s)
      PROVE  IInv'
  <2>1. /\ call # Idle => call.sess # s
        /\ cur' = [cur EXCEPT ![s] = @ + 1]
        /\ proc' = [proc EXCEPT ![s] = {cur[s] + 1}]
        /\ occupied' = [occupied EXCEPT ![s] = TRUE]
        /\ callbacks' = [callbacks EXCEPT ![s] = {cur[s] + 1}]
        /\ effects' = [effects EXCEPT ![s] = {}]
        /\ UNCHANGED <<now, file, disk, call, grant, forks, restarts>>
    BY <1>8 DEF TakeOver, vars, journals, owner, history
  <2>2. Shape'
    <3>1. Kept'
      BY <1>0, <2>1 DEF Shape, Kept
    <3>2. Owned'
      BY <1>0, <2>1 DEF Shape, Owned
    <3>3. Called'
      BY <1>0, <2>1 DEF Shape, Called, Call, Stages
    <3> QED BY <3>1, <3>2, <3>3 DEF Shape
  <2>3. Writers' /\ OldCallbacksExpired' /\ PastFence'
    BY <1>0, <2>1 DEF Shape, Owned, Writers, OldCallbacksExpired, Called, PastFence, Busy,
       Call
  <2>4. Reconciled'
    BY <1>0, <2>1 DEF Shape, Owned, Called, Reconciled, Busy, Call
  <2>5. ForksPast' /\ Fresh' /\ RequestForksOnce'
    BY <1>0, <2>1 DEF Shape, Kept, Owned, ForksPast, Called, Fresh, Busy, Call,
       RequestForksOnce
  <2>6. RestartsPast' /\ FirstRestart' /\ OneRestartPerGrant'
    BY <1>0, <2>1 DEF Shape, Kept, RestartsPast, Owned, Called, FirstRestart, Busy, Call,
       OneRestartPerGrant
  <2> QED BY <2>2, <2>3, <2>4, <2>5, <2>6 DEF IInv
<1>9. ASSUME NEW s \in Sessions, Reconcile(s)
      PROVE  IInv'
  <2>1. /\ call = Idle
        /\ callbacks' = [callbacks EXCEPT ![s] = @ \ {cur[s]}]
        /\ (proc[s] = {} /\ occupied' = [occupied EXCEPT ![s] = FALSE]) \/ occupied' = occupied
        /\ UNCHANGED <<now, file, disk, call, cur, grant, proc, effects, forks, restarts>>
    BY <1>9 DEF Reconcile, SettleOk, SettleFails, Expired, vars, journals, owner, history
  <2>2. Shape'
    <3>1. Kept'
      BY <1>0, <2>1 DEF Shape, Kept
    <3>2. Owned'
      BY <1>0, <2>1 DEF Shape, Owned
    <3>3. Called'
      BY <1>0, <2>1 DEF Shape, Called, Call, Stages
    <3> QED BY <3>1, <3>2, <3>3 DEF Shape
  <2>3. Writers' /\ OldCallbacksExpired' /\ PastFence'
    <3>1. CASE proc[s] = {} /\ occupied' = [occupied EXCEPT ![s] = FALSE]
      BY <1>0, <2>1, <3>1 DEF Shape, Owned, Writers, OldCallbacksExpired, PastFence, Busy
    <3>2. CASE occupied' = occupied
      BY <1>0, <2>1, <3>2 DEF Shape, Owned, Writers, OldCallbacksExpired, PastFence, Busy
    <3> QED BY <2>1, <3>1, <3>2
  <2>4. Reconciled'
    BY <1>0, <2>1 DEF Shape, Owned, Called, Reconciled, Busy, Call
  <2>5. ForksPast' /\ Fresh' /\ RequestForksOnce'
    BY <1>0, <2>1 DEF Shape, Kept, Owned, ForksPast, Called, Fresh, Busy, Call,
       RequestForksOnce
  <2>6. RestartsPast' /\ FirstRestart' /\ OneRestartPerGrant'
    BY <1>0, <2>1 DEF Shape, Kept, RestartsPast, Owned, Called, FirstRestart, Busy, Call,
       OneRestartPerGrant
  <2> QED BY <2>2, <2>3, <2>4, <2>5, <2>6 DEF IInv
<1>10. ASSUME NEW s \in Sessions, NEW q \in Requests, NEW reason \in Reasons, NEW r \in Revs,
               Resume(q, s, reason, r)
       PROVE  IInv'
  <2>0. grant[s] \in Grants
    BY <1>0 DEF Shape, Owned
  <2>1. /\ call' \in Call /\ call'.stage = "read" /\ call'.seen = {}
        /\ UNCHANGED <<now, file, disk, cur, grant, proc, occupied, callbacks, effects,
                       forks, restarts>>
    BY <1>10, <2>0 DEF Resume, Call, Stages, vars, journals, owner, history
  <2>2. Shape'
    <3>1. Kept'
      BY <1>0, <2>0, <2>1 DEF Shape, Kept
    <3>2. Owned'
      BY <1>0, <2>0, <2>1 DEF Shape, Owned
    <3> QED BY <2>1, <3>1, <3>2 DEF Shape, Called
  <2>3. Writers' /\ OldCallbacksExpired' /\ PastFence'
    BY <1>0, <2>0, <2>1 DEF Shape, Owned, Writers, OldCallbacksExpired, Called, PastFence,
       Busy
  <2>4. Reconciled'
    BY <1>0, <2>0, <2>1 DEF Shape, Owned, Called, Reconciled, Busy
  <2>5. ForksPast' /\ Fresh' /\ RequestForksOnce'
    BY <1>0, <2>0, <2>1 DEF Shape, Kept, Owned, ForksPast, Called, Fresh, Busy,
       RequestForksOnce
  <2>6. RestartsPast' /\ FirstRestart' /\ OneRestartPerGrant'
    BY <1>0, <2>0, <2>1 DEF Shape, Kept, RestartsPast, Owned, Called, FirstRestart, Busy,
       OneRestartPerGrant
  <2> QED BY <2>2, <2>3, <2>4, <2>5, <2>6 DEF IInv
<1>11. CASE ReadState
  <2>0. PICK c \in Call, s \in Sessions :
          /\ call # Idle /\ c = call /\ s = c.sess /\ c.req \in Requests
          /\ c.reason \in Reasons /\ c.expected \in Revs
          /\ c.seen \subseteq Ops /\ c.next \in Int /\ c.to \in Grants
    BY <1>0, <1>11, TheCall DEF ReadState, Shape
  <2>1. PICK d \in Call :
          /\ call' = d /\ d.stage = "settle" /\ d.req = c.req /\ d.sess = s
          /\ d.reason = c.reason
          /\ d.expected = c.expected /\ d.seen = effects[s] /\ d.next = c.next /\ d.to = c.to
          /\ c.expected = cur[s] /\ ~Consumed(s, c.req)
          /\ c.reason = "approved_restart" => ~file[s].auto /\ now < End[grant[s]] /\ effects[s] = {}
          /\ UNCHANGED <<now, file, disk, cur, grant, proc, occupied, callbacks, effects,
                         forks, restarts>>
    <3>1. effects[s] \in SUBSET Ops
      BY <1>0 DEF Shape, Owned
    <3>2. PICK d : d = [c EXCEPT !.stage = "settle", !.seen = effects[s]]
      OBVIOUS
    <3>3. /\ call' = d /\ c.expected = cur[s] /\ ~Consumed(s, c.req)
          /\ c.reason = "approved_restart" => ~file[s].auto /\ now < End[grant[s]] /\ effects[s] = {}
          /\ UNCHANGED <<now, file, disk, cur, grant, proc, occupied, callbacks, effects,
                         forks, restarts>>
      BY <1>11, <2>0, <3>2 DEF ReadState, Effects, Bounded, vars, journals, owner, history
    <3>4. /\ d \in Call /\ d.stage = "settle" /\ d.req = c.req /\ d.sess = c.sess
          /\ d.reason = c.reason /\ d.expected = c.expected /\ d.seen = effects[s]
          /\ d.next = c.next /\ d.to = c.to
      BY <3>1, <3>2 DEF Call, Stages
    <3> QED BY <2>0, <3>3, <3>4
  <2>2. Shape'
    <3>1. Kept'
      BY <1>0, <2>0, <2>1 DEF Shape, Kept
    <3>2. Owned'
      BY <1>0, <2>0, <2>1 DEF Shape, Owned
    <3> QED BY <2>1, <3>1, <3>2 DEF Shape, Called
  <2>3. Writers' /\ OldCallbacksExpired' /\ PastFence'
    BY <1>0, <2>0, <2>1 DEF Shape, Owned, Writers, OldCallbacksExpired, Called, PastFence,
       Busy
  <2>4. Reconciled'
    BY <1>0, <2>0, <2>1 DEF Shape, Owned, Called, Reconciled, Busy
  <2>5. ForksPast' /\ Fresh' /\ RequestForksOnce'
    <3>1. ~Unconfirmed(file[s], c.req)
      BY <2>1 DEF Consumed, Unconfirmed, Entries, EntriesOf
    <3>2. forks[s][<<c.req, c.expected>>] = 0
      BY <1>0, <2>0, <2>1, <3>1 DEF Shape, Kept, Owned, ForksPast
    <3> QED BY <1>0, <2>0, <2>1, <3>2 DEF ForksPast, Fresh, Busy, RequestForksOnce
  <2>6. RestartsPast' /\ FirstRestart' /\ OneRestartPerGrant'
    <3>1. c.reason = "approved_restart" => restarts[s][grant[s]] = 0
      <4>1. grant[s] \in Grants /\ restarts[s][grant[s]] \in Nat /\ now \in Int
        BY <1>0 DEF Shape, Kept, Owned
      <4> QED BY <1>0, <2>0, <2>1, <4>1 DEF RestartsPast, Spent
    <3> QED BY <1>0, <2>0, <2>1, <3>1 DEF RestartsPast, FirstRestart, Busy,
               OneRestartPerGrant
  <2> QED BY <2>2, <2>3, <2>4, <2>5, <2>6 DEF IInv
<1>12. CASE Recheck
  <2>0. PICK c \in Call, s \in Sessions :
          /\ call # Idle /\ c = call /\ s = c.sess /\ c.req \in Requests
          /\ c.reason \in Reasons /\ c.expected \in Revs
          /\ c.seen \subseteq Ops /\ c.next \in Int /\ c.to \in Grants
    BY <1>0, <1>12, TheCall DEF Recheck, Shape
  <2>1. PICK d \in Call :
          /\ call' = d /\ d.stage = "attempt" /\ d.req = c.req /\ d.sess = s
          /\ d.reason = c.reason
          /\ d.expected = c.expected /\ d.seen = c.seen /\ d.next = c.next /\ d.to = c.to
          /\ c.stage = "recheck" /\ effects[s] = c.seen
          /\ UNCHANGED <<now, file, disk, cur, grant, proc, occupied, callbacks, effects,
                         forks, restarts>>
    <3>1. PICK d : d = [c EXCEPT !.stage = "attempt"]
      OBVIOUS
    <3>2. call' = d /\ c.stage = "recheck" /\ effects[s] = c.seen /\ UNCHANGED <<now,
                                                                                 file,
                                                                                 disk,
                                                                                 cur,
                                                                                 grant,
                                                                                 proc,
                                                                                 occupied,
                                                                                 callbacks,
                                                                                 effects,
                                                                                 forks,
                                                                                 restarts>>
      BY <1>12, <2>0, <3>1 DEF Recheck, Stage, Effects, vars, journals, owner, history
    <3>3. "attempt" \in Stages
      BY DEF Stages
    <3> QED BY <2>0, <3>1, <3>2, <3>3, StageOk
  <2>2. Shape'
    <3>1. Kept'
      BY <1>0, <2>0, <2>1 DEF Shape, Kept
    <3>2. Owned'
      BY <1>0, <2>0, <2>1 DEF Shape, Owned
    <3> QED BY <2>1, <3>1, <3>2 DEF Shape, Called
  <2>3. Writers' /\ OldCallbacksExpired' /\ PastFence'
    BY <1>0, <2>0, <2>1 DEF Shape, Owned, Writers, OldCallbacksExpired, Called, PastFence,
       Busy
  <2>4. Reconciled'
    BY <1>0, <2>0, <2>1 DEF Shape, Owned, Called, Reconciled, Busy
  <2>5. ForksPast' /\ Fresh' /\ RequestForksOnce'
    BY <1>0, <2>0, <2>1 DEF Shape, Kept, Owned, ForksPast, Called, Fresh, Busy,
       RequestForksOnce
  <2>6. RestartsPast' /\ FirstRestart' /\ OneRestartPerGrant'
    BY <1>0, <2>0, <2>1 DEF Shape, Kept, RestartsPast, Owned, Called, FirstRestart, Busy,
       OneRestartPerGrant
  <2> QED BY <2>2, <2>3, <2>4, <2>5, <2>6 DEF IInv
<1>13. ASSUME NEW n \in Revs, NEW g \in Grants, Prepare(n, g)
       PROVE  IInv'
  <2>0. PICK c \in Call, s \in Sessions :
          /\ call # Idle /\ c = call /\ s = c.sess /\ c.req \in Requests
          /\ c.reason \in Reasons /\ c.expected \in Revs
          /\ c.seen \subseteq Ops /\ c.next \in Int /\ c.to \in Grants
    BY <1>0, <1>13, TheCall DEF Prepare, Shape
  <2>1. PICK d \in Call :
          /\ call' = d /\ d.stage = "save" /\ d.req = c.req /\ d.sess = s
          /\ d.reason = c.reason
          /\ d.expected = c.expected /\ d.seen = c.seen /\ d.next = n /\ d.to = g
          /\ c.stage = "prepare" /\ n > cur[s]
          /\ UNCHANGED <<now, file, disk, cur, grant, proc, occupied, callbacks, effects,
                         forks, restarts>>
    <3>1. PICK d : d = [c EXCEPT !.stage = "save", !.next = n, !.to = g]
      OBVIOUS
    <3>2. call' = d /\ c.stage = "prepare" /\ n > cur[s] /\ UNCHANGED <<now, file, disk,
                                                                        cur, grant, proc,
                                                                        occupied,
                                                                        callbacks,
                                                                        effects, forks,
                                                                        restarts>>
      BY <1>13, <2>0, <3>1 DEF Prepare, Valid, vars, journals, owner, history
    <3>3. n \in Int
      OBVIOUS
    <3>4. /\ d \in Call /\ d.stage = "save" /\ d.req = c.req /\ d.sess = c.sess
          /\ d.reason = c.reason /\ d.expected = c.expected /\ d.seen = c.seen
          /\ d.next = n /\ d.to = g
      BY <3>1, <3>3 DEF Call, Stages
    <3> QED BY <2>0, <3>2, <3>4
  <2>2. Shape'
    <3>1. Kept'
      BY <1>0, <2>0, <2>1 DEF Shape, Kept
    <3>2. Owned'
      BY <1>0, <2>0, <2>1 DEF Shape, Owned
    <3> QED BY <2>1, <3>1, <3>2 DEF Shape, Called
  <2>3. Writers' /\ OldCallbacksExpired' /\ PastFence'
    BY <1>0, <2>0, <2>1 DEF Shape, Owned, Writers, OldCallbacksExpired, Called, PastFence,
       Busy
  <2>4. Reconciled'
    BY <1>0, <2>0, <2>1 DEF Shape, Owned, Called, Reconciled, Busy
  <2>5. ForksPast' /\ Fresh' /\ RequestForksOnce'
    BY <1>0, <2>0, <2>1 DEF Shape, Kept, Owned, ForksPast, Called, Fresh, Busy,
       RequestForksOnce
  <2>6. RestartsPast' /\ FirstRestart' /\ OneRestartPerGrant'
    BY <1>0, <2>0, <2>1 DEF Shape, Kept, RestartsPast, Owned, Called, FirstRestart, Busy,
       OneRestartPerGrant
  <2> QED BY <2>2, <2>3, <2>4, <2>5, <2>6 DEF IInv
<1>14. CASE Settle
  <2>0. PICK c \in Call, s \in Sessions :
          /\ call # Idle /\ c = call /\ s = c.sess /\ c.req \in Requests
          /\ c.reason \in Reasons /\ c.expected \in Revs
          /\ c.seen \subseteq Ops /\ c.next \in Int /\ c.to \in Grants
    BY <1>0, <1>14, TheCall DEF Settle, Shape
  <2>1. CASE SettleOk(s) /\ Stage("prepare")
    <3>1. PICK d \in Call :
          /\ call' = d /\ d.stage = "prepare" /\ d.req = c.req /\ d.sess = s
          /\ d.reason = c.reason
          /\ d.expected = c.expected /\ d.seen = c.seen /\ d.next = c.next /\ d.to = c.to
          /\ c.stage = "settle" /\ proc[s] = {}
          /\ callbacks' = [callbacks EXCEPT ![s] = @ \ {cur[s]}]
          /\ occupied' = [occupied EXCEPT ![s] = FALSE]
          /\ UNCHANGED <<now, file, disk, cur, grant, proc, effects, forks, restarts>>
      <4>1. PICK d : d = [c EXCEPT !.stage = "prepare"]
        OBVIOUS
      <4>2. /\ call' = d /\ c.stage = "settle" /\ proc[s] = {}
            /\ callbacks' = [callbacks EXCEPT ![s] = @ \ {cur[s]}]
            /\ occupied' = [occupied EXCEPT ![s] = FALSE]
            /\ UNCHANGED <<now, file, disk, cur, grant, proc, effects, forks, restarts>>
        BY <1>14, <2>0, <2>1, <4>1 DEF Settle, SettleOk, Expired, Stage, vars, journals,
           owner, history
      <4>3. "prepare" \in Stages
        BY DEF Stages
      <4> QED BY <2>0, <4>1, <4>2, <4>3, StageOk
    <3>2. Shape'
      <4>1. Kept'
        BY <1>0, <2>0, <3>1 DEF Shape, Kept
      <4>2. Owned'
        BY <1>0, <2>0, <3>1 DEF Shape, Owned
      <4> QED BY <3>1, <4>1, <4>2 DEF Shape, Called
    <3>3. Writers' /\ OldCallbacksExpired' /\ PastFence'
      BY <1>0, <2>0, <3>1 DEF Shape, Owned, Writers, OldCallbacksExpired, Called, PastFence,
         Busy
    <3>4. Reconciled'
      BY <1>0, <2>0, <3>1 DEF Shape, Owned, Called, Reconciled, Busy
    <3>5. ForksPast' /\ Fresh' /\ RequestForksOnce'
      BY <1>0, <2>0, <3>1 DEF Shape, Kept, Owned, ForksPast, Called, Fresh, Busy,
         RequestForksOnce
    <3>6. RestartsPast' /\ FirstRestart' /\ OneRestartPerGrant'
      BY <1>0, <2>0, <3>1 DEF Shape, Kept, RestartsPast, Owned, Called, FirstRestart,
         Busy, OneRestartPerGrant
    <3> QED BY <3>2, <3>3, <3>4, <3>5, <3>6 DEF IInv
  <2>2. CASE SettleFails(s) /\ call' = Idle
    <3>1. /\ call' = Idle
          /\ callbacks' = [callbacks EXCEPT ![s] = @ \ {cur[s]}]
          /\ UNCHANGED <<now, file, disk, cur, grant, proc, occupied, effects, forks,
                         restarts>>
      BY <1>14, <2>0, <2>2 DEF Settle, SettleFails, Expired, vars, journals, owner, history
    <3>2. Shape'
      <4>1. Kept'
        BY <1>0, <2>0, <3>1 DEF Shape, Kept
      <4>2. Owned'
        BY <1>0, <2>0, <3>1 DEF Shape, Owned
      <4> QED BY <3>1, <4>1, <4>2 DEF Shape, Called
    <3>3. Writers' /\ OldCallbacksExpired' /\ PastFence'
      BY <1>0, <2>0, <3>1 DEF Shape, Owned, Writers, OldCallbacksExpired, Called, PastFence,
         Busy
    <3>4. Reconciled'
      BY <1>0, <2>0, <3>1 DEF Shape, Owned, Called, Reconciled, Busy
    <3>5. ForksPast' /\ Fresh' /\ RequestForksOnce'
      BY <1>0, <2>0, <3>1 DEF Shape, Kept, Owned, ForksPast, Called, Fresh, Busy,
         RequestForksOnce
    <3>6. RestartsPast' /\ FirstRestart' /\ OneRestartPerGrant'
      BY <1>0, <2>0, <3>1 DEF Shape, Kept, RestartsPast, Owned, Called, FirstRestart,
         Busy, OneRestartPerGrant
    <3> QED BY <3>2, <3>3, <3>4, <3>5, <3>6 DEF IInv
  <2> QED BY <1>14, <2>0, <2>1, <2>2 DEF Settle
<1>15. ASSUME NEW t \in Sessions, Reclaim(t)
       PROVE  IInv'
  <2>1. /\ call # Idle /\ call.stage = "read" /\ Reclaimable(t) /\ (call' = call \/ call' = Idle)
        /\ UNCHANGED <<now, cur, grant, proc, occupied, callbacks, effects, forks, restarts>>
    BY <1>15 DEF Reclaim, vars, owner, history
  <2>2. PICK f, k \in {file[t], Empty} : file' = [file EXCEPT ![t] = f] /\ disk' = [disk EXCEPT ![t] = k]
    BY <1>15 DEF Reclaim, Saved, SaveAmbiguous
  <2>3. f \in Journal /\ k \in Journal
    BY <1>0, EmptyOk DEF Shape, Kept
  <2>4. ASSUME NEW q \in Requests
        PROVE  ~Unconfirmed(file[t], q)
    BY <2>1 DEF Reclaimable, Unconfirmed, Entries, EntriesOf
  <2>5. ASSUME NEW g \in Grants, Spent(file[t], g)
        PROVE  now >= End[g]
    <3>1. PICK a \in EntriesOf(file[t]) : a.retain >= End[g]
      BY <2>5 DEF Spent
    <3>2. file[t].auto /\ now >= a.retain
      BY <2>1, <2>5, <3>1 DEF Reclaimable, Spent, Entries, EntriesOf
    <3>3. a.retain \in Int /\ now \in Int
      <4>1. PICK j \in Journal : j = file[t]
        BY <1>0 DEF Shape, Kept
      <4>2. a \in Attempt
        BY <3>1, <4>1, EntriesAre
      <4> QED BY <1>0, <4>2 DEF Attempt, Shape, Kept
    <3> QED BY <3>1, <3>2, <3>3
  <2>6. Shape'
    <3>1. Kept'
      BY <1>0, <2>1, <2>2, <2>3 DEF Shape, Kept
    <3>2. Owned'
      BY <1>0, <2>1 DEF Shape, Owned
    <3> QED BY <1>0, <2>1, <3>1, <3>2 DEF Shape, Called
  <2>7. Writers' /\ OldCallbacksExpired' /\ PastFence'
    BY <1>0, <2>1 DEF Writers, OldCallbacksExpired, PastFence, Busy
  <2>8. Reconciled'
    BY <1>0, <2>1 DEF Reconciled, Busy
  <2>9. ForksPast' /\ Fresh' /\ RequestForksOnce'
    <3>1. ForksPast'
      BY <1>0, <2>1, <2>2, <2>4 DEF ForksPast, Shape, Kept
    <3> QED BY <1>0, <2>1, <3>1 DEF Fresh, Busy, RequestForksOnce
  <2>10. RestartsPast' /\ FirstRestart' /\ OneRestartPerGrant'
    <3>1. RestartsPast'
      BY <1>0, <2>1, <2>2, <2>5 DEF RestartsPast, Shape, Kept
    <3> QED BY <1>0, <2>1, <3>1 DEF FirstRestart, Busy, OneRestartPerGrant
  <2> QED BY <2>6, <2>7, <2>8, <2>9, <2>10 DEF IInv
<1>16. CASE SaveIntent
  <2>0. PICK c \in Call, s \in Sessions :
          /\ call # Idle /\ c = call /\ s = c.sess /\ c.req \in Requests
          /\ c.reason \in Reasons /\ c.expected \in Revs
          /\ c.seen \subseteq Ops /\ c.next \in Int /\ c.to \in Grants
    BY <1>0, <1>16, TheCall DEF SaveIntent, Shape
  <2>1. c.stage = "save" /\ UNCHANGED <<now, cur, grant, proc, occupied, callbacks,
                                        effects, forks, restarts>>
    BY <1>16, <2>0 DEF SaveIntent, vars, owner, history
  <2>2. PICK j \in Journal :
          /\ j = WithAttempt
          /\ \A q \in Requests : Unconfirmed(file[s], q) \/ q = c.req => Unconfirmed(j, q)
          /\ \A g \in Grants : Spent(file[s], g) => Spent(j, g)
          /\ c.reason = "approved_restart" => Spent(j, grant[s])
    <3>1. PICK i \in Journal, x \in BOOLEAN, y \in BOOLEAN :
            i = file[s] /\ x = i.auto /\ y = (c.reason = "approved_restart")
      BY <1>0, ZenonT(40) DEF Shape, Kept, Journal
    <3>2. PICK m \in Int : m = Max({End[grant[s]], End[c.to]}) /\ m >= End[grant[s]]
      <4>1. End[grant[s]] \in Int /\ End[c.to] \in Int
        BY <1>0, <2>0 DEF Shape, Owned
      <4> QED BY <4>1, MaxOfTwo
    <3>3. PICK a \in Attempt : a = [req |-> c.req, next |-> c.next, complete |-> FALSE, retain |-> m]
      BY <2>0, <3>2 DEF Attempt
    <3>4. a.req = c.req /\ ~a.complete /\ a.retain = m
      BY <3>3
    <3>5. PICK z \in BOOLEAN : z = (x \/ y)
      OBVIOUS
    <3>6. WithAttempt = [auto |-> z, attempts |-> Append(i.attempts, a)]
      BY <2>0, <3>1, <3>2, <3>3, <3>5 DEF WithAttempt
    <3>7. PICK j \in Journal :
            j = WithAttempt /\ EntriesOf(j) = EntriesOf(i) \cup {a} /\ j.auto = z
      BY <3>6, Appending
    <3>8. \A q \in Requests : Unconfirmed(file[s], q) \/ q = c.req => Unconfirmed(j, q)
      BY <3>1, <3>4, <3>7 DEF Unconfirmed
    <3>9. \A g \in Grants : Spent(file[s], g) => Spent(j, g)
      BY <3>1, <3>5, <3>7 DEF Spent
    <3>10. c.reason = "approved_restart" => Spent(j, grant[s])
      BY <3>1, <3>2, <3>4, <3>5, <3>7 DEF Spent
    <3> QED BY <3>7, <3>8, <3>9, <3>10
  <2>3. PICK f, k \in {file[s], j} : file' = [file EXCEPT ![s] = f] /\ disk' = [disk EXCEPT ![s] = k]
    BY <1>16, <2>0, <2>2 DEF SaveIntent, Saved, SaveAmbiguous
  <2>4. f \in Journal /\ k \in Journal
    BY <1>0 DEF Shape, Kept
  <2>5. Kept' /\ Owned'
    <3>1. Kept'
      BY <1>0, <2>1, <2>3, <2>4 DEF Shape, Kept
    <3>2. Owned'
      BY <1>0, <2>1 DEF Shape, Owned
    <3> QED BY <3>1, <3>2
  <2>6. Writers' /\ OldCallbacksExpired'
    BY <1>0, <2>1 DEF Writers, OldCallbacksExpired
  <2>7. ForksPast' /\ RequestForksOnce'
    BY <1>0, <2>1, <2>2, <2>3 DEF ForksPast, RequestForksOnce, Shape, Kept
  <2>8. RestartsPast' /\ OneRestartPerGrant'
    BY <1>0, <2>1, <2>2, <2>3 DEF RestartsPast, OneRestartPerGrant, Shape, Kept
  <2>9. CASE call' = Idle
    <3>1. Shape'
      BY <2>5, <2>9 DEF Shape, Called
    <3>2. PastFence' /\ Reconciled' /\ Fresh' /\ FirstRestart'
      BY <2>9 DEF PastFence, Reconciled, Fresh, FirstRestart, Busy
    <3> QED BY <2>6, <2>7, <2>8, <3>1, <3>2 DEF IInv
  <2>10. CASE Saved(s, WithAttempt) /\ Stage("recheck")
    <3>1. PICK d \in Call :
          /\ call' = d /\ d.stage = "recheck" /\ d.req = c.req /\ d.sess = s
          /\ d.reason = c.reason
          /\ d.expected = c.expected /\ d.seen = c.seen /\ d.next = c.next /\ d.to = c.to
      <4>1. PICK d : d = [c EXCEPT !.stage = "recheck"]
        OBVIOUS
      <4>2. "recheck" \in Stages
        BY DEF Stages
      <4> QED BY <2>0, <2>10, <4>1, <4>2, StageOk DEF Stage
    <3>2. Shape'
      BY <2>5, <3>1 DEF Shape, Called
    <3>3. file'[s] = j /\ disk'[s] = j
      BY <1>0, <2>2, <2>10 DEF Saved, Shape, Kept
    <3>4. PastFence' /\ Reconciled'
      BY <1>0, <2>0, <2>1, <3>1 DEF PastFence, Reconciled, Busy
    <3>5. Fresh'
      BY <1>0, <2>0, <2>1, <2>2, <3>1, <3>3 DEF Fresh, Busy
    <3>6. FirstRestart'
      BY <1>0, <2>0, <2>1, <2>2, <3>1, <3>3 DEF FirstRestart, Busy
    <3> QED BY <2>6, <2>7, <2>8, <3>2, <3>4, <3>5, <3>6 DEF IInv
  <2> QED BY <1>16, <2>0, <2>9, <2>10 DEF SaveIntent
<1>17. CASE SaveComplete
  <2>0. PICK c \in Call, s \in Sessions :
          /\ call # Idle /\ c = call /\ s = c.sess /\ c.req \in Requests
          /\ c.reason \in Reasons /\ c.expected \in Revs
          /\ c.seen \subseteq Ops /\ c.next \in Int /\ c.to \in Grants
    BY <1>0, <1>17, TheCall DEF SaveComplete, Shape
  <2>1. /\ c.stage = "complete" /\ call' = Idle
        /\ UNCHANGED <<now, cur, grant, proc, occupied, callbacks, effects, forks, restarts>>
    BY <1>17, <2>0 DEF SaveComplete, vars, owner, history
  <2>2. PICK j \in Journal : j = Completed /\ \A g \in Grants : Spent(file[s], g) => Spent(j, g)
    <3>1. PICK i \in Journal : i = file[s]
      BY <1>0 DEF Shape, Kept
    <3>2. EntriesOf(i) # {}
      BY <1>0, <2>0, <2>1, <3>1 DEF Fresh, Busy, Unconfirmed
    <3>3. PICK j : j = [i EXCEPT !.attempts[Len(i.attempts)].complete = TRUE]
      OBVIOUS
    <3>4. /\ j \in Journal /\ j.auto = i.auto
          /\ \A a \in EntriesOf(i) :
               \E b \in EntriesOf(j) : b.req = a.req /\ b.retain = a.retain
      BY <3>2, <3>3, Completing
    <3>5. j = Completed
      BY <2>0, <3>1, <3>3 DEF Completed
    <3> QED BY <3>1, <3>4, <3>5 DEF Spent
  <2>3. PICK f, k \in {file[s], j} : file' = [file EXCEPT ![s] = f] /\ disk' = [disk EXCEPT ![s] = k]
    BY <1>17, <2>0, <2>2 DEF SaveComplete, Saved, SaveAmbiguous
  <2>4. f \in Journal /\ k \in Journal
    BY <1>0 DEF Shape, Kept
  <2>5. Shape'
    <3>1. Kept'
      BY <1>0, <2>1, <2>3, <2>4 DEF Shape, Kept
    <3>2. Owned'
      BY <1>0, <2>1 DEF Shape, Owned
    <3> QED BY <2>1, <3>1, <3>2 DEF Shape, Called
  <2>6. Writers' /\ OldCallbacksExpired' /\ PastFence' /\ Reconciled' /\ Fresh' /\ FirstRestart'
    BY <1>0, <2>1 DEF Writers, OldCallbacksExpired, PastFence, Reconciled, Fresh,
       FirstRestart, Busy
  <2>7. ForksPast' /\ RequestForksOnce'
    <3>1. \A q \in Requests, r \in Revs : forks[s][<<q, r>>] > 0 => r < cur[s] /\ cur[s] \in Int
      BY <1>0, <2>0, <2>1 DEF Fresh, Busy, Shape, Owned
    <3> QED BY <1>0, <2>1, <2>3, <3>1 DEF ForksPast, RequestForksOnce, Shape, Kept
  <2>8. RestartsPast' /\ OneRestartPerGrant'
    BY <1>0, <2>1, <2>2, <2>3 DEF RestartsPast, OneRestartPerGrant, Shape, Kept
  <2> QED BY <2>5, <2>6, <2>7, <2>8 DEF IInv
<1>18. CASE AttemptUncertain
  <2>0. PICK c \in Call, s \in Sessions :
          /\ call # Idle /\ c = call /\ s = c.sess /\ c.req \in Requests
          /\ c.reason \in Reasons /\ c.expected \in Revs
          /\ c.seen \subseteq Ops /\ c.next \in Int /\ c.to \in Grants
    BY <1>0, <1>18, TheCall DEF AttemptUncertain, Shape
  <2>1. /\ c.stage = "attempt" /\ call' = Idle /\ Forked
        /\ proc' = [proc EXCEPT ![s] = @ \cup {c.next}]
        /\ occupied' = [occupied EXCEPT ![s] = TRUE]
        /\ UNCHANGED <<now, file, disk, cur, grant, callbacks, effects>>
    BY <1>18, <2>0 DEF AttemptUncertain, Forked, vars, journals
  <2>2. /\ forks' \in [Sessions -> [Requests \X Revs -> Nat]]
        /\ restarts' \in [Sessions -> [Grants -> Nat]]
        /\ RequestForksOnce' /\ OneRestartPerGrant'
        /\ \A t \in Sessions, q \in Requests, r \in Revs :
             forks'[t][<<q, r>>] > 0 =>
               \/ forks[t][<<q, r>>] > 0
               \/ t = s /\ r = cur[t] /\ Unconfirmed(file[t], q) /\ Unconfirmed(disk[t], q)
        /\ \A t \in Sessions, g \in Grants :
             restarts'[t][g] > 0 =>
               restarts[t][g] > 0 \/ (Spent(file[t], g) /\ Spent(disk[t], g))
    BY <1>0, <2>0, <2>1, Forking
  <2>3. Shape'
    <3>1. Kept'
      BY <1>0, <2>1, <2>2 DEF Shape, Kept
    <3>2. Owned'
      BY <1>0, <2>0, <2>1 DEF Shape, Owned
    <3> QED BY <2>1, <3>1, <3>2 DEF Shape, Called
  <2>4. Writers' /\ OldCallbacksExpired'
    <3>1. proc[s] = {}
      BY <1>0, <2>0, <2>1 DEF PastFence, Busy
    <3> QED BY <1>0, <2>1, <3>1 DEF Writers, OldCallbacksExpired, Shape, Owned
  <2>5. PastFence' /\ Reconciled' /\ Fresh' /\ FirstRestart'
    BY <2>1 DEF PastFence, Reconciled, Fresh, FirstRestart, Busy
  <2>6. ForksPast'
    BY <1>0, <2>1, <2>2 DEF ForksPast
  <2>7. RestartsPast'
    BY <1>0, <2>1, <2>2 DEF RestartsPast
  <2> QED BY <2>2, <2>3, <2>4, <2>5, <2>6, <2>7 DEF IInv
<1>19. CASE AttemptOwned
  <2>0. PICK c \in Call, s \in Sessions :
          /\ call # Idle /\ c = call /\ s = c.sess /\ c.req \in Requests
          /\ c.reason \in Reasons /\ c.expected \in Revs
          /\ c.seen \subseteq Ops /\ c.next \in Int /\ c.to \in Grants
    BY <1>0, <1>19, TheCall DEF AttemptOwned, Shape
  <2>1. /\ c.stage = "attempt" /\ Forked
        /\ proc' = [proc EXCEPT ![s] = @ \cup {c.next}]
        /\ occupied' = [occupied EXCEPT ![s] = TRUE]
        /\ cur' = [cur EXCEPT ![s] = c.next] /\ grant' = [grant EXCEPT ![s] = c.to]
        /\ callbacks' = [callbacks EXCEPT ![s] = @ \cup {c.next}]
        /\ effects' = [effects EXCEPT ![s] = {}]
        /\ call' = [c EXCEPT !.stage = "complete"]
        /\ UNCHANGED <<now, file, disk>>
    BY <1>19, <2>0 DEF AttemptOwned, Forked, Stage, vars, journals
  <2>2. /\ forks' \in [Sessions -> [Requests \X Revs -> Nat]]
        /\ restarts' \in [Sessions -> [Grants -> Nat]]
        /\ RequestForksOnce' /\ OneRestartPerGrant'
        /\ \A t \in Sessions, q \in Requests, r \in Revs :
             forks'[t][<<q, r>>] > 0 =>
               \/ forks[t][<<q, r>>] > 0
               \/ t = s /\ r = cur[t] /\ Unconfirmed(file[t], q) /\ Unconfirmed(disk[t], q)
        /\ \A t \in Sessions, g \in Grants :
             restarts'[t][g] > 0 =>
               restarts[t][g] > 0 \/ (Spent(file[t], g) /\ Spent(disk[t], g))
    BY <1>0, <2>0, <2>1, Forking
  <2>3. PICK d \in Call :
          /\ call' = d /\ d.stage = "complete" /\ d.req = c.req /\ d.sess = s
          /\ d.reason = c.reason
          /\ d.expected = c.expected /\ d.seen = c.seen /\ d.next = c.next /\ d.to = c.to
    <3>1. PICK d : d = [c EXCEPT !.stage = "complete"]
      OBVIOUS
    <3>2. "complete" \in Stages
      BY DEF Stages
    <3> QED BY <2>0, <2>1, <3>1, <3>2, StageOk
  <2>4. /\ proc[s] = {} /\ callbacks[s] = {} /\ c.next > cur[s] /\ cur[s] \in Int
        /\ Unconfirmed(file[s], c.req) /\ Unconfirmed(disk[s], c.req) /\ (c.reason = "approved_restart" => c.seen = {})
    BY <1>0, <2>0, <2>1 DEF PastFence, Fresh, Reconciled, Busy, Shape, Owned
  <2>5. Shape'
    <3>1. Kept'
      BY <1>0, <2>1, <2>2 DEF Shape, Kept
    <3>2. Owned'
      BY <1>0, <2>0, <2>1 DEF Shape, Owned
    <3> QED BY <2>3, <3>1, <3>2 DEF Shape, Called
  <2>6. Writers' /\ OldCallbacksExpired'
    BY <1>0, <2>1, <2>4 DEF Writers, OldCallbacksExpired, Shape, Owned
  <2>7. PastFence' /\ Reconciled' /\ FirstRestart'
    BY <2>3, <2>4 DEF PastFence, Reconciled, FirstRestart, Busy
  <2>8. ASSUME NEW q \in Requests, NEW r \in Revs, forks'[s][<<q, r>>] > 0
        PROVE  r < cur'[s]
    <3>1. r <= cur[s]
      BY <1>0, <2>2, <2>4, <2>8 DEF ForksPast
    <3> QED BY <1>0, <2>0, <2>1, <2>4, <3>1 DEF Shape, Owned
  <2>9. ForksPast'
    <3> SUFFICES ASSUME NEW t \in Sessions, NEW q \in Requests, NEW r \in Revs, forks'[t][<<q, r>>] > 0
                 PROVE  r <= cur'[t] /\ (r = cur'[t] => Unconfirmed(file'[t], q) /\ Unconfirmed(disk'[t], q))
      BY DEF ForksPast
    <3>1. CASE t = s
      BY <2>0, <2>1, <2>5, <2>8, <3>1 DEF Shape, Owned
    <3>2. CASE t # s
      BY <1>0, <2>1, <2>2, <3>2 DEF ForksPast, Shape, Owned
    <3> QED BY <3>1, <3>2
  <2>10. Fresh'
    BY <2>1, <2>3, <2>4, <2>8 DEF Fresh, Busy
  <2>11. RestartsPast'
    BY <1>0, <2>1, <2>2 DEF RestartsPast
  <2> QED BY <2>2, <2>5, <2>6, <2>7, <2>9, <2>10, <2>11 DEF IInv
<1> QED
  BY <1>1, <1>2, <1>3, <1>4, <1>5, <1>6, <1>7, <1>8, <1>9, <1>10, <1>11, <1>12, <1>13,
     <1>14, <1>15, <1>16, <1>17, <1>18, <1>19 DEF Next

(* A conversation starts with one counted writer and an empty journal. *)
LEMMA InitOk == Init => IInv
<1> SUFFICES ASSUME Init
             PROVE  IInv
  OBVIOUS
<1>1. Shape
  <2>1. Kept
    BY EmptyOk DEF Init, Kept
  <2>2. Owned
    BY DEF Init, Owned
  <2> QED BY <2>1, <2>2 DEF Init, Shape, Called
<1>2. Writers /\ OldCallbacksExpired /\ PastFence /\ Reconciled /\ Fresh /\ FirstRestart
  BY DEF Init, Writers, OldCallbacksExpired, PastFence, Reconciled, Fresh, FirstRestart, Busy
<1>3. ForksPast /\ RequestForksOnce
  BY DEF Init, ForksPast, RequestForksOnce
<1>4. RestartsPast /\ OneRestartPerGrant
  BY DEF Init, RestartsPast, OneRestartPerGrant
<1> QED BY <1>1, <1>2, <1>3, <1>4 DEF IInv

(* A launch finds no effect it has not seen, and a restart finds none. *)
LEMMA LaunchReconciled ==
  IInv /\ [Next]_vars =>
    (forks' # forks =>
       /\ effects[call.sess] \subseteq call.seen
       /\ call.reason = "approved_restart" => effects[call.sess] = {})
<1> SUFFICES ASSUME IInv, [Next]_vars, forks' # forks
             PROVE  /\ effects[call.sess] \subseteq call.seen
                    /\ call.reason = "approved_restart" => effects[call.sess] = {}
  OBVIOUS
<1>1. AttemptOwned \/ AttemptUncertain
  BY DEF Next, vars, history, Tick, Crash, NewCoordinator, WriterExits, TakeOver,
     Reconcile, Reclaim,
         EffectStarts, EffectSettles, Resume, Fail, ReadState, Settle, SaveIntent, Recheck, Prepare,
         SaveComplete
<1>2. Busy({"attempt"})
  BY <1>1 DEF AttemptOwned, AttemptUncertain, Busy
<1> QED BY <1>2 DEF IInv, Reconciled, Busy

-----------------------------------------------------------------------------
(* IInv is an invariant: over crashes, retries and callbacks of old          *)
(* revisions, what the journal on disk records of a fork or a restart is     *)
(* what was done, and a revision has one owner.                             *)
THEOREM RecoveryInductive == Spec => []IInv
  BY InitOk, StepOk, PTL DEF Spec

(* A conversation never has two native writers and the ledger counts the    *)
(* one it has: settle proves the absence before Resume may fork.            *)
THEOREM RecoveryOneWriter == Spec => []OneWriter
<1>1. IInv => OneWriter
  <2> SUFFICES ASSUME IInv, NEW s \in Sessions
               PROVE  Cardinality(proc[s]) <= 1 /\ (proc[s] # {} => occupied[s])
    BY DEF OneWriter
  <2>1. CASE proc[s] = {}
    BY <2>1, FS_EmptySet
  <2>2. CASE proc[s] # {}
    <3>1. PICK m \in proc[s] : TRUE
      BY <2>2
    <3>2. proc[s] = {m}
      BY <3>1 DEF IInv, Writers
    <3>3. Cardinality(proc[s]) = 1
      BY <3>2, FS_Singleton
    <3> QED BY <2>2, <3>3 DEF IInv, Writers
  <2> QED BY <2>1, <2>2
<1> QED BY <1>1, RecoveryInductive, PTL

(* One intent forks at most once, whatever crashes, ambiguous writes,       *)
(* retries and reclaimed journals come between.                             *)
THEOREM RecoveryRequestForksOnce == Spec => []RequestForksOnce
<1>1. IInv => RequestForksOnce
  BY DEF IInv
<1> QED BY <1>1, RecoveryInductive, PTL

(* A grant's bounded restart forks at most once, even after its journal     *)
(* was reclaimed.                                                           *)
THEOREM RecoveryOneRestartPerGrant == Spec => []OneRestartPerGrant
<1>1. IInv => OneRestartPerGrant
  BY DEF IInv
<1> QED BY <1>1, RecoveryInductive, PTL

(* Callbacks of a predecessor never answer for a successor. *)
THEOREM RecoveryOldCallbacksExpired == Spec => []OldCallbacksExpired
<1>1. IInv => OldCallbacksExpired
  BY DEF IInv
<1> QED BY <1>1, RecoveryInductive, PTL

(* No launch runs over effects nobody reconciled. *)
THEOREM RecoveryForksReconciled == Spec => ForksReconciled
  BY RecoveryInductive, LaunchReconciled, PTL DEF Spec, ForksReconciled

-----------------------------------------------------------------------------
(* The run records a restarted daemon opens: LocalJournal for any keys and  *)
(* values, any limits, any number of schema versions and of failures.       *)

(* What these proofs use of the constants, which LocalJournal assumes. *)
JournalConstants == NoKey \notin Keys /\ MaxVersion \in Nat /\ MaxRecords \in Nat

LEMMA JournalConstantsHold == JournalConstants
  BY NoKeyIsNoKey, BoundsAreNat DEF JournalConstants

Values == Vals \cup {NoVal}
Recs == [Keys -> Values]
LogEntries == [op : {"put", "delete"}, key : Keys, val : Values, ver : 1..MaxVersion]
Logs == [lines : Seq(LogEntries \cup {Corrupt}), tail : LogEntries \cup {Torn, NoTail}]
Ckpts == [ver : 0..MaxVersion, recs : Recs]

Touched(l, k) == {i \in 1..Len(l.lines) : l.lines[i].key = k}

(* The records that replaying a journal over other records gives. *)
Over(r, l) ==
  [k \in Keys |-> IF Touched(l, k) = {} THEN r[k] ELSE l.lines[Max(Touched(l, k))].val]

(* A bounded set of positions has a greatest one. *)
LEMMA GreatestLine ==
  ASSUME NEW n \in Nat, NEW S \in SUBSET (0..n), S # {}
  PROVE  Max(S) \in S /\ \A y \in S : y <= Max(S)
<1>1. PICK R : R = {p \in Nat \X Nat : p[1] < p[2]} /\ IsWellFoundedOn(R, Nat)
  BY NatLessThanWellFounded, Zenon DEF OpToRel
<1>2. PICK T : T = {n - i : i \in S}
  OBVIOUS
<1>3. T \in SUBSET Nat /\ T # {}
  <2>1. \A i \in S : n - i \in Nat
    OBVIOUS
  <2> QED BY <1>2, <2>1
<1>4. PICK x \in T : \A y \in T : ~(<<y, x>> \in R)
  BY <1>1, <1>3, WFMin
<1>5. ASSUME NEW y \in T PROVE x <= y
  <2>1. x \in Nat /\ y \in Nat
    BY <1>3
  <2>2. <<y, x>> \in R <=> y < x
    BY <1>1, <2>1
  <2> QED BY <1>4, <2>1, <2>2
<1>6. PICK m \in S : x = n - m
  BY <1>2
<1>7. \A y \in S : m >= y
  BY <1>2, <1>5, <1>6
<1> QED BY <1>7 DEF Max

(* What the model calls replaying is Over. *)
LEMMA ReplayedIsOver ==
  ASSUME NEW c, NEW l
  PROVE  Replayed(c, l) = Over(c.recs, l)
  BY DEF Replayed, Over, Touched

(* A replay shows for a key no line is about its old value. *)
LEMMA OverUntouched ==
  ASSUME NEW l, NEW r, NEW k \in Keys, Touched(l, k) = {}
  PROVE  Over(r, l)[k] = r[k]
  BY DEF Over

(* A replay shows for any other key the value of a line about it. *)
LEMMA OverTouched ==
  ASSUME NEW l \in Logs, NEW r, NEW k \in Keys, Touched(l, k) # {}
  PROVE  \E i \in 1..Len(l.lines) : l.lines[i].key = k /\ Over(r, l)[k] = l.lines[i].val
<1>1. Len(l.lines) \in Nat
  BY DEF Logs
<1>2. Touched(l, k) \in SUBSET (0..Len(l.lines))
  BY <1>1 DEF Touched
<1>3. Max(Touched(l, k)) \in Touched(l, k)
  BY <1>1, <1>2, GreatestLine
<1>4. Over(r, l)[k] = l.lines[Max(Touched(l, k))].val
  BY DEF Over
<1> QED BY <1>3, <1>4 DEF Touched

(* A line on a key is an entry. *)
LEMMA LineOnKey ==
  ASSUME JournalConstants, NEW l \in Logs, NEW i \in 1..Len(l.lines), l.lines[i].key \in Keys
  PROVE  l.lines[i] \in LogEntries
<1>1. l.lines \in Seq(LogEntries \cup {Corrupt})
  BY DEF Logs
<1>2. l.lines[i] \in LogEntries \cup {Corrupt}
  BY <1>1, ElementOfSeq
<1>3. Corrupt.key = NoKey
  BY DEF Corrupt, Line
<1> QED BY <1>2, <1>3 DEF JournalConstants

(* Replaying keeps the type of the records. *)
LEMMA OverType ==
  ASSUME JournalConstants, NEW l \in Logs, NEW r \in Recs
  PROVE  Over(r, l) \in Recs
<1>1. ASSUME NEW k \in Keys PROVE Over(r, l)[k] \in Values
  <2>1. CASE Touched(l, k) = {}
    BY <2>1, OverUntouched DEF Recs
  <2>2. CASE Touched(l, k) # {}
    <3>1. PICK i \in 1..Len(l.lines) : l.lines[i].key = k /\ Over(r, l)[k] = l.lines[i].val
      BY <2>2, OverTouched
    <3>2. l.lines[i] \in LogEntries
      BY <3>1, LineOnKey
    <3> QED BY <3>1, <3>2 DEF LogEntries
  <2> QED BY <2>1, <2>2
<1>2. Over(r, l) = [k \in Keys |-> Over(r, l)[k]]
  BY DEF Over
<1> QED BY <1>1, <1>2 DEF Recs

(* A journal replayed over what it has already produced changes nothing. *)
LEMMA OverTwice ==
  ASSUME NEW l, NEW r
  PROVE  Over(Over(r, l), l) = Over(r, l)
  BY DEF Over

(* Only the complete lines of a journal are replayed. *)
LEMMA OverTail ==
  ASSUME NEW l, NEW m, NEW r, l.lines = m.lines
  PROVE  Over(r, l) = Over(r, m)
  BY DEF Over, Touched

(* An empty journal changes nothing. *)
LEMMA OverEmpty ==
  ASSUME NEW l, NEW r \in Recs, l.lines = <<>>
  PROVE  Over(r, l) = r
<1>1. \A k \in Keys : Touched(l, k) = {}
  BY DEF Touched
<1> QED BY <1>1 DEF Over, Recs

(* An entry appended to a journal without a tail decides its key. *)
LEMMA OverAppend ==
  ASSUME NEW l \in Logs, l.tail = NoTail, NEW e \in LogEntries, NEW r \in Recs
  PROVE  Over(r, Appended(l, e)) = [Over(r, l) EXCEPT ![e.key] = e.val]
<1> DEFINE n == Len(l.lines)
<1>1. PICK a : a = Appended(l, e)
  OBVIOUS
<1>2. l.lines \in Seq(LogEntries \cup {Corrupt}) /\ n \in Nat
  BY DEF Logs
<1>3. a.lines = Append(l.lines, e)
  BY <1>1 DEF Appended
<1>4. Len(a.lines) = n + 1 /\ a.lines[n + 1] = e /\ \A i \in 1..n : a.lines[i] = l.lines[i]
  BY <1>2, <1>3, AppendProperties
<1>5. ASSUME NEW k \in Keys
      PROVE  Over(r, a)[k] = IF k = e.key THEN e.val ELSE Over(r, l)[k]
  <2> DEFINE S == Touched(a, k)
  <2>1. CASE k = e.key
    <3>1. n + 1 \in S /\ S \in SUBSET (0..(n + 1))
      BY <1>2, <1>4, <2>1 DEF Touched
    <3>2. Max(S) \in S /\ \A y \in S : y <= Max(S)
      <4>1. n + 1 \in Nat /\ S # {}
        BY <1>2, <3>1
      <4> HIDE DEF S
      <4> QED BY <3>1, <4>1, GreatestLine
    <3>3. Max(S) = n + 1
      BY <1>2, <3>1, <3>2
    <3> QED BY <1>4, <2>1, <3>1, <3>3 DEF Over
  <2>2. CASE k # e.key
    <3>1. S = Touched(l, k)
      BY <1>2, <1>4, <2>2 DEF Touched
    <3>2. CASE S = {}
      BY <2>2, <3>1, <3>2 DEF Over
    <3>3. CASE S # {}
      <4>1. S \in SUBSET (1..n) /\ S \in SUBSET (0..n)
        BY <1>2, <3>1 DEF Touched
      <4>2. Max(S) \in S
        <5> HIDE DEF S
        <5> QED BY <1>2, <3>3, <4>1, GreatestLine
      <4>3. Max(S) \in 1..n
        BY <4>1, <4>2
      <4> QED BY <1>4, <2>2, <3>1, <3>3, <4>3 DEF Over
    <3> QED BY <3>2, <3>3
  <2> QED BY <2>1, <2>2
<1>6. Over(r, a) = [k \in Keys |-> IF k = e.key THEN e.val ELSE Over(r, l)[k]]
  <2>1. Over(r, a) = [k \in Keys |-> Over(r, a)[k]]
    BY DEF Over
  <2> QED BY <1>5, <2>1
<1>7. [Over(r, l) EXCEPT ![e.key] = e.val]
        = [k \in Keys |-> IF k = e.key THEN e.val ELSE Over(r, l)[k]]
  BY DEF Over
<1> QED BY <1>1, <1>6, <1>7

(* A journal that changes nothing, replayed after one more mutation, either *)
(* changes nothing or undoes that mutation.                                 *)
LEMMA OverStale ==
  ASSUME NEW l \in Logs, NEW m \in Recs, Over(m, l) = m, NEW k \in Keys, NEW v
  PROVE  Over([m EXCEPT ![k] = v], l) \in {m, [m EXCEPT ![k] = v]}
<1> DEFINE p == [m EXCEPT ![k] = v]
<1>1. m = [j \in Keys |-> m[j]] /\ p = [j \in Keys |-> IF j = k THEN v ELSE m[j]]
  BY DEF Recs
<1>2. ASSUME NEW j \in Keys
      PROVE  Over(p, l)[j] = IF Touched(l, j) = {} THEN p[j] ELSE m[j]
  <2>1. Over(p, l)[j] = IF Touched(l, j) = {} THEN p[j] ELSE Over(m, l)[j]
    BY DEF Over
  <2> QED BY <2>1
<1>3. Over(p, l) = [j \in Keys |-> IF Touched(l, j) = {} THEN p[j] ELSE m[j]]
  <2>1. Over(p, l) = [j \in Keys |-> Over(p, l)[j]]
    BY DEF Over
  <2> QED BY <1>2, <2>1
<1>4. CASE Touched(l, k) = {}
  <2>1. \A j \in Keys : (IF Touched(l, j) = {} THEN p[j] ELSE m[j]) = IF j = k THEN v ELSE m[j]
    BY <1>1, <1>4
  <2> QED BY <1>1, <1>3, <2>1
<1>5. CASE Touched(l, k) # {}
  <2>1. \A j \in Keys : (IF Touched(l, j) = {} THEN p[j] ELSE m[j]) = m[j]
    BY <1>1, <1>5
  <2> QED BY <1>1, <1>3, <2>1
<1> QED BY <1>4, <1>5

-----------------------------------------------------------------------------
(* The record limit.                                                        *)

Present(r) == {k \in Keys : r[k] # NoVal}
Fits(r) == IsFiniteSet(Present(r)) /\ Cardinality(Present(r)) <= MaxRecords

(* No records fit. *)
LEMMA NoneFit ==
  ASSUME JournalConstants
  PROVE  Fits([k \in Keys |-> NoVal])
<1>1. Present([k \in Keys |-> NoVal]) = {}
  BY DEF Present
<1> QED BY <1>1, FS_EmptySet DEF Fits, JournalConstants

(* A mutation that erases, replaces or finds room keeps the limit. *)
LEMMA MutationFits ==
  ASSUME JournalConstants, NEW m \in Recs, Fits(m), NEW k \in Keys, NEW v,
         v = NoVal \/ m[k] # NoVal \/ Cardinality(Present(m)) < MaxRecords
  PROVE  Fits([m EXCEPT ![k] = v])
<1> DEFINE p == [m EXCEPT ![k] = v]
<1>1. \A j \in Keys : p[j] = IF j = k THEN v ELSE m[j]
  BY DEF Recs
<1>2. IsFiniteSet(Present(m)) /\ Cardinality(Present(m)) \in Nat
  BY FS_CardinalityType DEF Fits
<1>3. CASE v = NoVal \/ m[k] # NoVal
  <2>1. Present(p) \in SUBSET Present(m)
    BY <1>1, <1>3 DEF Present
  <2>2. IsFiniteSet(Present(p)) /\ Cardinality(Present(p)) <= Cardinality(Present(m))
    BY <1>2, <2>1, FS_Subset
  <2>3. Cardinality(Present(p)) \in Nat
    BY <2>2, FS_CardinalityType
  <2> QED BY <1>2, <2>2, <2>3 DEF Fits, JournalConstants
<1>4. CASE m[k] = NoVal /\ v # NoVal
  <2>1. Present(p) = Present(m) \cup {k} /\ k \notin Present(m)
    BY <1>1, <1>4 DEF Present
  <2>2. /\ IsFiniteSet(Present(m) \cup {k})
        /\ Cardinality(Present(m) \cup {k}) = Cardinality(Present(m)) + 1
    BY <1>2, <2>1, FS_AddElement
  <2>3. IsFiniteSet(Present(p)) /\ Cardinality(Present(p)) = Cardinality(Present(m)) + 1
    BY <2>1, <2>2, Zenon
  <2> QED BY <1>2, <1>4, <2>3 DEF Fits, JournalConstants
<1> QED BY <1>3, <1>4

(* A journal names finitely many keys. *)
LEMMA OverFinite ==
  ASSUME NEW l \in Logs, NEW r \in Recs, IsFiniteSet(Present(r))
  PROVE  IsFiniteSet(Present(Over(r, l)))
<1> DEFINE L == {l.lines[i].key : i \in 1..Len(l.lines)}
<1>1. Len(l.lines) \in Nat
  BY DEF Logs
<1>2. IsFiniteSet(1..Len(l.lines))
  BY <1>1, FS_Interval
<1>3. IsFiniteSet(L)
  <2> DEFINE f == [i \in 1..Len(l.lines) |-> l.lines[i].key]
  <2>1. f \in Surjection(1..Len(l.lines), L)
    BY DEF Surjection
  <2> QED BY <1>2, <2>1, FS_Surjection
<1>4. IsFiniteSet(Present(r) \cup L)
  BY <1>3, FS_Union
<1>5. ASSUME NEW k \in Present(Over(r, l)) PROVE k \in Present(r) \cup L
  <2>1. k \in Keys /\ Over(r, l)[k] # NoVal
    BY DEF Present
  <2>2. CASE Touched(l, k) = {}
    BY <2>1, <2>2, OverUntouched DEF Present
  <2>3. CASE Touched(l, k) # {}
    BY <2>3 DEF Touched
  <2> QED BY <2>2, <2>3
<1>6. Present(Over(r, l)) \in SUBSET (Present(r) \cup L)
  BY <1>5
<1> QED BY <1>4, <1>6, FS_Subset

-----------------------------------------------------------------------------
(* The inductive invariant.                                                 *)

Ends == {"rename", "dirsync", "reset", "resetsync"}

JournalShape ==
  /\ pc \in {"down", "idle", "append", "sync"} \cup Ends
  /\ ver \in 0..MaxVersion /\ (pc # "down" => ver # 0)
  /\ op \in LogEntries \cup {Opening}
  /\ pc \in {"append", "sync"} => op \in LogEntries /\ op.ver = ver
  /\ mem \in Recs /\ may \in [Keys -> SUBSET Values] /\ dirty \in BOOLEAN
  /\ ckpt \in ckptImages /\ ckptImages \subseteq Ckpts
  /\ log \in logImages /\ logImages \subseteq Logs

(* No file, whatever a crash leaves of it, and no mutation under way holds a *)
(* value that `may' does not name.                                           *)
Known ==
  /\ \A c \in ckptImages, k \in Keys : c.recs[k] \in may[k]
  /\ \A l \in logImages : \A i \in 1..Len(l.lines) :
       l.lines[i].key \in Keys => l.lines[i].val \in may[l.lines[i].key]
  /\ pc # "down" => \A k \in Keys : mem[k] \in may[k]
  /\ pc \in {"append", "sync"} => op.val \in may[op.key]

(* The order of a checkpoint: new content, durable, then the reset. *)
Ordered ==
  /\ pc \in {"dirsync", "reset", "resetsync"} => ckpt = New
  /\ pc \in {"reset", "resetsync"} => ckptImages = {ckpt}
  /\ pc = "resetsync" => log = EmptyLog

(* A running daemon has accepted every schema version in its files. *)
NotNewer ==
  pc # "down" =>
    /\ ckpt.ver <= ver /\ log.tail.ver <= ver
    /\ \A i \in 1..Len(log.lines) : log.lines[i].ver <= ver

Mutated == [mem EXCEPT ![op.key] = op.val]

(* Memory and every checkpoint respect the limit, also after failures. *)
WithinLimit ==
  /\ \A c \in ckptImages : Fits(c.recs)
  /\ pc # "down" => Fits(mem)
  /\ pc \in {"append", "sync"} => Fits(Mutated)

(* What the files say now. *)
Now == Over(ckpt.recs, log)

Whole ==
  /\ \A l \in logImages : \A i \in 1..Len(l.lines) : l.lines[i] \in LogEntries
  /\ pc \in {"idle", "append"} \/ (op # Opening /\ pc # "down") => log.tail = NoTail

(* Every checkpoint a crash can leave gives the same records with the journal, *)
(* the ones in memory.                                                         *)
Agreed ==
  /\ \A c \in ckptImages : Over(c.recs, log) = Now
  /\ pc \notin {"down", "sync"} => mem = Now
  /\ pc = "sync" => Now = Mutated

(* Every pair of files, also with the checkpoint that is written next, fits. *)
PairsFit ==
  \A l \in logImages : Fits(Over(Now, l)) /\ \A c \in ckptImages : Fits(Over(c.recs, l))

(* Between mutations a journal that a crash may bring back changes nothing. *)
Stale ==
  (pc \in {"idle", "append"} \/ (op # Opening /\ pc \in Ends)
     \/ (log = EmptyLog /\ ~OpenResets))
    => \A l \in logImages : Over(Now, l) = Now

Clean == Whole /\ Agreed /\ PairsFit /\ Stale

JournalInv == JournalShape /\ Known /\ Ordered /\ NotNewer /\ WithinLimit /\ (~dirty => Clean)

(* Size counts the records that are present. *)
LEMMA SizeIsPresent ==
  ASSUME NEW r
  PROVE  Size(r) = Cardinality(Present(r))
  BY DEF Size, Present

(* The fixed lines and the empty files. *)
LEMMA FixedFiles ==
  ASSUME JournalConstants
  PROVE  /\ EmptyLog \in Logs /\ EmptyLog.lines = <<>> /\ EmptyLog.tail = NoTail
         /\ NoCkpt \in Ckpts /\ NoCkpt.ver = 0 /\ NoCkpt.recs = [k \in Keys |-> NoVal]
         /\ Opening \notin LogEntries /\ NoTail.ver = 0 /\ Torn.ver = 0 /\ Corrupt.ver = 0
         /\ Corrupt.key = NoKey /\ ~IsEntry(NoTail) /\ ~IsEntry(Torn)
         /\ ~IsEntry(Corrupt) /\ \A e \in LogEntries : IsEntry(e)
         /\ [k \in Keys |-> NoVal] \in Recs
<1>1. EmptyLog \in Logs
  BY EmptySeq DEF EmptyLog, Logs
<1>2. NoCkpt \in Ckpts
  BY DEF NoCkpt, Ckpts, Recs, Values, JournalConstants
<1>3. Opening \notin LogEntries /\ \A e \in LogEntries : IsEntry(e)
  BY DEF LogEntries, Opening, Line, IsEntry
<1> QED
  BY <1>1, <1>2, <1>3 DEF EmptyLog, NoCkpt, NoTail, Torn, Corrupt, Line,
     IsEntry, Recs, Values

(* What an append leaves of a journal. *)
LEMMA AppendedLog ==
  ASSUME JournalConstants, NEW l \in Logs, NEW e \in LogEntries, NEW a, a = Appended(l, e)
  PROVE  /\ a \in Logs /\ a.tail = NoTail /\ Len(a.lines) = Len(l.lines) + 1
         /\ \A i \in 1..Len(l.lines) : a.lines[i] = l.lines[i]
         /\ a.lines[Len(l.lines) + 1] = IF l.tail = NoTail THEN e ELSE Corrupt
<1> DEFINE x == IF l.tail = NoTail THEN e ELSE Corrupt
<1>1. l.lines \in Seq(LogEntries \cup {Corrupt}) /\ x \in LogEntries \cup {Corrupt}
  BY DEF Logs
<1>2. a = [lines |-> Append(l.lines, x), tail |-> NoTail]
  BY DEF Appended
<1> HIDE DEF x
<1>3. /\ Append(l.lines, x) \in Seq(LogEntries \cup {Corrupt})
      /\ Len(Append(l.lines, x)) = Len(l.lines) + 1
      /\ \A i \in 1..Len(l.lines) : Append(l.lines, x)[i] = l.lines[i]
      /\ Append(l.lines, x)[Len(l.lines) + 1] = x
  BY <1>1, AppendProperties
<1>4. a \in Logs
  BY <1>2, <1>3 DEF Logs
<1> QED BY <1>2, <1>3, <1>4 DEF x

(* What a torn append leaves of a journal. *)
LEMMA PartialLog ==
  ASSUME NEW l \in Logs, NEW e \in LogEntries, NEW p \in Partial(l, e)
  PROVE  p \in Logs /\ p.lines = l.lines /\ p.tail \in {Torn, e}
<1>1. PICK t \in {Torn, e} : p = [l EXCEPT !.tail = t]
  BY DEF Partial
<1> QED BY <1>1 DEF Logs

(* An accepted recovery has understood every line and version it read. *)
LEMMA RecoveryOk ==
  ASSUME NEW v, NEW c \in Ckpts, NEW l \in Logs
  PROVE  Recovery(v, c, l) = "ok" <=>
           /\ c.ver = 0 \/ c.ver \in 1..v
           /\ IsEntry(l.tail) => l.tail.ver \in 1..v
           /\ \A i \in 1..Len(l.lines) : IsEntry(l.lines[i]) /\ l.lines[i].ver \in 1..v
           /\ ~(Cardinality(Present(Over(c.recs, l))) > MaxRecords)
<1>1. Size(Replayed(c, l)) = Cardinality(Present(Over(c.recs, l)))
  BY ReplayedIsOver, SizeIsPresent
<1> QED BY <1>1 DEF Recovery, CkptReadable, Supported

-----------------------------------------------------------------------------
(* Every step keeps the invariant, part by part.                            *)

(* The initial state satisfies the invariant. *)
LEMMA JournalInitOk == JournalConstants /\ JournalInit => JournalInv
<1> SUFFICES ASSUME JournalConstants, JournalInit PROVE JournalInv
  OBVIOUS
<1> USE FixedFiles DEF JournalInit
<1>1. JournalShape
  <2>1. may \in [Keys -> SUBSET Values]
    BY DEF Settled, Values
  <2>2. ver \in 0..MaxVersion /\ mem \in Recs
    BY DEF JournalConstants
  <2> QED BY <2>1, <2>2 DEF JournalShape, Ends
<1>2. Known
  <2>1. \A k \in Keys : may[k] = {NoVal} /\ ckpt.recs[k] = NoVal
    BY DEF Settled
  <2> QED BY <2>1 DEF Known
<1>3. Ordered /\ NotNewer
  BY DEF Ordered, NotNewer
<1>4. WithinLimit
  BY NoneFit DEF WithinLimit
<1>5. Now = ckpt.recs /\ Over(Now, log) = Now
  BY OverEmpty, OverTwice DEF Now
<1>6. Whole /\ Agreed /\ Stale
  BY <1>5 DEF Whole, Agreed, Stale, Now
<1>7. PairsFit
  BY <1>4, <1>5 DEF WithinLimit, PairsFit, Now
<1> QED BY <1>1, <1>2, <1>3, <1>4, <1>6, <1>7 DEF JournalInv, Clean

(* Types, and where the running mutation's entry is. *)
LEMMA JournalShapeStep ==
  ASSUME JournalConstants, JournalShape, Ordered, [JournalNext]_journalVars
  PROVE  JournalShape'
<1> USE DEF JournalShape, files, Ends
<1>1. ASSUME NEW v \in 1..MaxVersion, Open(v) PROVE JournalShape'
  <2>1. ckpt \in Ckpts /\ log \in Logs /\ ckpt.recs \in Recs
    BY DEF Ckpts
  <2>2. mem' \in Recs
    BY <1>1, <2>1, OverType, ReplayedIsOver DEF Open
  <2>3. ver' \in 0..MaxVersion /\ ver' # 0
    BY <1>1 DEF Open, JournalConstants
  <2> QED BY <1>1, <2>2, <2>3 DEF Open
<1>2. ASSUME NEW e \in LogEntries, e.ver = ver, Begin(e) PROVE JournalShape'
  <2>1. may' \in [Keys -> SUBSET Values]
    BY <1>2 DEF Begin, LogEntries
  <2> QED BY <1>2, <2>1 DEF Begin
<1>3. ASSUME NEW k \in Keys, Delete(k) PROVE JournalShape'
  <2>1. pc # "down" /\ ver \in 1..MaxVersion
    BY <1>3 DEF Delete, Begin, JournalConstants
  <2>2. Line("delete", k, NoVal, ver) \in LogEntries /\ Line("delete", k, NoVal, ver).ver = ver
    BY <2>1 DEF Line, LogEntries, Values
  <2> QED BY <1>2, <1>3, <2>2 DEF Delete
<1>4. ASSUME NEW k \in Keys, NEW v \in Vals, Put(k, v) PROVE JournalShape'
  <2>1. pc # "down" /\ ver \in 1..MaxVersion
    BY <1>4 DEF Put, Begin, JournalConstants
  <2>2. Line("put", k, v, ver) \in LogEntries /\ Line("put", k, v, ver).ver = ver
    BY <2>1 DEF Line, LogEntries, Values
  <2> QED BY <1>2, <1>4, <2>2 DEF Put
<1>5. ASSUME AppendWrite PROVE JournalShape'
  <2>1. op \in LogEntries /\ log \in Logs
    BY <1>5 DEF AppendWrite
  <2>2. log' \in Logs
    BY <1>5, <2>1, AppendedLog DEF AppendWrite
  <2>3. Partial(log, op) \subseteq Logs
    BY <2>1, PartialLog
  <2> QED BY <1>5, <2>2, <2>3 DEF AppendWrite
<1>6. ASSUME AppendRefused PROVE JournalShape'
  BY <1>6 DEF AppendRefused
<1>7. ASSUME AppendSync PROVE JournalShape'
  <2>1. op \in LogEntries
    BY <1>7 DEF AppendSync
  <2>2. mem' \in Recs
    BY <1>7, <2>1 DEF AppendSync, Recs, LogEntries
  <2>3. log' \in logImages' /\ logImages' \subseteq Logs
    BY <1>7, FixedFiles DEF AppendSync
  <2> QED BY <1>7, <2>2, <2>3 DEF AppendSync
<1>8. ASSUME CheckpointRename PROVE JournalShape'
  <2>1. New \in Ckpts
    BY DEF New, Ckpts
  <2> QED BY <1>8, <2>1 DEF CheckpointRename
<1>9. ASSUME CheckpointDirSync PROVE JournalShape'
  BY <1>9 DEF CheckpointDirSync
<1>10. ASSUME ResetTruncate PROVE JournalShape'
  BY <1>10, FixedFiles DEF ResetTruncate
<1>11. ASSUME ResetSync PROVE JournalShape'
  <2>1. may' \in [Keys -> SUBSET Values]
    BY <1>11 DEF ResetSync, Settled, Recs
  <2>2. log' = EmptyLog
    BY <1>11 DEF ResetSync, Ordered
  <2> QED BY <1>11, <2>1, <2>2, FixedFiles DEF ResetSync
<1>12. ASSUME CallFails PROVE JournalShape'
  <2>1. /\ log' \in logImages' /\ logImages' \subseteq Logs /\ ckpt' = ckpt
        /\ ckptImages' = ckptImages
    <3>1. CASE pc # "append"
      BY <1>12, <3>1 DEF CallFails
    <3>2. CASE pc = "append"
      <4>1. op \in LogEntries /\ log \in Logs
        BY <3>2
      <4>2. log' \in Logs /\ logImages' = logImages \cup {log'}
        BY <1>12, <3>2, <4>1, PartialLog DEF CallFails
      <4> QED BY <1>12, <3>2, <4>2 DEF CallFails
    <3> QED BY <3>1, <3>2
  <2>2. dirty' \in BOOLEAN
    BY <1>12 DEF CallFails
  <2>3. /\ pc' \in {"down", "idle"} /\ ver' \in 0..MaxVersion /\ mem' \in Recs
        /\ pc' # "down" => ver' # 0
    BY <1>12, FixedFiles DEF CallFails, JournalConstants
  <2> QED BY <1>12, <2>1, <2>2, <2>3 DEF CallFails
<1>13. ASSUME Kill PROVE JournalShape'
  BY <1>13, FixedFiles DEF Kill, JournalConstants
<1>14. ASSUME PowerLoss PROVE JournalShape'
  BY <1>14, FixedFiles DEF PowerLoss, JournalConstants
<1>15. CASE UNCHANGED journalVars
  BY <1>15 DEF journalVars
<1> QED
  BY <1>1, <1>3, <1>4, <1>5, <1>6, <1>7, <1>8, <1>9, <1>10, <1>11, <1>12, <1>13, <1>14, <1>15
     DEF JournalNext

(* A checkpoint is complete and durable before the journal is reset. *)
LEMMA OrderedStep ==
  ASSUME Ordered, [JournalNext]_journalVars
  PROVE  Ordered'
<1> USE DEF Ordered, files, New
<1>1. ASSUME \E v \in 1..MaxVersion : Open(v) PROVE Ordered'
  BY <1>1 DEF Open
<1>2. ASSUME \E k \in Keys : Delete(k) \/ \E v \in Vals : Put(k, v) PROVE Ordered'
  BY <1>2 DEF Delete, Put, Begin
<1>3. ASSUME AppendWrite \/ AppendRefused \/ AppendSync PROVE Ordered'
  BY <1>3 DEF AppendWrite, AppendRefused, AppendSync
<1>4. ASSUME \/ CheckpointRename \/ CheckpointDirSync \/ ResetTruncate \/ ResetSync
      PROVE  Ordered'
  BY <1>4 DEF CheckpointRename, CheckpointDirSync, ResetTruncate, ResetSync
<1>5. ASSUME CallFails \/ Kill \/ PowerLoss PROVE Ordered'
  BY <1>5 DEF CallFails, Kill, PowerLoss
<1>6. CASE UNCHANGED journalVars
  BY <1>6 DEF journalVars
<1> QED BY <1>1, <1>2, <1>3, <1>4, <1>5, <1>6 DEF JournalNext

(* A replay of files whose values are known gives known values. *)
LEMMA KnownReplay ==
  ASSUME Known, NEW c \in ckptImages, NEW l \in logImages, l \in Logs, NEW k \in Keys
  PROVE  Over(c.recs, l)[k] \in may[k]
<1>1. CASE Touched(l, k) = {}
  BY <1>1, OverUntouched DEF Known
<1>2. CASE Touched(l, k) # {}
  <2>1. PICK i \in 1..Len(l.lines) : l.lines[i].key = k /\ Over(c.recs, l)[k] = l.lines[i].val
    BY <1>2, OverTouched
  <2> QED BY <2>1 DEF Known
<1> QED BY <1>1, <1>2

(* Every value in a file or under way is one that `may' names. *)
LEMMA KnownStep ==
  ASSUME JournalConstants, JournalShape, Ordered, Known, [JournalNext]_journalVars
  PROVE  Known'
<1> USE DEF files
<1>1. ASSUME NEW v \in 1..MaxVersion, Open(v) PROVE Known'
  <2>1. \A k \in Keys : mem'[k] \in may[k]
    BY <1>1, KnownReplay, ReplayedIsOver DEF Open, JournalShape
  <2> QED BY <1>1, <2>1 DEF Open, Known
<1>2. ASSUME NEW e, e.key \in Keys, Begin(e) PROVE Known'
  <2>1. /\ \A k \in Keys : may[k] \subseteq may'[k]
        /\ e.val \in may'[e.key]
    BY <1>2 DEF Begin, JournalShape
  <2> QED BY <1>2, <2>1 DEF Begin, Known
<1>3. ASSUME NEW k \in Keys, Delete(k) \/ \E v \in Vals : Put(k, v) PROVE Known'
  BY <1>2, <1>3 DEF Delete, Put, Line
<1>4. ASSUME AppendWrite PROVE Known'
  <2>1. op \in LogEntries /\ log \in Logs /\ log \in logImages /\ op.val \in may[op.key]
    BY <1>4 DEF AppendWrite, JournalShape, Known
  <2>2. ASSUME NEW i \in 1..Len(log'.lines), log'.lines[i].key \in Keys
        PROVE  log'.lines[i].val \in may[log'.lines[i].key]
    <3>1. /\ Len(log.lines) \in Nat /\ Len(log'.lines) = Len(log.lines) + 1
          /\ \A j \in 1..Len(log.lines) : log'.lines[j] = log.lines[j]
          /\ log'.lines[Len(log.lines) + 1] \in {op, Corrupt}
      BY <1>4, <2>1, AppendedLog DEF AppendWrite, Logs
    <3>2. CASE i \in 1..Len(log.lines)
      BY <2>1, <2>2, <3>1, <3>2 DEF Known
    <3>3. CASE i = Len(log.lines) + 1
      BY <2>1, <2>2, <3>1, <3>3, FixedFiles DEF JournalConstants
    <3> QED BY <3>1, <3>2, <3>3
  <2>3. ASSUME NEW l \in Partial(log, op) PROVE l.lines = log.lines
    BY <2>1, PartialLog
  <2> QED BY <1>4, <2>1, <2>2, <2>3 DEF AppendWrite, Known
<1>5. ASSUME AppendRefused PROVE Known'
  BY <1>5 DEF AppendRefused, Known
<1>6. ASSUME AppendSync PROVE Known'
  <2>1. op \in LogEntries /\ op.val \in may[op.key] /\ \A k \in Keys : mem[k] \in may[k]
    BY <1>6 DEF AppendSync, JournalShape, Known
  <2>2. \A k \in Keys : mem'[k] \in may[k]
    BY <1>6, <2>1 DEF AppendSync, JournalShape, Recs
  <2>3. \A l \in logImages' : l \in logImages \/ l.lines = <<>>
    BY <1>6, FixedFiles DEF AppendSync, JournalShape
  <2> QED BY <1>6, <2>2, <2>3 DEF AppendSync, Known
<1>7. ASSUME CheckpointRename PROVE Known'
  <2>1. New.recs = mem
    BY DEF New
  <2> QED BY <1>7, <2>1 DEF CheckpointRename, Known
<1>8. ASSUME CheckpointDirSync PROVE Known'
  BY <1>8 DEF CheckpointDirSync, Known, JournalShape
<1>9. ASSUME ResetTruncate PROVE Known'
  BY <1>9, FixedFiles DEF ResetTruncate, Known
<1>10. ASSUME ResetSync PROVE Known'
  <2>1. \A k \in Keys : may'[k] = {mem[k]}
    BY <1>10 DEF ResetSync, Settled
  <2>2. ckptImages' = {ckpt} /\ ckpt.recs = mem
    BY <1>10 DEF ResetSync, Ordered, New
  <2> QED BY <1>10, <2>1, <2>2, FixedFiles DEF ResetSync, Known
<1>11. ASSUME CallFails PROVE Known'
  <2>1. may' = may /\ ckptImages' = ckptImages /\ pc' \in {"down", "idle"}
    BY <1>11 DEF CallFails
  <2>2. ASSUME NEW l \in logImages' PROVE l \in logImages \/ l.lines = log.lines
    <3>1. CASE pc # "append"
      BY <1>11, <2>2, <3>1 DEF CallFails
    <3>2. CASE pc = "append"
      BY <1>11, <2>2, <3>2, PartialLog DEF CallFails, JournalShape
    <3> QED BY <3>1, <3>2
  <2>3. pc' # "down" => pc # "down" /\ mem' = mem
    BY <1>11 DEF CallFails
  <2> QED BY <2>1, <2>2, <2>3 DEF Known, JournalShape
<1>12. ASSUME Kill PROVE Known'
  BY <1>12 DEF Kill, Known
<1>13. ASSUME PowerLoss PROVE Known'
  BY <1>13 DEF PowerLoss, Known
<1>14. CASE UNCHANGED journalVars
  BY <1>14 DEF journalVars, Known
<1> QED
  BY <1>1, <1>3, <1>4, <1>5, <1>6, <1>7, <1>8, <1>9, <1>10, <1>11, <1>12, <1>13, <1>14
     DEF JournalNext

(* A daemon that runs has accepted, or written, every version in its files. *)
LEMMA NotNewerStep ==
  ASSUME JournalConstants, JournalShape, NotNewer, [JournalNext]_journalVars
  PROVE  NotNewer'
<1> USE DEF files
<1>1. ASSUME NEW v \in 1..MaxVersion, Open(v) PROVE NotNewer'
  <2>1. ckpt \in Ckpts /\ log \in Logs /\ v \in Nat /\ Recovery(v, ckpt, log) = "ok"
    BY <1>1 DEF Open, JournalShape, JournalConstants
  <2>2. /\ ckpt.ver = 0 \/ ckpt.ver \in 1..v
        /\ IsEntry(log.tail) => log.tail.ver \in 1..v
        /\ \A i \in 1..Len(log.lines) : log.lines[i].ver \in 1..v
    BY <2>1, RecoveryOk
  <2>3. log.tail \in LogEntries \cup {Torn, NoTail}
    BY <2>1 DEF Logs
  <2>4. log.tail.ver <= v
    BY <2>1, <2>2, <2>3, FixedFiles
  <2> QED BY <1>1, <2>1, <2>2, <2>4 DEF Open, NotNewer
<1>2. ASSUME \E k \in Keys : Delete(k) \/ \E v \in Vals : Put(k, v) PROVE NotNewer'
  BY <1>2 DEF Delete, Put, Begin, NotNewer
<1>3. ASSUME AppendWrite PROVE NotNewer'
  <2>1. op \in LogEntries /\ op.ver = ver /\ log \in Logs /\ pc # "down" /\ ver \in Nat
    BY <1>3 DEF AppendWrite, JournalShape, JournalConstants
  <2>2. /\ Len(log.lines) \in Nat /\ Len(log'.lines) = Len(log.lines) + 1
        /\ \A j \in 1..Len(log.lines) : log'.lines[j] = log.lines[j]
        /\ log'.lines[Len(log.lines) + 1] \in {op, Corrupt} /\ log'.tail = NoTail
    BY <1>3, <2>1, AppendedLog DEF AppendWrite, Logs
  <2>3. ASSUME NEW i \in 1..Len(log'.lines) PROVE log'.lines[i].ver <= ver
    <3>1. CASE i \in 1..Len(log.lines)
      BY <2>1, <2>2, <3>1 DEF NotNewer
    <3>2. CASE i = Len(log.lines) + 1
      BY <2>1, <2>2, <3>2, FixedFiles
    <3> QED BY <2>2, <3>1, <3>2
  <2> QED BY <1>3, <2>1, <2>2, <2>3, FixedFiles DEF AppendWrite, NotNewer
<1>4. ASSUME AppendRefused \/ AppendSync PROVE NotNewer'
  BY <1>4 DEF AppendRefused, AppendSync, NotNewer
<1>5. ASSUME CheckpointRename PROVE NotNewer'
  <2>1. New.ver = ver /\ ver \in Nat
    BY DEF New, JournalShape, JournalConstants
  <2> QED BY <1>5, <2>1 DEF CheckpointRename, NotNewer
<1>6. ASSUME ResetTruncate PROVE NotNewer'
  <2>1. ver \in Nat
    BY DEF JournalShape, JournalConstants
  <2> QED BY <1>6, <2>1, FixedFiles DEF ResetTruncate, NotNewer
<1>7. ASSUME CheckpointDirSync \/ ResetSync PROVE NotNewer'
  BY <1>7 DEF CheckpointDirSync, ResetSync, NotNewer
<1>8. ASSUME CallFails PROVE NotNewer'
  <2>1. SUFFICES ASSUME pc' # "down" PROVE NotNewer'
    BY DEF NotNewer
  <2>2. pc # "down" /\ ver' = ver /\ ckpt' = ckpt /\ ver \in Nat
    BY <1>8, <2>1 DEF CallFails, JournalShape, JournalConstants
  <2>3. CASE log' = log
    BY <2>2, <2>3 DEF NotNewer
  <2>4. CASE log' # log
    <3>1. pc = "append" /\ log' \in Partial(log, op)
      BY <1>8, <2>4 DEF CallFails
    <3>2. log \in Logs /\ op \in LogEntries /\ op.ver = ver
      BY <3>1 DEF JournalShape
    <3>3. log'.lines = log.lines /\ log'.tail \in {Torn, op}
      BY <3>1, <3>2, PartialLog
    <3>4. log'.tail.ver <= ver
      BY <2>2, <3>2, <3>3, FixedFiles
    <3> QED BY <2>2, <3>3, <3>4 DEF NotNewer
  <2> QED BY <2>3, <2>4
<1>9. ASSUME Kill \/ PowerLoss PROVE NotNewer'
  BY <1>9 DEF Kill, PowerLoss, NotNewer
<1>10. CASE UNCHANGED journalVars
  BY <1>10 DEF journalVars, NotNewer
<1> QED BY <1>1, <1>2, <1>3, <1>4, <1>5, <1>6, <1>7, <1>8, <1>9, <1>10 DEF JournalNext

(* The limit on records in memory and in every checkpoint. *)
LEMMA WithinLimitStep ==
  ASSUME JournalConstants, JournalShape, WithinLimit, [JournalNext]_journalVars
  PROVE  WithinLimit'
<1> USE DEF files, Mutated
<1>1. ASSUME NEW v \in 1..MaxVersion, Open(v) PROVE WithinLimit'
  <2>1. ckpt \in Ckpts /\ log \in Logs /\ Recovery(v, ckpt, log) = "ok" /\ Fits(ckpt.recs)
    BY <1>1 DEF Open, JournalShape, WithinLimit
  <2>2. ckpt.recs \in Recs
    BY <2>1 DEF Ckpts
  <2>3. IsFiniteSet(Present(Over(ckpt.recs, log)))
    BY <2>1, <2>2, OverFinite DEF Fits
  <2>4. ~(Cardinality(Present(Over(ckpt.recs, log))) > MaxRecords)
    BY <2>1, RecoveryOk
  <2>5. Cardinality(Present(Over(ckpt.recs, log))) <= MaxRecords
    BY <2>3, <2>4, FS_CardinalityType DEF JournalConstants
  <2>6. Fits(mem')
    BY <1>1, <2>3, <2>5, ReplayedIsOver DEF Open, Fits
  <2> QED BY <1>1, <2>6 DEF Open, WithinLimit
<1>2. ASSUME NEW e, Begin(e), Fits([mem EXCEPT ![e.key] = e.val]) PROVE WithinLimit'
  BY <1>2 DEF Begin, WithinLimit
<1>3. ASSUME NEW k \in Keys, Delete(k) PROVE WithinLimit'
  <2>1. Fits(mem) /\ mem \in Recs
    BY <1>3 DEF Delete, Begin, WithinLimit, JournalShape
  <2>2. Fits([mem EXCEPT ![k] = NoVal])
    BY <2>1, MutationFits
  <2> QED BY <1>2, <1>3, <2>2 DEF Delete, Line
<1>4. ASSUME NEW k \in Keys, NEW v \in Vals, Put(k, v) PROVE WithinLimit'
  <2>1. Fits(mem) /\ mem \in Recs
    BY <1>4 DEF Put, Begin, WithinLimit, JournalShape
  <2>2. mem[k] # NoVal \/ Cardinality(Present(mem)) < MaxRecords
    BY <1>4, SizeIsPresent DEF Put
  <2>3. Fits([mem EXCEPT ![k] = v])
    BY <2>1, <2>2, MutationFits
  <2> QED BY <1>2, <1>4, <2>3 DEF Put, Line
<1>5. ASSUME AppendWrite \/ AppendRefused PROVE WithinLimit'
  BY <1>5 DEF AppendWrite, AppendRefused, WithinLimit
<1>6. ASSUME AppendSync PROVE WithinLimit'
  BY <1>6 DEF AppendSync, WithinLimit
<1>7. ASSUME CheckpointRename PROVE WithinLimit'
  <2>1. New.recs = mem
    BY DEF New
  <2> QED BY <1>7, <2>1 DEF CheckpointRename, WithinLimit
<1>8. ASSUME CheckpointDirSync \/ ResetTruncate \/ ResetSync PROVE WithinLimit'
  BY <1>8 DEF CheckpointDirSync, ResetTruncate, ResetSync, WithinLimit, JournalShape
<1>9. ASSUME CallFails PROVE WithinLimit'
  <2>1. ckptImages' = ckptImages /\ pc' \in {"down", "idle"}
    BY <1>9 DEF CallFails
  <2>2. pc' # "down" => pc # "down" /\ mem' = mem
    BY <1>9 DEF CallFails
  <2> QED BY <2>1, <2>2 DEF WithinLimit
<1>10. ASSUME Kill \/ PowerLoss PROVE WithinLimit'
  BY <1>10 DEF Kill, PowerLoss, WithinLimit
<1>11. CASE UNCHANGED journalVars
  BY <1>11 DEF journalVars, WithinLimit
<1> QED BY <1>1, <1>3, <1>4, <1>5, <1>6, <1>7, <1>8, <1>9, <1>10, <1>11 DEF JournalNext

(* A step that leaves the files alone leaves what they say alone. *)
LEMMA SameFiles ==
  ASSUME JournalInv, ~dirty, UNCHANGED files
  PROVE  /\ Now' = Now /\ Clean
         /\ \A c \in ckptImages' : Over(c.recs, log)' = Now'
         /\ PairsFit'
         /\ \A l \in logImages' : \A i \in 1..Len(l.lines) : l.lines[i] \in LogEntries
<1>1. Clean
  BY DEF JournalInv
<1>2. Now' = Now
  BY DEF Now, files
<1> QED BY <1>1, <1>2 DEF Clean, Whole, Agreed, PairsFit, files

(* An append to a clean journal. *)
LEMMA CleanAppend ==
  ASSUME JournalConstants, JournalInv, ~dirty, AppendWrite
  PROVE  Clean'
<1>1. /\ pc = "append" /\ pc' = "sync" /\ op' = op /\ mem' = mem /\ ckpt' = ckpt
      /\ ckptImages' = ckptImages /\ log' = Appended(log, op)
      /\ logImages' = logImages \cup {log'} \cup Partial(log, op)
  BY DEF AppendWrite
<1>2. /\ op \in LogEntries /\ log \in Logs /\ log \in logImages /\ log.tail = NoTail
      /\ ckpt \in ckptImages /\ ckpt \in Ckpts /\ mem \in Recs
      /\ \A c \in ckptImages : c.recs \in Recs
  BY <1>1 DEF JournalInv, JournalShape, Clean, Whole, Ckpts
<1>3. mem = Now /\ Fits(Now) /\ Fits(Mutated) /\ Mutated \in Recs
  <2>1. mem = Now
    BY <1>1 DEF JournalInv, Clean, Agreed
  <2>2. Fits(mem) /\ Fits(Mutated)
    BY <1>1 DEF JournalInv, WithinLimit
  <2>3. Mutated \in Recs
    BY <1>2 DEF Mutated, Recs, LogEntries
  <2> QED BY <2>1, <2>2, <2>3
<1>4. ASSUME NEW c \in ckptImages PROVE Over(c.recs, log) = mem /\ Over(c.recs, log') = Mutated
  <2>1. Over(c.recs, log) = mem
    BY <1>3 DEF JournalInv, Clean, Agreed
  <2> QED BY <1>1, <1>2, <2>1, OverAppend DEF Mutated
<1>5. Now' = Mutated
  BY <1>1, <1>2, <1>4 DEF Now
<1>6. Agreed'
  <2>1. Mutated' = Mutated
    BY <1>1 DEF Mutated
  <2>2. \A c \in ckptImages' : Over(c.recs, log') = Now'
    BY <1>1, <1>4, <1>5
  <2> QED BY <1>1, <1>5, <2>1, <2>2 DEF Agreed
<1>7. /\ Len(log.lines) \in Nat /\ Len(log'.lines) = Len(log.lines) + 1
      /\ \A j \in 1..Len(log.lines) : log'.lines[j] = log.lines[j]
      /\ log'.lines[Len(log.lines) + 1] = op /\ log'.tail = NoTail
  BY <1>1, <1>2, AppendedLog DEF Logs
<1>8. \A l \in Partial(log, op) : l.lines = log.lines
  BY <1>2, PartialLog
<1>9. Whole'
  <2>1. \A i \in 1..Len(log'.lines) : log'.lines[i] \in LogEntries
    BY <1>2, <1>7 DEF JournalInv, Clean, Whole
  <2>2. \A l \in logImages' : \A i \in 1..Len(l.lines) : l.lines[i] \in LogEntries
    BY <1>1, <1>2, <1>8, <2>1 DEF JournalInv, Clean, Whole
  <2> QED BY <1>7, <2>2 DEF Whole
<1>10. Stale'
  <2>1. log' # EmptyLog
    <3>1. Len(EmptyLog.lines) = 0
      BY FixedFiles, EmptySeq
    <3> QED BY <1>7, <3>1
  <2> QED BY <1>1, <2>1 DEF Stale, Ends
<1>11. ASSUME NEW l \in logImages
       PROVE  Fits(Over(Mutated, l)) /\ \A c \in ckptImages : Fits(Over(c.recs, l))
  <2>1. Over(mem, l) = mem /\ l \in Logs
    BY <1>1, <1>3 DEF JournalInv, Clean, Stale, JournalShape
  <2>2. op.key \in Keys
    BY <1>2 DEF LogEntries
  <2>3. Over(Mutated, l) \in {mem, Mutated}
    BY <1>2, <2>1, <2>2, OverStale DEF Mutated
  <2> QED BY <1>3, <2>3 DEF JournalInv, Clean, PairsFit
<1>12. ASSUME NEW l \in Partial(log, op), NEW r PROVE Over(r, l) = Over(r, log)
  BY <1>8, OverTail
<1>13. Fits(Over(Mutated, log')) /\ \A c \in ckptImages : Fits(Over(c.recs, log'))
  <2>1. Over(Now', log') = Now'
    BY OverTwice DEF Now
  <2> QED BY <1>3, <1>4, <1>5, <2>1
<1>14. PairsFit'
  <2>1. ASSUME NEW l \in logImages'
        PROVE  Fits(Over(Mutated, l)) /\ \A c \in ckptImages : Fits(Over(c.recs, l))
    BY <1>1, <1>2, <1>11, <1>12, <1>13
  <2> QED BY <1>1, <1>5, <2>1 DEF PairsFit
<1> QED BY <1>6, <1>9, <1>10, <1>14 DEF Clean

(* Every other step: as long as no append has failed half-way and no Open   *)
(* was interrupted in its reset, the files stay clean.                      *)
LEMMA CleanStep ==
  ASSUME JournalConstants, JournalInv, [JournalNext]_journalVars, ~dirty'
  PROVE  Clean'
<1> USE DEF Ends
<1>1. ASSUME NEW v \in 1..MaxVersion, Open(v) PROVE Clean'
  <2>1. ~dirty /\ UNCHANGED files /\ pc = "down" /\ op' = Opening
    BY <1>1 DEF Open
  <2>2. mem' = Now
    BY <1>1, ReplayedIsOver DEF Open, Now
  <2>3. (pc' = "rename" /\ ~OpenResets') \/ (pc' = "idle" /\ log = EmptyLog)
    BY <1>1 DEF Open, OpenResets
  <2>4. log' = log /\ logImages' = logImages
    BY <2>1 DEF files
  <2>5. Whole' /\ Agreed'
    BY <2>1, <2>2, <2>3, <2>4, SameFiles, FixedFiles DEF Whole, Agreed
  <2>6. log = EmptyLog => \A l \in logImages : Over(Now, l) = Now
    BY <2>1, SameFiles DEF Clean, Stale, OpenResets
  <2>7. Stale'
    BY <2>1, <2>3, <2>4, <2>6, SameFiles DEF Stale
  <2> QED BY <2>1, <2>5, <2>7, SameFiles DEF Clean
<1>2. ASSUME NEW e, Begin(e) PROVE Clean'
  <2>1. ~dirty /\ UNCHANGED files /\ pc = "idle" /\ pc' = "append" /\ mem' = mem
    BY <1>2 DEF Begin
  <2>2. log' = log /\ logImages' = logImages
    BY <2>1 DEF files
  <2>3. Whole' /\ Agreed' /\ Stale'
    BY <2>1, <2>2, SameFiles DEF Clean, Whole, Agreed, Stale
  <2> QED BY <2>1, <2>3, SameFiles DEF Clean
<1>3. ASSUME \E k \in Keys : Delete(k) \/ \E v \in Vals : Put(k, v) PROVE Clean'
  BY <1>2, <1>3 DEF Delete, Put
<1>4. ASSUME AppendWrite PROVE Clean'
  BY <1>4, CleanAppend DEF AppendWrite
<1>5. ASSUME AppendRefused PROVE Clean'
  <2>1. /\ ~dirty /\ UNCHANGED files /\ pc = "append" /\ pc' = "idle"
        /\ mem' = mem /\ op' = op
    BY <1>5 DEF AppendRefused
  <2>2. log' = log /\ logImages' = logImages
    BY <2>1 DEF files
  <2>3. Whole' /\ Agreed' /\ Stale'
    BY <2>1, <2>2, SameFiles DEF Clean, Whole, Agreed, Stale
  <2> QED BY <2>1, <2>3, SameFiles DEF Clean
<1>6. ASSUME AppendSync PROVE Clean'
  <2>1. /\ ~dirty /\ pc = "sync" /\ pc' = "rename" /\ op' = op /\ log' = log
        /\ ckpt' = ckpt /\ ckptImages' = ckptImages /\ mem' = Mutated
        /\ logImages' \subseteq {log, EmptyLog}
    BY <1>6 DEF AppendSync, Mutated
  <2>2. Clean /\ Now' = Now /\ mem' = Now
    BY <2>1 DEF JournalInv, Clean, Agreed, Now
  <2>3. /\ log \in logImages /\ log.tail = NoTail /\ Now \in Recs
        /\ \A c \in ckptImages : c.recs \in Recs
    <3>1. op # Opening /\ log \in logImages
      BY <2>1, FixedFiles DEF JournalInv, JournalShape
    <3>2. log \in Logs /\ \A c \in ckptImages : c.recs \in Recs
      BY DEF JournalInv, JournalShape, Ckpts
    <3>3. Now \in Recs
      BY <3>2, OverType DEF Now, JournalInv, JournalShape
    <3> QED BY <2>1, <2>2, <3>1, <3>2, <3>3 DEF Clean, Whole
  <2>4. Over(Now, log) = Now
    BY OverTwice DEF Now
  <2>5. Over(Now, EmptyLog) = Now /\ \A c \in ckptImages : Over(c.recs, EmptyLog) = c.recs
    BY <2>3, OverEmpty, FixedFiles
  <2>6. Whole'
    BY <2>1, <2>2, <2>3, FixedFiles DEF Clean, Whole
  <2>7. Agreed'
    BY <2>1, <2>2 DEF Clean, Agreed
  <2>8. Stale'
    BY <2>1, <2>2, <2>4, <2>5 DEF Stale
  <2>9. Fits(Now) /\ \A c \in ckptImages : Fits(c.recs) /\ Fits(Over(c.recs, log))
    <3>1. \A c \in ckptImages : Fits(c.recs) /\ Fits(Over(c.recs, log))
      BY <2>2, <2>3 DEF JournalInv, WithinLimit, Clean, PairsFit
    <3> QED BY <3>1 DEF Now, JournalInv, JournalShape
  <2>10. PairsFit'
    <3>1. ASSUME NEW l \in {log, EmptyLog}
          PROVE  Fits(Over(Now, l)) /\ \A c \in ckptImages : Fits(Over(c.recs, l))
      BY <2>4, <2>5, <2>9
    <3> QED BY <2>1, <2>2, <3>1 DEF PairsFit
  <2> QED BY <2>6, <2>7, <2>8, <2>10 DEF Clean
<1>7. ASSUME CheckpointRename PROVE Clean'
  <2>1. /\ ~dirty /\ pc = "rename" /\ pc' = "dirsync" /\ op' = op /\ log' = log
        /\ ckpt' = New /\ ckptImages' = ckptImages \cup {New} /\ mem' = mem
        /\ logImages' = logImages /\ New.recs = mem
    BY <1>7 DEF CheckpointRename, New
  <2>2. Clean /\ mem = Now
    BY <2>1 DEF JournalInv, Clean, Agreed
  <2>3. Over(Now, log) = Now
    BY OverTwice DEF Now
  <2>4. Now' = Now
    BY <2>1, <2>2, <2>3 DEF Now
  <2>5. Whole' /\ Agreed'
    BY <2>1, <2>2, <2>3, <2>4 DEF Clean, Whole, Agreed
  <2>6. Stale'
    BY <2>1, <2>2, <2>4 DEF Clean, Stale, OpenResets
  <2>7. PairsFit'
    BY <2>1, <2>2, <2>4 DEF Clean, PairsFit
  <2> QED BY <2>5, <2>6, <2>7 DEF Clean
<1>8. ASSUME CheckpointDirSync PROVE Clean'
  <2>1. /\ ~dirty /\ pc = "dirsync" /\ pc' = "reset" /\ op' = op /\ log' = log
        /\ ckpt' = ckpt /\ ckptImages' \subseteq ckptImages /\ mem' = mem
        /\ logImages' \subseteq logImages
    BY <1>8 DEF CheckpointDirSync, JournalInv, JournalShape
  <2>2. Clean /\ Now' = Now
    BY <2>1 DEF JournalInv, Now
  <2>3. Whole' /\ Agreed' /\ PairsFit'
    BY <2>1, <2>2 DEF Clean, Whole, Agreed, PairsFit
  <2>4. Stale'
    BY <2>1, <2>2 DEF Clean, Stale, OpenResets
  <2> QED BY <2>3, <2>4 DEF Clean
<1>9. ASSUME ResetTruncate PROVE Clean'
  <2>1. /\ ~dirty /\ pc = "reset" /\ pc' = "resetsync" /\ op' = op /\ log' = EmptyLog
        /\ ckpt' = ckpt /\ ckptImages' = {ckpt} /\ ckpt.recs = mem /\ mem' = mem
        /\ logImages' = logImages \cup {EmptyLog}
    BY <1>9 DEF ResetTruncate, JournalInv, Ordered, New
  <2>2. Clean /\ mem = Now /\ mem \in Recs
    BY <2>1 DEF JournalInv, JournalShape, Clean, Agreed
  <2>3. Over(mem, EmptyLog) = mem
    BY <2>2, OverEmpty, FixedFiles
  <2>4. Now' = Now
    BY <2>1, <2>2, <2>3 DEF Now
  <2>5. Whole'
    <3>1. \A i \in 1..Len(EmptyLog.lines) : FALSE
      BY FixedFiles, EmptySeq
    <3> QED BY <2>1, <2>2, <3>1, FixedFiles DEF Clean, Whole
  <2>6. Agreed'
    BY <2>1, <2>2, <2>3, <2>4 DEF Agreed
  <2>7. Stale'
    <3>1. op # Opening => \A l \in logImages : Over(Now, l) = Now
      BY <2>1, <2>2 DEF Clean, Stale
    <3> QED BY <2>1, <2>2, <2>3, <2>4, <3>1 DEF Stale, OpenResets
  <2>8. Fits(mem)
    BY <2>1 DEF JournalInv, WithinLimit
  <2>9. PairsFit'
    <3>1. ASSUME NEW l \in logImages' PROVE Fits(Over(mem, l))
      BY <2>1, <2>2, <2>3, <2>8 DEF Clean, PairsFit
    <3> QED BY <2>1, <2>2, <2>4, <3>1 DEF PairsFit
  <2> QED BY <2>5, <2>6, <2>7, <2>9 DEF Clean
<1>10. ASSUME ResetSync PROVE Clean'
  <2>1. /\ pc' = "idle" /\ log' = EmptyLog /\ ckpt' = ckpt /\ ckptImages' = {ckpt}
        /\ ckpt.recs = mem /\ mem' = mem /\ logImages' = {EmptyLog}
        /\ Fits(mem) /\ mem \in Recs
    BY <1>10 DEF ResetSync, JournalInv, Ordered, WithinLimit, JournalShape, New
  <2>2. Over(mem, EmptyLog) = mem
    BY <2>1, OverEmpty, FixedFiles
  <2>3. Now' = mem
    BY <2>1, <2>2 DEF Now
  <2>4. Whole'
    BY <2>1, FixedFiles DEF Whole
  <2>5. Agreed' /\ Stale'
    BY <2>1, <2>2, <2>3 DEF Agreed, Stale
  <2>6. PairsFit'
    BY <2>1, <2>2, <2>3 DEF PairsFit
  <2> QED BY <2>4, <2>5, <2>6 DEF Clean
<1>11. ASSUME CallFails PROVE Clean'
  <2>1. ~dirty /\ pc # "sync" /\ ~OpenResets /\ UNCHANGED files
    <3>1. CASE pc # "append"
      BY <1>11, <3>1 DEF CallFails, JournalInv, JournalShape
    <3>2. CASE pc = "append"
      <4>1. ~dirty /\ log' = log /\ logImages' = logImages \cup {log'}
        BY <1>11, <3>2 DEF CallFails
      <4>2. UNCHANGED <<ckpt, ckptImages, named>>
        BY <1>11, <3>2 DEF CallFails
      <4>3. logImages' = logImages
        BY <4>1 DEF JournalInv, JournalShape
      <4> QED BY <3>2, <4>1, <4>2, <4>3 DEF OpenResets, files
    <3> QED BY <3>1, <3>2
  <2>2. log' = log /\ logImages' = logImages /\ op' = op
    BY <1>11, <2>1 DEF files, CallFails
  <2>3. CASE op = Opening
    <3>1. pc' = "down"
      BY <1>11, <2>3 DEF CallFails
    <3>2. Whole' /\ Agreed'
      BY <2>1, <2>2, <2>3, <3>1, SameFiles DEF Whole, Agreed
    <3>3. Stale'
      BY <2>1, <2>2, <2>3, <3>1, SameFiles DEF Clean, Stale
    <3> QED BY <2>1, <3>2, <3>3, SameFiles DEF Clean
  <2>4. CASE op # Opening
    <3>1. pc' = "idle" /\ mem' = mem /\ pc \in {"append"} \cup Ends
      BY <1>11, <2>1, <2>4 DEF CallFails, JournalInv, JournalShape
    <3>2. Whole' /\ Agreed'
      BY <2>1, <2>2, <2>4, <3>1, SameFiles DEF Clean, Whole, Agreed
    <3>3. Stale'
      BY <2>1, <2>2, <2>4, <3>1, SameFiles DEF Clean, Stale
    <3> QED BY <2>1, <3>2, <3>3, SameFiles DEF Clean
  <2> QED BY <2>3, <2>4
<1>12. ASSUME Kill PROVE Clean'
  <2>1. /\ ~dirty /\ ~OpenResets /\ UNCHANGED files /\ pc' = "down"
        /\ op' = Opening
    BY <1>12 DEF Kill
  <2>2. log' = log /\ logImages' = logImages
    BY <2>1 DEF files
  <2>3. Whole' /\ Agreed' /\ Stale'
    BY <2>1, <2>2, SameFiles DEF Clean, Whole, Agreed, Stale
  <2> QED BY <2>1, <2>3, SameFiles DEF Clean
<1>13. ASSUME PowerLoss PROVE Clean'
  <2>1. /\ ~dirty /\ ckpt' \in ckptImages /\ log' \in logImages /\ ckptImages' = {ckpt'}
        /\ logImages' = {log'} /\ pc' = "down" /\ op' = Opening
    BY <1>13 DEF PowerLoss
  <2>2. Over(Now', log') = Now' /\ Now' = Over(ckpt'.recs, log')
    BY OverTwice DEF Now
  <2>3. Fits(Now')
    BY <2>1, <2>2 DEF JournalInv, Clean, PairsFit
  <2>4. Whole'
    BY <2>1 DEF JournalInv, Clean, Whole
  <2>5. Agreed' /\ Stale'
    BY <2>1, <2>2 DEF Agreed, Stale
  <2>6. PairsFit'
    BY <2>1, <2>2, <2>3 DEF PairsFit
  <2> QED BY <2>4, <2>5, <2>6 DEF Clean
<1>14. CASE UNCHANGED journalVars
  <2>1. ~dirty /\ UNCHANGED files /\ UNCHANGED <<pc, op, mem>>
    BY <1>14 DEF journalVars, files
  <2>2. log' = log /\ logImages' = logImages
    BY <2>1 DEF files
  <2>3. Whole' /\ Agreed' /\ Stale'
    BY <2>1, <2>2, SameFiles DEF Clean, Whole, Agreed, Stale, OpenResets, Mutated
  <2> QED BY <2>1, <2>3, SameFiles DEF Clean
<1> QED
  BY <1>1, <1>3, <1>4, <1>5, <1>6, <1>7, <1>8, <1>9, <1>10, <1>11, <1>12, <1>13, <1>14
     DEF JournalNext

(* JournalInv is an inductive invariant of the journal, for any bounds. *)
LEMMA JournalInductive ==
  ASSUME JournalConstants
  PROVE  JournalSpec => []JournalInv
<1>1. JournalInit => JournalInv
  BY JournalInitOk
<1>2. JournalInv /\ [JournalNext]_journalVars => JournalInv'
  BY JournalShapeStep, OrderedStep, KnownStep, NotNewerStep, WithinLimitStep, CleanStep
     DEF JournalInv
<1> QED BY <1>1, <1>2, PTL DEF JournalSpec

(* Whatever a crash leaves on disk at any moment, an Open that accepts it    *)
(* shows for every key the last acknowledged value or one that a failed or   *)
(* interrupted mutation since then wrote.                                    *)
THEOREM JournalAckedSurvives == JournalSpec => []AckedSurvives
<1> SUFFICES ASSUME JournalConstants PROVE JournalSpec => []AckedSurvives
  BY JournalConstantsHold
<1>1. JournalInv => AckedSurvives
  <2> SUFFICES ASSUME JournalInv, NEW i \in Images, NEW k \in Keys
               PROVE  Replayed(i.c, i.l)[k] \in may[k]
    BY DEF AckedSurvives
  <2>1. i.c \in ckptImages /\ i.l \in logImages
    BY DEF Images
  <2>2. i.l \in Logs /\ Known
    BY <2>1 DEF JournalInv, JournalShape
  <2>3. Over(i.c.recs, i.l)[k] \in may[k]
    BY <2>1, <2>2, KnownReplay
  <2> QED BY <2>3, ReplayedIsOver
<1> QED BY <1>1, JournalInductive, PTL

(* Until an append fails half-way or an Open is interrupted in its reset,    *)
(* every pair of files a crash can leave is accepted by the newest daemon: a *)
(* torn last line is cut off and no pair exceeds the record limit.           *)
THEOREM JournalCrashIsReadable == JournalSpec => []CrashIsReadable
<1> SUFFICES ASSUME JournalConstants PROVE JournalSpec => []CrashIsReadable
  BY JournalConstantsHold
<1>1. JournalInv => CrashIsReadable
  <2> SUFFICES ASSUME JournalInv, ~dirty, NEW i \in Images
               PROVE  Recovery(MaxVersion, i.c, i.l) = "ok"
    BY DEF CrashIsReadable
  <2>1. PICK c \in ckptImages, l \in logImages : c = i.c /\ l = i.l
    BY DEF Images
  <2>2. c \in Ckpts /\ l \in Logs
    BY DEF JournalInv, JournalShape
  <2>3. c.ver = 0 \/ c.ver \in 1..MaxVersion
    BY <2>2 DEF Ckpts, JournalConstants
  <2>4. IsEntry(l.tail) => l.tail.ver \in 1..MaxVersion
    BY <2>2, FixedFiles DEF Logs, LogEntries
  <2>5. \A j \in 1..Len(l.lines) : IsEntry(l.lines[j]) /\ l.lines[j].ver \in 1..MaxVersion
    <3>1. \A j \in 1..Len(l.lines) : l.lines[j] \in LogEntries
      BY DEF JournalInv, Clean, Whole
    <3> QED BY <3>1, FixedFiles DEF LogEntries
  <2>6. ~(Cardinality(Present(Over(c.recs, l))) > MaxRecords)
    <3>1. Fits(Over(c.recs, l))
      BY DEF JournalInv, Clean, PairsFit
    <3>2. Cardinality(Present(Over(c.recs, l))) \in Nat
      BY <3>1, FS_CardinalityType DEF Fits
    <3> QED BY <3>1, <3>2 DEF Fits, JournalConstants
  <2>7. Recovery(MaxVersion, c, l) = "ok"
    BY <2>2, <2>3, <2>4, <2>5, <2>6, RecoveryOk
  <2> QED BY <2>1, <2>7
<1> QED BY <1>1, JournalInductive, PTL

(* No step of a daemon changes files that hold a newer schema than its own:  *)
(* what it runs on it has understood, and what it writes has its version.    *)
THEOREM JournalNewerSchemaUntouched == JournalSpec => NewerSchemaUntouched
<1> SUFFICES ASSUME JournalConstants PROVE JournalSpec => NewerSchemaUntouched
  BY JournalConstantsHold
<1>1. JournalInv /\ pc # "down" => Newest(ckpt, log) <= ver
  <2> SUFFICES ASSUME JournalInv, pc # "down" PROVE Newest(ckpt, log) <= ver
    OBVIOUS
  <2> DEFINE S == {ckpt.ver, log.tail.ver} \cup {log.lines[i].ver : i \in 1..Len(log.lines)}
  <2>1. ver \in Nat /\ ckpt \in Ckpts /\ log \in Logs
    BY DEF JournalInv, JournalShape, JournalConstants
  <2>2. ckpt.ver \in Nat /\ log.tail.ver \in Nat
    BY <2>1, FixedFiles DEF Ckpts, Logs, LogEntries, JournalConstants
  <2>3. ASSUME NEW i \in 1..Len(log.lines) PROVE log.lines[i].ver \in Nat
    <3>1. log.lines[i] \in LogEntries \cup {Corrupt}
      BY <2>1, ElementOfSeq DEF Logs
    <3> QED BY <3>1, FixedFiles DEF LogEntries, JournalConstants
  <2>4. \A x \in S : x \in Nat /\ x <= ver
    BY <2>2, <2>3 DEF JournalInv, NotNewer
  <2>5. S \in SUBSET (0..ver) /\ S # {}
    BY <2>1, <2>4
  <2>6. Newest(ckpt, log) = Max(S)
    BY DEF Newest
  <2> HIDE DEF S
  <2>7. Max(S) \in S
    BY <2>1, <2>5, GreatestLine
  <2> QED BY <2>4, <2>6, <2>7
<1>2. JournalInv /\ [JournalNext]_journalVars =>
        [pc # "down" /\ pc' # "down" /\ <<ckpt, log>>' # <<ckpt, log>>
           => Newest(ckpt, log) <= ver]_journalVars
  BY <1>1
<1> QED BY <1>2, JournalInductive, PTL DEF JournalSpec, NewerSchemaUntouched
==============================================================================
