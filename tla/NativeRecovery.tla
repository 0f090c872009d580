--------------------------- MODULE NativeRecovery ---------------------------
(***************************************************************************)
(* internal/nativerecovery: Reconcile settles a lost writer, Resume starts *)
(* its successor at most once per request.  Resume consumes the request in *)
(* a decision journal (one file per conversation) before the supervisor    *)
(* may fork, so a crash anywhere cannot repeat it.  A call holds the       *)
(* writer's fence and recovery.lock from its first read to its last write: *)
(* calls do not interleave, but processes, receipts, the clock, crashes    *)
(* and failing writes interleave with every step of one.                   *)
(*                                                                         *)
(* The Runtime ports are external, modelled by what their contract and     *)
(* agentd's implementation say: ProveAbsent is truthful, Attempt may leave *)
(* a fork it could not confirm, registered under the old binding.          *)
(***************************************************************************)
EXTENDS Integers, FiniteSets, FiniteSetsExt, Sequences

CONSTANTS
  Sessions,     \* owned conversations
  Requests,     \* ResumeIntent.RequestID
  Ops,          \* native operations with a receipt
  Grants,       \* policies; a person may continue under a new one
  End,          \* when a grant's window closes
  MaxTime,
  MaxRev,       \* bound on the binding revisions of each conversation
  MaxAttempts,  \* attempts of one journal (32)
  MaxSessions,  \* journals of one state directory (128)
  Idle

ASSUME EndOk == End \in [Grants -> 0..MaxTime]
ASSUME BoundsOk == MaxTime \in Nat /\ MaxRev \in [Sessions -> Nat \ {0}] /\ MaxAttempts \in Nat /\ MaxSessions \in Nat

Revs == 1..Max({MaxRev[s] : s \in Sessions})
\* hand_back is refused: it belongs to takeover.
Reasons == {"person_continue", "approved_restart"}

VARIABLES
  now,          \* the clock
  file,         \* decision journals as a reader sees them
  disk,         \* decision journals as a power loss leaves them
  call,         \* the Resume in progress, or Idle
  poisoned,     \* the coordinator refuses after an ambiguous write
  cur,          \* revision of the conversation's current binding
  grant,        \* policy of the current binding
  proc,         \* native processes alive, by the revision they run for
  occupied,     \* the owner's ledger counts a possible writer
  callbacks,    \* revisions whose approvals and controllers still answer
  effects,      \* operations of the current binding not proven complete
  forks,        \* history: forks each intent (a request for a binding) caused
  restarts      \* history: forks a grant's bounded restart caused

journals == <<file, disk>>
owner == <<cur, grant, proc, occupied, callbacks>>
history == <<forks, restarts>>
vars == <<now, journals, call, poisoned, owner, effects, history>>

Empty == [auto |-> FALSE, attempts |-> <<>>]

Init ==
  /\ now = 0
  /\ file = [s \in Sessions |-> Empty] /\ disk = file
  /\ call = Idle /\ poisoned = FALSE
  /\ cur = [s \in Sessions |-> 1]
  /\ grant \in [Sessions -> Grants]
  /\ proc = [s \in Sessions |-> {1}]
  /\ occupied = [s \in Sessions |-> TRUE]
  /\ callbacks = [s \in Sessions |-> {1}]
  /\ effects = [s \in Sessions |-> {}]
  /\ forks = [s \in Sessions |-> [i \in Requests \X Revs |-> 0]]
  /\ restarts = [s \in Sessions |-> [g \in Grants |-> 0]]

-----------------------------------------------------------------------------
(* The environment.                                                         *)

Tick ==
  /\ now < MaxTime /\ now' = now + 1
  /\ UNCHANGED <<journals, call, poisoned, owner, effects, history>>

WriterExits(s) ==
  /\ proc[s] # {}
  /\ proc' = [proc EXCEPT ![s] = {}]
  /\ UNCHANGED <<now, journals, call, poisoned, cur, grant, occupied, callbacks, effects, history>>

\* A running writer starts an operation; a late receipt proves one complete.
EffectStarts(s, o) ==
  /\ proc[s] # {} /\ o \notin effects[s]
  /\ effects' = [effects EXCEPT ![s] = @ \cup {o}]
  /\ UNCHANGED <<now, journals, call, poisoned, owner, history>>

EffectSettles(s, o) ==
  /\ o \in effects[s]
  /\ effects' = [effects EXCEPT ![s] = @ \ {o}]
  /\ UNCHANGED <<now, journals, call, poisoned, owner, history>>

\* Takeover and hand-back move the binding on under the same fence, without
\* this package.
TakeOver(s) ==
  /\ IF call = Idle THEN TRUE ELSE call.sess # s
  /\ proc[s] = {} /\ cur[s] < MaxRev[s]
  /\ cur' = [cur EXCEPT ![s] = @ + 1]
  /\ proc' = [proc EXCEPT ![s] = {cur[s] + 1}]
  /\ occupied' = [occupied EXCEPT ![s] = TRUE]
  /\ callbacks' = [callbacks EXCEPT ![s] = {cur[s] + 1}]
  /\ effects' = [effects EXCEPT ![s] = {}]
  /\ UNCHANGED <<now, journals, call, poisoned, grant, history>>

\* The daemon dies; native processes survive it.  A power loss also reverts
\* what no fsync had confirmed.
Crash ==
  /\ call' = Idle /\ poisoned' = FALSE
  /\ file' \in {file, disk}
  /\ UNCHANGED <<now, disk, owner, effects, history>>

\* The host opens a coordinator per request; poison belongs to the handle.
NewCoordinator ==
  /\ call = Idle /\ poisoned /\ poisoned' = FALSE
  /\ UNCHANGED <<now, journals, call, owner, effects, history>>

-----------------------------------------------------------------------------
(* settle and Reconcile.                                                    *)

Expired(s) == callbacks' = [callbacks EXCEPT ![s] = @ \ {cur[s]}]

\* Mutant of SettleOk: the absence of the process is not proven.
SettleOkUnproven(s) == Expired(s) /\ occupied' = [occupied EXCEPT ![s] = FALSE]

\* Mutant of SettleOk: callbacks outlive the writer.
SettleOkLate(s) == proc[s] = {} /\ occupied' = [occupied EXCEPT ![s] = FALSE] /\ UNCHANGED callbacks

\* Callbacks expire, absence is proven and confirmed.
SettleOk(s) ==
  /\ proc[s] = {}
  /\ Expired(s)
  /\ occupied' = [occupied EXCEPT ![s] = FALSE]

\* No proof: callbacks are gone, the ledger keeps its occupancy.
SettleFails(s) == Expired(s) /\ UNCHANGED occupied

\* Reconcile after a lost daemon or child.  It never launches; for a lost
\* viewer or API it only reads.
Reconcile(s) ==
  /\ call = Idle /\ ~poisoned
  /\ SettleOk(s) \/ SettleFails(s)
  /\ UNCHANGED <<now, journals, call, poisoned, cur, grant, proc, effects, history>>

-----------------------------------------------------------------------------
(* The decision journal.                                                    *)

\* State.Write succeeds durably, or fails with either content in either view.
Saved(s, j) ==
  /\ file' = [file EXCEPT ![s] = j]
  /\ disk' = [disk EXCEPT ![s] = j]

SaveAmbiguous(s, j) ==
  /\ \E f, k \in {file[s], j} :
       file' = [file EXCEPT ![s] = f] /\ disk' = [disk EXCEPT ![s] = k]
  /\ poisoned' = TRUE

Entries(s) == {file[s].attempts[i] : i \in 1..Len(file[s].attempts)}

\* Mutant of Reclaimable: a spent restart is forgotten with its binding.
ReclaimableSpent(t) ==
  /\ file[t].attempts # <<>>
  /\ \A a \in Entries(t) : a.complete
  /\ (\A a \in Entries(t) : now >= a.retain) \/ (\A a \in Entries(t) : cur[t] > a.next)

\* Every attempt is complete, and either all are past their window or the
\* binding has moved on and no restart was spent.
Reclaimable(t) ==
  /\ file[t].attempts # <<>>
  /\ \A a \in Entries(t) : a.complete
  /\ \/ \A a \in Entries(t) : now >= a.retain
     \/ ~file[t].auto /\ \A a \in Entries(t) : cur[t] > a.next

Full(s) ==
  file[s] = Empty /\ Cardinality({t \in Sessions : file[t] # Empty}) >= MaxSessions

-----------------------------------------------------------------------------
(* Resume.                                                                  *)

\* Mutant of Consumed: only a completed attempt counts.
ConsumedComplete(s, q) == \E a \in Entries(s) : a.req = q /\ a.complete

\* A request id with an attempt is never tried again: it is answered from the
\* journal when complete and the intent is the same, and refused otherwise.
Consumed(s, q) == \E a \in Entries(s) : a.req = q

Stage(x) == call' = [call EXCEPT !.stage = x]

Resume(q, s, reason, expected) ==
  /\ call = Idle /\ ~poisoned
  /\ call' = [stage |-> "read", req |-> q, sess |-> s, reason |-> reason, expected |-> expected,
              seen |-> {}, next |-> 0, to |-> grant[s]]
  /\ UNCHANGED <<now, journals, poisoned, owner, effects, history>>

\* Any refusal, port error or deadline ends the call where it stands.
Fail ==
  /\ call # Idle /\ call' = Idle
  /\ UNCHANGED <<now, journals, poisoned, owner, effects, history>>

\* A full directory gives up one obsolete journal.
Reclaim(t) ==
  /\ call # Idle
  /\ call.stage = "read" /\ Full(call.sess) /\ Reclaimable(t)
  /\ \/ Saved(t, Empty) /\ UNCHANGED <<call, poisoned>>
     \/ SaveAmbiguous(t, Empty) /\ call' = Idle
  /\ UNCHANGED <<now, owner, effects, history>>

\* The receipts of the current binding that are not proven complete.
Effects(s) == effects[s]

\* A restart is allowed once, in the window of the grant it was approved with.
Bounded(s, used) == ~used /\ now < End[grant[s]]

\* The journal has neither the request nor a full list (save checks the
\* length again), the binding is the current one, and a
\* restart is unspent, in its window and without effects.
ReadState ==
  /\ call # Idle
  /\ call.stage = "read" /\ ~Full(call.sess)
  /\ ~Consumed(call.sess, call.req)
  /\ Len(file[call.sess].attempts) < MaxAttempts
  /\ call.expected = cur[call.sess]
  /\ call.reason = "approved_restart" =>
       Bounded(call.sess, file[call.sess].auto) /\ Effects(call.sess) = {}
  /\ call' = [call EXCEPT !.stage = "settle", !.seen = Effects(call.sess)]
  /\ UNCHANGED <<now, journals, poisoned, owner, effects, history>>

Settle ==
  /\ call # Idle
  /\ call.stage = "settle"
  /\ \/ SettleOk(call.sess) /\ Stage("prepare")
     \/ SettleFails(call.sess) /\ call' = Idle
  /\ UNCHANGED <<now, journals, poisoned, cur, grant, proc, effects, history>>

\* validateSuccessor: a newer binding under a grant that is still open; a
\* restart keeps its grant.
Valid(next, to) ==
  /\ next > cur[call.sess]
  /\ now < End[to]
  /\ call.reason = "approved_restart" => to = grant[call.sess] /\ Bounded(call.sess, FALSE)

\* Prepare admits a successor that reconciled exactly the effects seen.
Prepare(next, to) ==
  /\ call # Idle
  /\ call.stage = "prepare" /\ Valid(next, to) /\ next <= MaxRev[call.sess]
  /\ call' = [call EXCEPT !.stage = "save", !.next = next, !.to = to]
  /\ UNCHANGED <<now, journals, poisoned, owner, effects, history>>

\* Mutant of WithAttempt: the restart is not recorded as spent.
WithAttemptUnspent ==
  [auto |-> file[call.sess].auto,
   attempts |-> Append(file[call.sess].attempts,
     [req |-> call.req, next |-> call.next, complete |-> FALSE,
      retain |-> Max({End[grant[call.sess]], End[call.to]})])]

\* The journal with the request consumed.  The attempt is kept until both
\* its original window and the successor's grant are over.
WithAttempt ==
  [auto |-> file[call.sess].auto \/ call.reason = "approved_restart",
   attempts |-> Append(file[call.sess].attempts,
     [req |-> call.req, next |-> call.next, complete |-> FALSE,
      retain |-> Max({End[grant[call.sess]], End[call.to]})])]

SaveIntent ==
  /\ call # Idle
  /\ call.stage = "save"
  /\ \/ Saved(call.sess, WithAttempt) /\ Stage("recheck") /\ UNCHANGED poisoned
     \/ SaveAmbiguous(call.sess, WithAttempt) /\ call' = Idle
  /\ UNCHANGED <<now, owner, effects, history>>

\* Mutant of Recheck: the effects are not compared again.
RecheckBlind ==
  /\ call # Idle
  /\ call.stage = "recheck" /\ Valid(call.next, call.to)
  /\ Stage("attempt")
  /\ UNCHANGED <<now, journals, poisoned, owner, effects, history>>

\* Effects and successor are checked again after the disk wait.
Recheck ==
  /\ call # Idle
  /\ call.stage = "recheck" /\ Valid(call.next, call.to)
  /\ Effects(call.sess) = call.seen
  /\ Stage("attempt")
  /\ UNCHANGED <<now, journals, poisoned, owner, effects, history>>

\* The supervisor registers the possible fork, then forks.
Forked ==
  /\ proc' = [proc EXCEPT ![call.sess] = @ \cup {call.next}]
  /\ occupied' = [occupied EXCEPT ![call.sess] = TRUE]
  /\ forks' = [forks EXCEPT ![call.sess][<<call.req, call.expected>>] = @ + 1]
  /\ restarts' = IF call.reason = "approved_restart"
                   THEN [restarts EXCEPT ![call.sess][grant[call.sess]] = @ + 1] ELSE restarts

AttemptOwned ==
  /\ call # Idle
  /\ call.stage = "attempt"
  /\ Forked
  /\ cur' = [cur EXCEPT ![call.sess] = call.next]
  /\ grant' = [grant EXCEPT ![call.sess] = call.to]
  /\ callbacks' = [callbacks EXCEPT ![call.sess] = @ \cup {call.next}]
  /\ effects' = [effects EXCEPT ![call.sess] = {}]
  /\ Stage("complete")
  /\ UNCHANGED <<now, journals, poisoned>>

\* The fork happened and could not be confirmed: the old binding keeps it.
AttemptUncertain ==
  /\ call # Idle
  /\ call.stage = "attempt"
  /\ Forked
  /\ call' = Idle
  /\ UNCHANGED <<now, journals, poisoned, cur, grant, callbacks, effects>>

Completed ==
  [file[call.sess] EXCEPT !.attempts[Len(file[call.sess].attempts)].complete = TRUE]

SaveComplete ==
  /\ call # Idle
  /\ call.stage = "complete"
  /\ \/ Saved(call.sess, Completed) /\ UNCHANGED poisoned
     \/ SaveAmbiguous(call.sess, Completed)
  /\ call' = Idle
  /\ UNCHANGED <<now, owner, effects, history>>

-----------------------------------------------------------------------------
Next ==
  \/ Tick \/ Crash \/ NewCoordinator
  \/ \E s \in Sessions :
       \/ WriterExits(s) \/ TakeOver(s) \/ Reconcile(s) \/ Reclaim(s)
       \/ \E o \in Ops : EffectStarts(s, o) \/ EffectSettles(s, o)
       \/ \E q \in Requests, reason \in Reasons, r \in Revs : Resume(q, s, reason, r)
  \/ Fail \/ ReadState \/ Settle \/ SaveIntent \/ Recheck
  \/ \E n \in Revs, g \in Grants : Prepare(n, g)
  \/ AttemptOwned \/ AttemptUncertain \/ SaveComplete

Spec == Init /\ [][Next]_vars

-----------------------------------------------------------------------------
\* A conversation never has two native writers, and the ledger counts the one
\* it has, through uncertain forks, crashes and retries
\* (TestCrashForkWindowsNeverDuplicateOrReleaseUncertainWriter).
OneWriter ==
  \A s \in Sessions : Cardinality(proc[s]) <= 1 /\ (proc[s] # {} => occupied[s])

\* "A crash in either window cannot repeat this request" (recovery.go:349):
\* one intent forks at most once, although the caller retries it, the
\* journal's write is ambiguous, or the journal has been reclaimed.
RequestForksOnce == \A s \in Sessions : \A i \in Requests \X Revs : forks[s][i] <= 1

\* "Bounded restart uses at most one durable attempt in the original grant
\* window" (recovery.go:259), even after its journal was reclaimed.
OneRestartPerGrant == \A s \in Sessions, g \in Grants : restarts[s][g] <= 1

\* Resume never starts a successor over effects nobody reconciled: what the
\* dying writer still did after the effects were read stops the fork
\* (recovery.go:361), and a restart starts over none at all.
ForksReconciled ==
  [][forks' # forks =>
       /\ effects[call.sess] \subseteq call.seen
       /\ call.reason = "approved_restart" => effects[call.sess] = {}]_vars

\* Approvals and controllers of a predecessor never answer for a successor
\* (ExpireCallbacks precedes every launch).
OldCallbacksExpired == \A s \in Sessions : callbacks[s] \subseteq {cur[s]}
=============================================================================
