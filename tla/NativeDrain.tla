---------------------------- MODULE NativeDrain ----------------------------
(***************************************************************************)
(* internal/nativedrain: the coordinator that prepares an owned native     *)
(* host for a deliberate upgrade.  Launchers enter through WithAdmission,  *)
(* callers run Drain, and each Drain starts one worker goroutine that      *)
(* collects the writer inventory, closes every session at a safe boundary  *)
(* and flushes receipts.  A caller stops waiting when its timer fires or   *)
(* its context ends, while the worker may still be inside a runtime call.  *)
(*                                                                         *)
(* The owning supervisor behind the Runtime interface is external: `live', *)
(* `registry', `busy' and `quiesced' state what that interface promises.   *)
(***************************************************************************)
EXTENDS FiniteSets, Naturals

CONSTANTS
  Launchers,    \* goroutines that start, resume or dispatch a writer
  Callers,      \* goroutines that call Drain
  Sessions,     \* owned session ids
  MaxSessions   \* nativedrain.MaxSessions, the bound on one inventory

ASSUME MaxSessionsIsNat == MaxSessions \in Nat
ASSUME SessionsFinite == IsFiniteSet(Sessions)

VARIABLES
  approved,     \* Config.CoordinatorApproved, immutable
  closed,       \* status.AdmissionClosed
  launching,    \* launchers counted in c.launches
  state,        \* status.State
  reason,       \* status.Reason
  flushed,      \* status.FlushConfirmed
  running,      \* c.running
  callerDone,   \* the current attempt's callerDone
  workerDone,   \* the current attempt's workerDone
  late,         \* the clock has reached the attempt's deadline
  cancelled,    \* the caller's context has ended
  abandoned,    \* the caller has called cancel() and deferAttempt
  caller,       \* where each Drain call is
  result,       \* what each caller's last Drain returned
  worker,       \* where the attempt goroutine is
  todo,         \* entries the closing loop has not visited
  cur,          \* set holding the entry the loop is closing
  drainErr,     \* first error of the attempt
  err,          \* what attempt returns
  sess,         \* c.sessions: per-session status, "absent" when no entry
  live,         \* sessions whose native writer runs
  registry,     \* sessions Runtime.List would report
  busy,         \* sessions with foreground or background work
  quiesced      \* sessions fenced by QuiesceAtBoundary

admission == <<approved, closed, launching>>
status == <<state, reason, flushed>>
attempt == <<running, callerDone, workerDone, late, cancelled, abandoned>>
calls == <<caller, result>>
work == <<worker, todo, cur, drainErr, err, sess>>
runtime == <<live, registry, busy, quiesced>>
vars == <<admission, status, attempt, calls, work, runtime>>

Entries == {s \in Sessions : sess[s] # "absent"}
Exited == {s \in Sessions : sess[s] \in {"checkpoint_pending", "checkpointed"}}
Checkpointed == {s \in Sessions : sess[s] = "checkpointed"}

\* Coordinator.check: the deadline wins over the context.
Check ==
  IF late THEN "deadline_expired"
  ELSE IF cancelled \/ abandoned THEN "cancelled"
  ELSE "none"

FirstErr(e) == IF drainErr = "none" THEN e ELSE drainErr

-----------------------------------------------------------------------------
Init ==
  /\ approved \in BOOLEAN
  /\ closed = FALSE /\ launching = {}
  /\ state = "serving" /\ reason = "none" /\ flushed = FALSE
  /\ running = FALSE /\ callerDone = FALSE /\ workerDone = FALSE
  /\ late = FALSE /\ cancelled = FALSE /\ abandoned = FALSE
  /\ caller = [c \in Callers |-> "out"]
  /\ result = [c \in Callers |-> "none"]
  /\ worker = "idle" /\ todo = {} /\ cur = {} /\ drainErr = "none" /\ err = "none"
  /\ sess = [s \in Sessions |-> "absent"]
  /\ live = {} /\ registry = {} /\ busy = {} /\ quiesced = {}

-----------------------------------------------------------------------------
(* WithAdmission.  A closed coordinator answers ErrDraining: no step.      *)

\* Mutant of Admit: AdmissionClosed is not tested under the mutex.
AdmitUnchecked(l) ==
  /\ l \notin launching
  /\ launching' = launching \cup {l}
  /\ UNCHANGED <<approved, closed, status, attempt, calls, work, runtime>>

Admit(l) ==
  /\ l \notin launching
  /\ ~closed
  /\ launching' = launching \cup {l}
  /\ UNCHANGED <<approved, closed, status, attempt, calls, work, runtime>>

\* The launch callback opens a native writer and registers it before it
\* returns.  A session whose writer exited may be opened again.
Fork(l, s) ==
  /\ l \in launching
  /\ s \notin live
  /\ live' = live \cup {s}
  /\ registry' = registry \cup {s}
  /\ quiesced' = quiesced \ {s}
  /\ UNCHANGED <<admission, status, attempt, calls, work, busy>>

LaunchReturns(l) ==
  /\ l \in launching
  /\ launching' = launching \ {l}
  /\ UNCHANGED <<approved, closed, status, attempt, calls, work, runtime>>

-----------------------------------------------------------------------------
(* Begin, alone or as the first part of Drain.                             *)

BeginEffect ==
  IF ~approved
  THEN state' = "deferred" /\ reason' = "pilot_frozen" /\ closed' = closed
  ELSE IF closed THEN UNCHANGED <<state, reason, closed>>
  ELSE state' = "draining" /\ reason' = "draining" /\ closed' = TRUE

Begin ==
  /\ BeginEffect
  /\ UNCHANGED <<approved, launching, flushed, attempt, calls, work, runtime>>

DrainBegin(c) ==
  /\ caller[c] = "out"
  /\ BeginEffect
  /\ caller' = [caller EXCEPT ![c] = IF approved THEN "begun" ELSE "out"]
  /\ result' = [result EXCEPT ![c] = IF approved THEN "none" ELSE "pilot_frozen"]
  /\ UNCHANGED <<approved, launching, flushed, attempt, work, runtime>>

\* The second critical section of Drain: refuse, answer "ready", or start.
DrainRefused(c) ==
  /\ caller[c] = "begun"
  /\ running
  /\ caller' = [caller EXCEPT ![c] = "out"]
  /\ result' = [result EXCEPT ![c] = "draining"]
  /\ UNCHANGED <<admission, status, attempt, work, runtime>>

DrainAlreadyReady(c) ==
  /\ caller[c] = "begun"
  /\ ~running /\ state = "ready"
  /\ caller' = [caller EXCEPT ![c] = "out"]
  /\ result' = [result EXCEPT ![c] = "nil"]
  /\ UNCHANGED <<admission, status, attempt, work, runtime>>

DrainStart(c) ==
  /\ caller[c] = "begun"
  /\ ~running /\ state # "ready"
  /\ running' = TRUE /\ callerDone' = FALSE /\ workerDone' = FALSE
  /\ late' = FALSE /\ cancelled' = FALSE /\ abandoned' = FALSE
  /\ state' = "draining" /\ reason' = "draining" /\ flushed' = FALSE
  /\ caller' = [caller EXCEPT ![c] = "waiting"]
  /\ worker' = "starting" /\ todo' = {} /\ cur' = {} /\ drainErr' = "none" /\ err' = "none"
  /\ UNCHANGED <<admission, result, sess, runtime>>

-----------------------------------------------------------------------------
(* The caller's select: the worker's answer, the timer or the context.     *)

\* The timer is armed after the deadline is computed, so it never fires early.
DeadlinePasses ==
  /\ running /\ ~late
  /\ late' = TRUE
  /\ UNCHANGED <<admission, status, running, callerDone, workerDone, cancelled,
                 abandoned, calls, work, runtime>>

ContextEnds ==
  /\ ~cancelled /\ \E c \in Callers : caller[c] = "waiting"
  /\ cancelled' = TRUE
  /\ UNCHANGED <<admission, status, running, callerDone, workerDone, late,
                 abandoned, calls, work, runtime>>

CallerDone(c) ==
  /\ caller[c] = "waiting"
  /\ workerDone
  /\ caller' = [caller EXCEPT ![c] = "leaving"]
  /\ result' = [result EXCEPT ![c] = IF err = "none" THEN "nil" ELSE err]
  /\ UNCHANGED <<admission, status, attempt, work, runtime>>

\* Mutant of CallerGivesUp: the select has no timer case.
CallerGivesUpNoTimer(c, e) ==
  /\ caller[c] = "waiting"
  /\ e = "cancelled" /\ cancelled
  /\ abandoned' = TRUE
  /\ state' = "deferred" /\ reason' = e
  /\ caller' = [caller EXCEPT ![c] = "leaving"]
  /\ result' = [result EXCEPT ![c] = e]
  /\ UNCHANGED <<admission, flushed, running, callerDone, workerDone, late,
                 cancelled, work, runtime>>

\* cancel(); deferAttempt(err)
CallerGivesUp(c, e) ==
  /\ caller[c] = "waiting"
  /\ \/ e = "deadline_expired" /\ late
     \/ e = "cancelled" /\ cancelled
  /\ abandoned' = TRUE
  /\ state' = "deferred" /\ reason' = e
  /\ caller' = [caller EXCEPT ![c] = "leaving"]
  /\ result' = [result EXCEPT ![c] = e]
  /\ UNCHANGED <<admission, flushed, running, callerDone, workerDone, late,
                 cancelled, work, runtime>>

\* The deferred function: retries stay excluded until the worker is done too.
CallerLeaves(c) ==
  /\ caller[c] = "leaving"
  /\ callerDone' = TRUE
  /\ running' = IF workerDone THEN FALSE ELSE running
  /\ caller' = [caller EXCEPT ![c] = "out"]
  /\ UNCHANGED <<admission, status, workerDone, late, cancelled, abandoned,
                 result, work, runtime>>

-----------------------------------------------------------------------------
(* attempt: the worker goroutine.                                          *)

WorkerStart ==
  /\ worker = "starting"
  /\ \/ /\ launching # {}
        /\ worker' = "looping" /\ drainErr' = "admission_pending"
     \/ /\ launching = {} /\ Check # "none"
        /\ worker' = "looping" /\ drainErr' = Check
     \/ /\ launching = {} /\ Check = "none"
        /\ worker' = "listing" /\ UNCHANGED drainErr
  /\ UNCHANGED <<admission, status, attempt, calls, todo, cur, err, sess, runtime>>

\* collect after List: a truncated, failed or over-long inventory and a
\* malformed, duplicate or replaced binding defer the attempt.
Collected == [s \in Sessions |-> IF sess[s] = "absent" /\ s \in registry
                                 THEN "pending" ELSE sess[s]]

WorkerCollect ==
  /\ worker = "listing"
  /\ worker' = "looping"
  /\ \/ /\ Cardinality(Entries \cup registry) <= MaxSessions
        /\ sess' = Collected
        /\ todo' = Entries \cup registry
        /\ UNCHANGED drainErr
     \/ /\ drainErr' \in {"inventory_unconfirmed", "identity_mismatch"}
        /\ UNCHANGED <<sess, todo>>
  /\ UNCHANGED <<admission, status, attempt, calls, cur, err, runtime>>

\* closeSession returns e: the loop keeps the first error and goes on.
SessionReturns(s, e) ==
  /\ worker' = "looping"
  /\ todo' = todo \ {s} /\ cur' = {}
  /\ drainErr' = FirstErr(e)

CloseSession(s) ==
  /\ worker = "looping" /\ s \in todo
  /\ \/ /\ s \in Checkpointed
        /\ SessionReturns(s, "none") /\ UNCHANGED sess
     \/ /\ s \notin Checkpointed /\ Check # "none"
        /\ SessionReturns(s, Check) /\ UNCHANGED sess
     \/ /\ s \notin Checkpointed /\ Check = "none"
        /\ worker' = IF s \in Exited THEN "checkpointing" ELSE "quiescing"
        /\ cur' = {s}
        /\ UNCHANGED <<todo, drainErr, sess>>
  /\ UNCHANGED <<admission, status, attempt, calls, err, runtime>>

Mark(s, st) == sess' = [sess EXCEPT ![s] = st]

\* Mutant of WorkerQuiesce: the boundary is not awaited.
WorkerQuiesceBusy(s) ==
  /\ worker = "quiescing" /\ s \in cur
  /\ quiesced' = quiesced \cup {s}
  /\ Mark(s, "closing")
  /\ worker' = "closing"
  /\ UNCHANGED <<admission, status, attempt, calls, todo, cur, drainErr, err,
                 live, registry, busy>>

\* QuiesceAtBoundary: busy work is retained without closing the runtime.
WorkerQuiesce(s) ==
  /\ worker = "quiescing" /\ s \in cur
  /\ \/ /\ s \in busy
        /\ Mark(s, "retained") /\ SessionReturns(s, "active_or_background_work")
        /\ UNCHANGED quiesced
     \/ /\ Mark(s, "unconfirmed")
        /\ \E e \in {"ownership_unconfirmed", "identity_mismatch"} : SessionReturns(s, e)
        /\ UNCHANGED quiesced
     \/ /\ s \notin busy
        /\ quiesced' = quiesced \cup {s}
        /\ Mark(s, "closing")
        /\ IF Check # "none" THEN SessionReturns(s, Check)
           ELSE worker' = "closing" /\ UNCHANGED <<todo, cur, drainErr>>
  /\ UNCHANGED <<admission, status, attempt, calls, err, live, registry, busy>>

\* Close: the writer exits, or the evidence does not prove that it did.
WorkerClose(s) ==
  /\ worker = "closing" /\ s \in cur
  /\ \/ /\ live' = live \ {s}
        /\ UNCHANGED sess
        /\ IF Check # "none" THEN SessionReturns(s, Check)
           ELSE worker' = "confirming" /\ UNCHANGED <<todo, cur, drainErr>>
     \/ /\ live' \in {live, live \ {s}}
        /\ Mark(s, "unconfirmed")
        /\ \E e \in {"ownership_unconfirmed", "identity_mismatch"} : SessionReturns(s, e)
  /\ UNCHANGED <<admission, status, attempt, calls, err, registry, busy, quiesced>>

\* ConfirmExit independently verifies that the root and group are absent.
WorkerConfirm(s) ==
  /\ worker = "confirming" /\ s \in cur
  /\ \/ /\ s \notin live
        /\ Mark(s, "checkpoint_pending")
        /\ IF Check # "none" THEN SessionReturns(s, Check)
           ELSE worker' = "checkpointing" /\ UNCHANGED <<todo, cur, drainErr>>
     \/ /\ Mark(s, "unconfirmed")
        /\ SessionReturns(s, "ownership_unconfirmed")
  /\ UNCHANGED <<admission, status, attempt, calls, err, runtime>>

WorkerCheckpoint(s) ==
  /\ worker = "checkpointing" /\ s \in cur
  /\ \/ Mark(s, "checkpointed") /\ SessionReturns(s, "none")
     \/ Mark(s, "checkpoint_pending") /\ SessionReturns(s, "checkpoint_unconfirmed")
  /\ UNCHANGED <<admission, status, attempt, calls, err, runtime>>

WorkerFlushStart ==
  /\ worker = "looping" /\ todo = {}
  /\ worker' = IF Check = "none" THEN "flushing" ELSE "returning"
  /\ err' = Check
  /\ UNCHANGED <<admission, status, attempt, calls, todo, cur, drainErr, sess, runtime>>

WorkerFlush ==
  /\ worker = "flushing"
  /\ worker' = "returning"
  /\ \/ err' = "flush_unconfirmed" /\ UNCHANGED flushed
     \/ /\ Check # "none"
        /\ err' = Check /\ UNCHANGED flushed
     \/ /\ Check = "none"
        /\ err' = drainErr /\ flushed' = TRUE
  /\ UNCHANGED <<admission, state, reason, attempt, calls, todo, cur, drainErr, sess, runtime>>

\* Mutant of WorkerFinish: the deadline and context are not read again.
WorkerFinishUnchecked ==
  /\ worker = "returning"
  /\ worker' = "idle"
  /\ workerDone' = TRUE
  /\ running' = IF callerDone THEN FALSE ELSE running
  /\ state' = IF err = "none" THEN "ready" ELSE "deferred"
  /\ reason' = err
  /\ UNCHANGED <<admission, flushed, callerDone, late, cancelled, abandoned, calls,
                 todo, cur, drainErr, err, sess, runtime>>

\* Mutant of WorkerFinish: retries are readmitted before the caller has left.
WorkerFinishEarlyRelease ==
  /\ worker = "returning"
  /\ worker' = "idle"
  /\ err' = IF Check # "none" THEN Check ELSE err
  /\ workerDone' = TRUE
  /\ running' = FALSE
  /\ state' = IF err' = "none" THEN "ready" ELSE "deferred"
  /\ reason' = err'
  /\ UNCHANGED <<admission, flushed, callerDone, late, cancelled, abandoned, calls,
                 todo, cur, drainErr, sess, runtime>>

\* The goroutine's last critical section, in one hold of c.mu.
WorkerFinish ==
  /\ worker = "returning"
  /\ worker' = "idle"
  /\ err' = IF Check # "none" THEN Check ELSE err
  /\ workerDone' = TRUE
  /\ running' = IF callerDone THEN FALSE ELSE running
  /\ state' = IF err' = "none" THEN "ready" ELSE "deferred"
  /\ reason' = err'
  /\ UNCHANGED <<admission, flushed, callerDone, late, cancelled, abandoned, calls,
                 todo, cur, drainErr, sess, runtime>>

-----------------------------------------------------------------------------
(* The supervised writers (external).                                      *)

WorkStarts(s) ==
  /\ s \in live \ (busy \cup quiesced)
  /\ busy' = busy \cup {s}
  /\ UNCHANGED <<admission, status, attempt, calls, work, live, registry, quiesced>>

WorkEnds(s) ==
  /\ s \in busy
  /\ busy' = busy \ {s}
  /\ UNCHANGED <<admission, status, attempt, calls, work, live, registry, quiesced>>

WriterDies(s) ==
  /\ s \in live
  /\ live' = live \ {s}
  /\ busy' = busy \ {s}
  /\ UNCHANGED <<admission, status, attempt, calls, work, registry, quiesced>>

\* List retains live and uncertain writers; only an exited one may drop out.
Forget(s) ==
  /\ s \in registry \ live
  /\ registry' = registry \ {s}
  /\ UNCHANGED <<admission, status, attempt, calls, work, live, busy, quiesced>>

-----------------------------------------------------------------------------
Next ==
  \/ \E l \in Launchers :
       Admit(l) \/ LaunchReturns(l) \/ \E s \in Sessions : Fork(l, s)
  \/ Begin
  \/ \E c \in Callers :
       \/ DrainBegin(c) \/ DrainRefused(c) \/ DrainAlreadyReady(c) \/ DrainStart(c)
       \/ CallerDone(c) \/ CallerLeaves(c)
       \/ \E e \in {"deadline_expired", "cancelled"} : CallerGivesUp(c, e)
  \/ DeadlinePasses \/ ContextEnds
  \/ WorkerStart \/ WorkerCollect \/ WorkerFlushStart \/ WorkerFlush \/ WorkerFinish
  \/ \E s \in Sessions :
       \/ CloseSession(s) \/ WorkerQuiesce(s) \/ WorkerClose(s)
       \/ WorkerConfirm(s) \/ WorkerCheckpoint(s)
       \/ WorkStarts(s) \/ WorkEnds(s) \/ WriterDies(s) \/ Forget(s)

Spec == Init /\ [][Next]_vars

\* The clock advances and the Go scheduler runs a caller whose select is
\* ready.  Nothing is assumed of the worker or of the runtime calls it makes.
Fairness ==
  /\ WF_vars(DeadlinePasses)
  /\ \A c \in Callers :
       WF_vars(CallerDone(c) \/ CallerLeaves(c)
               \/ \E e \in {"deadline_expired", "cancelled"} : CallerGivesUp(c, e))

LiveSpec == Spec /\ Fairness

-----------------------------------------------------------------------------
Errors == {"none", "admission_pending", "active_or_background_work",
           "ownership_unconfirmed", "identity_mismatch", "checkpoint_unconfirmed",
           "flush_unconfirmed", "inventory_unconfirmed", "deadline_expired", "cancelled"}

\* Every variable holds a value its Go counterpart can have.
TypeOK ==
  /\ approved \in BOOLEAN /\ closed \in BOOLEAN /\ launching \subseteq Launchers
  /\ state \in {"serving", "draining", "ready", "deferred"}
  /\ reason \in Errors \cup {"draining", "pilot_frozen"}
  /\ flushed \in BOOLEAN /\ running \in BOOLEAN
  /\ callerDone \in BOOLEAN /\ workerDone \in BOOLEAN
  /\ late \in BOOLEAN /\ cancelled \in BOOLEAN /\ abandoned \in BOOLEAN
  /\ caller \in [Callers -> {"out", "begun", "waiting", "leaving"}]
  /\ result \in [Callers -> Errors \cup {"nil", "draining", "pilot_frozen"}]
  /\ worker \in {"idle", "starting", "listing", "looping", "quiescing", "closing",
                 "confirming", "checkpointing", "flushing", "returning"}
  /\ todo \subseteq Sessions /\ cur \subseteq Sessions
  /\ drainErr \in Errors /\ err \in Errors
  /\ sess \in [Sessions -> {"absent", "pending", "retained", "unconfirmed", "closing",
                            "checkpoint_pending", "checkpointed"}]
  /\ live \subseteq Sessions /\ registry \subseteq Sessions
  /\ busy \subseteq Sessions /\ quiesced \subseteq Sessions

\* "a drain can never miss a writer registered after List" (drain.go:141):
\* when the coordinator says ready, no launch is in flight, no native writer
\* runs, whatever it recorded is checkpointed and the flush was confirmed.
ReadyMeansQuiet ==
  state = "ready" =>
    /\ closed /\ launching = {}
    /\ live = {}
    /\ Entries \subseteq Checkpointed
    /\ flushed

\* A Drain that answered success is never contradicted: no older caller's
\* timeout and no other attempt turns the status back (drain.go:222).
SuccessIsLasting ==
  \A c \in Callers : result[c] = "nil" => state = "ready"

\* "its late return cannot publish upgrade readiness after timeout"
\* (drain.go:196): once the caller of the current attempt gave up, the
\* status is not ready until a new attempt starts.
NoLateReadiness == abandoned => state # "ready"

\* Drain ends only writers at a safe boundary: no step of the worker ends a
\* writer that still has foreground or background work (drain.go:44).
OnlyIdleWritersClosed ==
  [][\A s \in Sessions : (worker = "closing" /\ worker' # "closing" /\ s \in live \ live')
                           => s \notin busy]_vars

\* "An uncooperative callback cannot block the owner forever" (drain.go:194):
\* with no fairness on the worker, every Drain call that started an attempt
\* returns.
DrainReturns ==
  \A c \in Callers : caller[c] = "waiting" ~> caller[c] = "out"
=============================================================================
