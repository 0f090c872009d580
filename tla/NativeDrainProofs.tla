------------------------- MODULE NativeDrainProofs -------------------------
(* Proofs about NativeDrain for every set of launchers, callers and        *)
(* sessions: type correctness, that readiness is never claimed early, late *)
(* or withdrawn, and that only idle writers are ended.                     *)
EXTENDS NativeDrain, TLAPS

\* The type invariant of the drain coordinator.
THEOREM DrainTypeOK == Spec => []TypeOK
<1> USE DEF Errors
<1>1. Init => TypeOK
  BY DEF Init, TypeOK
<1>2. TypeOK /\ [Next]_vars => TypeOK'
  <2> SUFFICES ASSUME TypeOK, [Next]_vars PROVE TypeOK'
    OBVIOUS
  <2> USE DEF admission, status, attempt, calls, work, runtime
  <2>1. ASSUME NEW l \in Launchers, Admit(l) PROVE TypeOK'
    BY <2>1 DEF TypeOK, Admit
  <2>2. ASSUME NEW l \in Launchers, LaunchReturns(l) PROVE TypeOK'
    BY <2>2 DEF TypeOK, LaunchReturns
  <2>3. ASSUME NEW l \in Launchers, NEW s \in Sessions, Fork(l, s) PROVE TypeOK'
    BY <2>3 DEF TypeOK, Fork
  <2>4. ASSUME Begin PROVE TypeOK'
    <3>1. CASE ~approved
      BY <2>4, <3>1 DEF TypeOK, Begin, BeginEffect
    <3>2. CASE approved /\ closed
      BY <2>4, <3>2 DEF TypeOK, Begin, BeginEffect
    <3>3. CASE approved /\ ~closed
      BY <2>4, <3>3 DEF TypeOK, Begin, BeginEffect
    <3>4. QED
      BY <3>1, <3>2, <3>3
  <2>5. ASSUME NEW c \in Callers, DrainBegin(c) PROVE TypeOK'
    <3>1. CASE ~approved
      BY <2>5, <3>1 DEF TypeOK, DrainBegin, BeginEffect
    <3>2. CASE approved /\ closed
      BY <2>5, <3>2 DEF TypeOK, DrainBegin, BeginEffect
    <3>3. CASE approved /\ ~closed
      BY <2>5, <3>3 DEF TypeOK, DrainBegin, BeginEffect
    <3>4. QED
      BY <3>1, <3>2, <3>3
  <2>6. ASSUME NEW c \in Callers, DrainRefused(c) PROVE TypeOK'
    BY <2>6 DEF TypeOK, DrainRefused
  <2>7. ASSUME NEW c \in Callers, DrainAlreadyReady(c) PROVE TypeOK'
    BY <2>7 DEF TypeOK, DrainAlreadyReady
  <2>8. ASSUME NEW c \in Callers, DrainStart(c) PROVE TypeOK'
    BY <2>8 DEF TypeOK, DrainStart
  <2>9. ASSUME NEW c \in Callers, CallerDone(c) PROVE TypeOK'
    BY <2>9 DEF TypeOK, CallerDone
  <2>10. ASSUME NEW c \in Callers, CallerLeaves(c) PROVE TypeOK'
    <3>1. CASE workerDone
      BY <2>10, <3>1 DEF TypeOK, CallerLeaves
    <3>2. CASE ~workerDone
      BY <2>10, <3>2 DEF TypeOK, CallerLeaves
    <3>3. QED
      BY <3>1, <3>2
  <2>11. ASSUME NEW c \in Callers, NEW e \in {"deadline_expired", "cancelled"},
                CallerGivesUp(c, e) PROVE TypeOK'
    BY <2>11 DEF TypeOK, CallerGivesUp
  <2>12. ASSUME DeadlinePasses \/ ContextEnds PROVE TypeOK'
    <3>1. CASE DeadlinePasses
      BY <3>1 DEF TypeOK, DeadlinePasses
    <3>2. CASE ContextEnds
      BY <3>2 DEF TypeOK, ContextEnds
    <3>3. QED
      BY <2>12, <3>1, <3>2
  <2>13. ASSUME WorkerStart PROVE TypeOK'
    BY <2>13 DEF TypeOK, WorkerStart, Check
  <2>14. ASSUME WorkerCollect PROVE TypeOK'
    BY <2>14 DEF TypeOK, WorkerCollect, Collected, Entries
  <2>15. ASSUME WorkerFlushStart PROVE TypeOK'
    BY <2>15 DEF TypeOK, WorkerFlushStart, Check
  <2>16. ASSUME WorkerFlush PROVE TypeOK'
    <3>1. CASE err' = "flush_unconfirmed" /\ UNCHANGED flushed
      BY <2>16, <3>1 DEF TypeOK, WorkerFlush
    <3>2. CASE err' = Check /\ UNCHANGED flushed
      BY <2>16, <3>2 DEF TypeOK, WorkerFlush, Check
    <3>3. CASE err' = drainErr /\ flushed' = TRUE
      BY <2>16, <3>3 DEF TypeOK, WorkerFlush
    <3>4. QED
      BY <2>16, <3>1, <3>2, <3>3 DEF WorkerFlush
  <2>17. ASSUME WorkerFinish PROVE TypeOK'
    <3>1. CASE callerDone
      BY <2>17, <3>1 DEF TypeOK, WorkerFinish, Check
    <3>2. CASE ~callerDone
      BY <2>17, <3>2 DEF TypeOK, WorkerFinish, Check
    <3>3. QED
      BY <3>1, <3>2
  <2>18. ASSUME NEW s \in Sessions, CloseSession(s) PROVE TypeOK'
    BY <2>18 DEF TypeOK, CloseSession, SessionReturns, FirstErr, Check
  <2>19. ASSUME NEW s \in Sessions, WorkerQuiesce(s) PROVE TypeOK'
    BY <2>19 DEF TypeOK, WorkerQuiesce, SessionReturns, FirstErr, Check, Mark
  <2>20. ASSUME NEW s \in Sessions, WorkerClose(s) PROVE TypeOK'
    BY <2>20 DEF TypeOK, WorkerClose, SessionReturns, FirstErr, Check, Mark
  <2>21. ASSUME NEW s \in Sessions, WorkerConfirm(s) PROVE TypeOK'
    BY <2>21 DEF TypeOK, WorkerConfirm, SessionReturns, FirstErr, Check, Mark
  <2>22. ASSUME NEW s \in Sessions, WorkerCheckpoint(s) PROVE TypeOK'
    BY <2>22 DEF TypeOK, WorkerCheckpoint, SessionReturns, FirstErr, Mark
  <2>23. ASSUME NEW s \in Sessions,
                WorkStarts(s) \/ WorkEnds(s) \/ WriterDies(s) \/ Forget(s) PROVE TypeOK'
    BY <2>23 DEF TypeOK, WorkStarts, WorkEnds, WriterDies, Forget
  <2>24. CASE UNCHANGED vars
    BY <2>24 DEF TypeOK, vars
  <2>25. QED
    BY <2>1, <2>2, <2>3, <2>4, <2>5, <2>6, <2>7, <2>8, <2>9, <2>10, <2>11, <2>12,
       <2>13, <2>14, <2>15, <2>16, <2>17, <2>18, <2>19, <2>20, <2>21, <2>22, <2>23,
       <2>24 DEF Next
<1>3. QED
  BY <1>1, <1>2, PTL DEF Spec

-----------------------------------------------------------------------------
(* Readiness.  The invariant follows the attempt: which of its promises     *)
(* hold at each point of the worker, as long as it has met no error.        *)

Closing == {"listing", "quiescing", "closing", "confirming", "checkpointing"}
Looping == {"looping", "quiescing", "closing", "confirming", "checkpointing", "flushing"}

\* Admission is closed for good before any attempt exists, and the attempt's
\* goroutine exists only while c.running is set.
Admission ==
  /\ \A c \in Callers : caller[c] # "out" => closed
  /\ running => closed
  /\ worker # "idle" => running /\ ~workerDone
  /\ state = "ready" => worker = "idle" /\ closed /\ launching = {}

\* Once a session is recorded no launch is in flight, so the runtime can not
\* gain a writer behind the inventory.
Inventory ==
  /\ live \subseteq registry
  /\ Entries # {} => closed /\ launching = {}
  /\ worker \in Closing => launching = {}
  /\ todo \subseteq Entries /\ cur \subseteq todo
  /\ \A s, t \in cur : s = t
  /\ Exited \cap live = {}
  /\ worker = "checkpointing" => cur \subseteq Exited

\* What the worker has established so far when no step has failed.
Progress ==
  /\ worker \in Looping /\ drainErr = "none" =>
       launching = {} /\ live \subseteq Entries /\ Entries \ Checkpointed \subseteq todo
  /\ worker = "flushing" => todo = {}
  /\ worker = "returning" /\ err = "none" =>
       launching = {} /\ live \subseteq Entries /\ Entries \subseteq Checkpointed /\ flushed
  /\ state = "ready" => live \subseteq Entries /\ Entries \subseteq Checkpointed /\ flushed

ReadyInv == TypeOK /\ Admission /\ Inventory /\ Progress

\* Admission is preserved by every step.
LEMMA AdmissionStep == ReadyInv /\ [Next]_vars => Admission'
<1> SUFFICES ASSUME ReadyInv, [Next]_vars PROVE Admission'
  OBVIOUS
<1> USE DEF admission, status, attempt, calls, work, runtime, ReadyInv, Admission
<1>1. ASSUME NEW l \in Launchers, Admit(l) PROVE Admission'
  BY <1>1 DEF TypeOK, Admit
<1>2. ASSUME NEW l \in Launchers, LaunchReturns(l) PROVE Admission'
  BY <1>2 DEF TypeOK, LaunchReturns
<1>3. ASSUME NEW l \in Launchers, NEW s \in Sessions, Fork(l, s) PROVE Admission'
  BY <1>3 DEF TypeOK, Fork
<1>4. ASSUME Begin PROVE Admission'
  BY <1>4 DEF TypeOK, Begin, BeginEffect
<1>5. ASSUME NEW c \in Callers, DrainBegin(c) PROVE Admission'
  BY <1>5 DEF TypeOK, DrainBegin, BeginEffect
<1>6. ASSUME NEW c \in Callers, DrainRefused(c) \/ DrainAlreadyReady(c) PROVE Admission'
  BY <1>6 DEF TypeOK, DrainRefused, DrainAlreadyReady
<1>7. ASSUME NEW c \in Callers, DrainStart(c) PROVE Admission'
  BY <1>7 DEF TypeOK, DrainStart
<1>8. ASSUME NEW c \in Callers, CallerDone(c) PROVE Admission'
  BY <1>8 DEF TypeOK, CallerDone
<1>9. ASSUME NEW c \in Callers, CallerLeaves(c) PROVE Admission'
  BY <1>9 DEF TypeOK, CallerLeaves
<1>10. ASSUME NEW c \in Callers, NEW e \in {"deadline_expired", "cancelled"},
              CallerGivesUp(c, e) PROVE Admission'
  BY <1>10 DEF TypeOK, CallerGivesUp
<1>11. ASSUME DeadlinePasses \/ ContextEnds PROVE Admission'
  BY <1>11 DEF DeadlinePasses, ContextEnds
<1>12. ASSUME WorkerStart \/ WorkerCollect \/ WorkerFlushStart \/ WorkerFlush PROVE Admission'
  BY <1>12 DEF WorkerStart, WorkerCollect, WorkerFlushStart, WorkerFlush
<1>13. ASSUME WorkerFinish PROVE Admission'
  BY <1>13 DEF TypeOK, WorkerFinish, Progress
<1>14. ASSUME NEW s \in Sessions,
              \/ CloseSession(s) \/ WorkerQuiesce(s) \/ WorkerClose(s)
              \/ WorkerConfirm(s) \/ WorkerCheckpoint(s) PROVE Admission'
  BY <1>14 DEF CloseSession, WorkerQuiesce, WorkerClose, WorkerConfirm, WorkerCheckpoint
<1>15. ASSUME NEW s \in Sessions,
              WorkStarts(s) \/ WorkEnds(s) \/ WriterDies(s) \/ Forget(s) PROVE Admission'
  BY <1>15 DEF WorkStarts, WorkEnds, WriterDies, Forget
<1>16. CASE UNCHANGED vars
  BY <1>16 DEF vars
<1>17. QED
  BY <1>1, <1>2, <1>3, <1>4, <1>5, <1>6, <1>7, <1>8, <1>9, <1>10, <1>11, <1>12, <1>13,
     <1>14, <1>15, <1>16 DEF Next

\* Inventory is preserved by every step.
LEMMA InventoryStep == ReadyInv /\ [Next]_vars => Inventory'
<1> SUFFICES ASSUME ReadyInv, [Next]_vars PROVE Inventory'
  OBVIOUS
<1> USE DEF admission, status, attempt, calls, work, runtime, ReadyInv, Inventory, Admission,
            Entries, Exited, Checkpointed, Closing
<1>1. ASSUME NEW l \in Launchers, Admit(l) PROVE Inventory'
  BY <1>1 DEF TypeOK, Admit
<1>2. ASSUME NEW l \in Launchers, LaunchReturns(l) PROVE Inventory'
  BY <1>2 DEF TypeOK, LaunchReturns
<1>3. ASSUME NEW l \in Launchers, NEW s \in Sessions, Fork(l, s) PROVE Inventory'
  BY <1>3 DEF TypeOK, Fork
<1>4. ASSUME Begin PROVE Inventory'
  BY <1>4 DEF TypeOK, Begin, BeginEffect
<1>5. ASSUME NEW c \in Callers, DrainBegin(c) PROVE Inventory'
  BY <1>5 DEF TypeOK, DrainBegin, BeginEffect
<1>6. ASSUME NEW c \in Callers, DrainRefused(c) \/ DrainAlreadyReady(c) PROVE Inventory'
  BY <1>6 DEF TypeOK, DrainRefused, DrainAlreadyReady
<1>7. ASSUME NEW c \in Callers, DrainStart(c) PROVE Inventory'
  BY <1>7 DEF TypeOK, DrainStart
<1>8. ASSUME NEW c \in Callers, CallerDone(c) \/ CallerLeaves(c) PROVE Inventory'
  BY <1>8 DEF CallerDone, CallerLeaves
<1>9. ASSUME NEW c \in Callers, NEW e \in {"deadline_expired", "cancelled"},
              CallerGivesUp(c, e) PROVE Inventory'
  BY <1>9 DEF CallerGivesUp
<1>10. ASSUME DeadlinePasses \/ ContextEnds PROVE Inventory'
  BY <1>10 DEF DeadlinePasses, ContextEnds
<1>11. ASSUME WorkerStart PROVE Inventory'
  BY <1>11 DEF WorkerStart, TypeOK
<1>12. ASSUME WorkerCollect PROVE Inventory'
  BY <1>12 DEF WorkerCollect, Collected, TypeOK
<1>13. ASSUME WorkerFlushStart \/ WorkerFlush \/ WorkerFinish PROVE Inventory'
  BY <1>13 DEF WorkerFlushStart, WorkerFlush, WorkerFinish
<1>14. ASSUME NEW s \in Sessions, CloseSession(s) PROVE Inventory'
  BY <1>14 DEF CloseSession, SessionReturns, TypeOK
<1>15. ASSUME NEW s \in Sessions, WorkerQuiesce(s) PROVE Inventory'
  BY <1>15 DEF WorkerQuiesce, SessionReturns, Mark, TypeOK
<1>16. ASSUME NEW s \in Sessions, WorkerClose(s) PROVE Inventory'
  BY <1>16 DEF WorkerClose, SessionReturns, Mark, TypeOK
<1>17. ASSUME NEW s \in Sessions, WorkerConfirm(s) PROVE Inventory'
  BY <1>17 DEF WorkerConfirm, SessionReturns, Mark, TypeOK
<1>18. ASSUME NEW s \in Sessions, WorkerCheckpoint(s) PROVE Inventory'
  BY <1>18 DEF WorkerCheckpoint, SessionReturns, Mark, TypeOK
<1>19. ASSUME NEW s \in Sessions,
              WorkStarts(s) \/ WorkEnds(s) \/ WriterDies(s) \/ Forget(s) PROVE Inventory'
  BY <1>19 DEF WorkStarts, WorkEnds, WriterDies, Forget
<1>20. CASE UNCHANGED vars
  BY <1>20 DEF vars
<1>21. QED
  BY <1>1, <1>2, <1>3, <1>4, <1>5, <1>6, <1>7, <1>8, <1>9, <1>10, <1>11, <1>12, <1>13,
     <1>14, <1>15, <1>16, <1>17, <1>18, <1>19, <1>20 DEF Next

\* Progress is preserved by every step.
LEMMA ProgressStep == ReadyInv /\ [Next]_vars => Progress'
<1> SUFFICES ASSUME ReadyInv, [Next]_vars PROVE Progress'
  OBVIOUS
<1> USE DEF admission, status, attempt, calls, work, runtime, ReadyInv, Progress, Inventory,
            Admission, Entries, Checkpointed, Looping
<1>1. ASSUME NEW l \in Launchers, Admit(l) PROVE Progress'
  BY <1>1 DEF TypeOK, Admit
<1>2. ASSUME NEW l \in Launchers, LaunchReturns(l) PROVE Progress'
  BY <1>2 DEF TypeOK, LaunchReturns
<1>3. ASSUME NEW l \in Launchers, NEW s \in Sessions, Fork(l, s) PROVE Progress'
  BY <1>3 DEF TypeOK, Fork
<1>4. ASSUME Begin PROVE Progress'
  BY <1>4 DEF TypeOK, Begin, BeginEffect
<1>5. ASSUME NEW c \in Callers, DrainBegin(c) PROVE Progress'
  BY <1>5 DEF TypeOK, DrainBegin, BeginEffect
<1>6. ASSUME NEW c \in Callers, DrainRefused(c) \/ DrainAlreadyReady(c) PROVE Progress'
  BY <1>6 DEF TypeOK, DrainRefused, DrainAlreadyReady
<1>7. ASSUME NEW c \in Callers, DrainStart(c) PROVE Progress'
  BY <1>7 DEF TypeOK, DrainStart
<1>8. ASSUME NEW c \in Callers, CallerDone(c) \/ CallerLeaves(c) PROVE Progress'
  BY <1>8 DEF TypeOK, CallerDone, CallerLeaves
<1>9. ASSUME NEW c \in Callers, NEW e \in {"deadline_expired", "cancelled"},
              CallerGivesUp(c, e) PROVE Progress'
  BY <1>9 DEF TypeOK, CallerGivesUp
<1>10. ASSUME DeadlinePasses \/ ContextEnds PROVE Progress'
  BY <1>10 DEF DeadlinePasses, ContextEnds
<1>11. ASSUME WorkerStart PROVE Progress'
  BY <1>11 DEF WorkerStart, TypeOK
<1>12. ASSUME WorkerCollect PROVE Progress'
  BY <1>12 DEF WorkerCollect, Collected, Closing, TypeOK
<1>13. ASSUME WorkerFlushStart PROVE Progress'
  BY <1>13 DEF WorkerFlushStart
<1>14. ASSUME WorkerFlush PROVE Progress'
  BY <1>14 DEF WorkerFlush, TypeOK
<1>15. ASSUME WorkerFinish PROVE Progress'
  BY <1>15 DEF WorkerFinish
<1>16. ASSUME NEW s \in Sessions, CloseSession(s) PROVE Progress'
  BY <1>16 DEF CloseSession, SessionReturns, FirstErr, TypeOK
<1>17. ASSUME NEW s \in Sessions, WorkerQuiesce(s) PROVE Progress'
  BY <1>17 DEF WorkerQuiesce, SessionReturns, FirstErr, Mark, TypeOK
<1>18. ASSUME NEW s \in Sessions, WorkerClose(s) PROVE Progress'
  BY <1>18 DEF WorkerClose, SessionReturns, FirstErr, Mark, TypeOK
<1>19. ASSUME NEW s \in Sessions, WorkerConfirm(s) PROVE Progress'
  BY <1>19 DEF WorkerConfirm, SessionReturns, FirstErr, Mark, TypeOK
<1>20. ASSUME NEW s \in Sessions, WorkerCheckpoint(s) PROVE Progress'
  BY <1>20 DEF WorkerCheckpoint, SessionReturns, FirstErr, Mark, TypeOK
<1>21. ASSUME NEW s \in Sessions,
              WorkStarts(s) \/ WorkEnds(s) \/ WriterDies(s) \/ Forget(s) PROVE Progress'
  BY <1>21 DEF WorkStarts, WorkEnds, WriterDies, Forget
<1>22. CASE UNCHANGED vars
  BY <1>22 DEF vars
<1>23. QED
  BY <1>1, <1>2, <1>3, <1>4, <1>5, <1>6, <1>7, <1>8, <1>9, <1>10, <1>11, <1>12, <1>13,
     <1>14, <1>15, <1>16, <1>17, <1>18, <1>19, <1>20, <1>21, <1>22 DEF Next

\* The initial state satisfies the readiness invariant.
LEMMA ReadyInit == Init => ReadyInv
  BY DEF Init, ReadyInv, TypeOK, Errors, Admission, Inventory, Progress, Entries, Exited,
         Checkpointed, Closing, Looping

\* Readiness is never claimed early: for any number of launchers, callers
\* and sessions, status "ready" means that admission is closed, no launch is
\* in flight, no writer runs and everything is checkpointed and flushed.
THEOREM DrainReadyMeansQuiet == Spec => []ReadyMeansQuiet
<1>1. Init => ReadyInv
  BY ReadyInit
<1>2. TypeOK' /\ ReadyInv /\ [Next]_vars => ReadyInv'
  BY AdmissionStep, InventoryStep, ProgressStep DEF ReadyInv
<1>3. ReadyInv => ReadyMeansQuiet
  BY DEF ReadyInv, Admission, Inventory, Progress, ReadyMeansQuiet, Entries, Exited, Checkpointed
<1>4. QED
  BY <1>1, <1>2, <1>3, DrainTypeOK, PTL DEF Spec

\* An abandoned attempt publishes no readiness: the goroutine's last check
\* sees the cancelled context.
THEOREM DrainNoLateReadiness == Spec => []NoLateReadiness
<1>1. Init => NoLateReadiness
  BY DEF Init, NoLateReadiness
<1>2. TypeOK /\ NoLateReadiness /\ [Next]_vars => NoLateReadiness'
  <2> SUFFICES ASSUME TypeOK, NoLateReadiness, [Next]_vars PROVE NoLateReadiness'
    OBVIOUS
  <2> USE DEF NoLateReadiness, admission, status, attempt, calls, work, runtime
  <2>1. CASE UNCHANGED <<state, abandoned>>
    BY <2>1
  <2>2. ASSUME Begin \/ \E c \in Callers : DrainBegin(c) PROVE NoLateReadiness'
    BY <2>2 DEF Begin, DrainBegin, BeginEffect
  <2>3. ASSUME NEW c \in Callers, DrainStart(c) PROVE NoLateReadiness'
    BY <2>3 DEF DrainStart
  <2>4. ASSUME NEW c \in Callers, NEW e \in {"deadline_expired", "cancelled"},
               CallerGivesUp(c, e) PROVE NoLateReadiness'
    BY <2>4 DEF CallerGivesUp
  <2>5. ASSUME WorkerFinish PROVE NoLateReadiness'
    BY <2>5 DEF WorkerFinish, Check
  <2>6. ASSUME NEW l \in Launchers,
               Admit(l) \/ LaunchReturns(l) \/ \E s \in Sessions : Fork(l, s)
        PROVE NoLateReadiness'
    BY <2>6, <2>1 DEF Admit, LaunchReturns, Fork
  <2>7. ASSUME NEW c \in Callers, \/ DrainRefused(c) \/ DrainAlreadyReady(c)
                                  \/ CallerDone(c) \/ CallerLeaves(c)
        PROVE NoLateReadiness'
    BY <2>7, <2>1 DEF DrainRefused, DrainAlreadyReady, CallerDone, CallerLeaves
  <2>8. ASSUME \/ DeadlinePasses \/ ContextEnds \/ WorkerStart \/ WorkerCollect
               \/ WorkerFlushStart \/ WorkerFlush
        PROVE NoLateReadiness'
    BY <2>8, <2>1 DEF DeadlinePasses, ContextEnds, WorkerStart, WorkerCollect,
                      WorkerFlushStart, WorkerFlush
  <2>9. ASSUME NEW s \in Sessions,
               \/ CloseSession(s) \/ WorkerQuiesce(s) \/ WorkerClose(s)
               \/ WorkerConfirm(s) \/ WorkerCheckpoint(s)
               \/ WorkStarts(s) \/ WorkEnds(s) \/ WriterDies(s) \/ Forget(s)
        PROVE NoLateReadiness'
    BY <2>9, <2>1 DEF CloseSession, WorkerQuiesce, WorkerClose, WorkerConfirm,
                      WorkerCheckpoint, WorkStarts, WorkEnds, WriterDies, Forget
  <2>10. CASE UNCHANGED vars
    BY <2>10, <2>1 DEF vars
  <2>11. QED
    BY <2>2, <2>3, <2>4, <2>5, <2>6, <2>7, <2>8, <2>9, <2>10 DEF Next
<1>3. QED
  BY <1>1, <1>2, DrainTypeOK, PTL DEF Spec

-----------------------------------------------------------------------------
(* Success.  At most one caller is between starting an attempt and leaving  *)
(* it, and c.running keeps every other attempt out until it has left.       *)

Inside == {"waiting", "leaving"}

CallInv ==
  /\ closed => approved
  /\ \A c \in Callers : caller[c] \in Inside => running
  /\ \A c, d \in Callers : caller[c] \in Inside /\ caller[d] \in Inside => c = d
  /\ \A c, d \in Callers : caller[c] = "waiting" => result[d] # "nil"
  /\ \A c \in Callers : caller[c] \in Inside => ~callerDone
  /\ \A c \in Callers : caller[c] = "waiting" /\ workerDone /\ err = "none" => state = "ready"

SuccessInv == ReadyInv /\ CallInv /\ SuccessIsLasting

\* CallInv and SuccessIsLasting are preserved by every step.
LEMMA SuccessStep == SuccessInv /\ [Next]_vars => CallInv' /\ SuccessIsLasting'
<1> SUFFICES ASSUME SuccessInv, [Next]_vars PROVE CallInv' /\ SuccessIsLasting'
  OBVIOUS
<1> DEFINE Goal == CallInv' /\ SuccessIsLasting'
<1> USE DEF admission, status, attempt, calls, work, runtime, SuccessInv, ReadyInv, CallInv,
            SuccessIsLasting, Inside
<1>1. ASSUME NEW l \in Launchers,
             Admit(l) \/ LaunchReturns(l) \/ \E s \in Sessions : Fork(l, s) PROVE Goal
  BY <1>1 DEF Admit, LaunchReturns, Fork
<1>2. ASSUME Begin PROVE Goal
  BY <1>2 DEF TypeOK, Begin, BeginEffect, Admission
<1>3. ASSUME NEW c \in Callers, DrainBegin(c) PROVE Goal
  BY <1>3 DEF TypeOK, DrainBegin, BeginEffect, Admission
<1>4. ASSUME NEW c \in Callers, DrainRefused(c) PROVE Goal
  BY <1>4 DEF TypeOK, DrainRefused
<1>5. ASSUME NEW c \in Callers, DrainAlreadyReady(c) PROVE Goal
  BY <1>5 DEF TypeOK, DrainAlreadyReady
<1>6. ASSUME NEW c \in Callers, DrainStart(c) PROVE Goal
  BY <1>6 DEF TypeOK, DrainStart, Admission
<1>7. ASSUME NEW c \in Callers, CallerDone(c) PROVE Goal
  BY <1>7 DEF TypeOK, CallerDone, Errors
<1>8. ASSUME NEW c \in Callers, CallerLeaves(c) PROVE Goal
  BY <1>8 DEF TypeOK, CallerLeaves
<1>9. ASSUME NEW c \in Callers, NEW e \in {"deadline_expired", "cancelled"},
              CallerGivesUp(c, e) PROVE Goal
  BY <1>9 DEF TypeOK, CallerGivesUp
<1>10. ASSUME DeadlinePasses \/ ContextEnds PROVE Goal
  BY <1>10 DEF DeadlinePasses, ContextEnds
<1>11. ASSUME WorkerStart \/ WorkerCollect \/ WorkerFlushStart \/ WorkerFlush PROVE Goal
  BY <1>11 DEF WorkerStart, WorkerCollect, WorkerFlushStart, WorkerFlush, Admission
<1>12. ASSUME WorkerFinish PROVE Goal
  BY <1>12 DEF WorkerFinish, Admission
<1>13. ASSUME NEW s \in Sessions,
              \/ CloseSession(s) \/ WorkerQuiesce(s) \/ WorkerClose(s)
              \/ WorkerConfirm(s) \/ WorkerCheckpoint(s)
              \/ WorkStarts(s) \/ WorkEnds(s) \/ WriterDies(s) \/ Forget(s) PROVE Goal
  BY <1>13 DEF CloseSession, WorkerQuiesce, WorkerClose, WorkerConfirm, WorkerCheckpoint,
               WorkStarts, WorkEnds, WriterDies, Forget
<1>14. CASE UNCHANGED vars
  BY <1>14 DEF vars
<1>15. QED
  BY <1>1, <1>2, <1>3, <1>4, <1>5, <1>6, <1>7, <1>8, <1>9, <1>10, <1>11, <1>12, <1>13,
     <1>14 DEF Next

\* A success answer stays true: once any Drain returned nil the status is
\* "ready" for good, whatever other callers' timers and attempts do.
THEOREM DrainSuccessIsLasting == Spec => []SuccessIsLasting
<1>1. Init => SuccessInv
  BY ReadyInit DEF Init, SuccessInv, CallInv, SuccessIsLasting, Inside
<1>2. TypeOK' /\ SuccessInv /\ [Next]_vars => SuccessInv'
  BY SuccessStep, AdmissionStep, InventoryStep, ProgressStep DEF SuccessInv, ReadyInv
<1>3. SuccessInv => SuccessIsLasting
  BY DEF SuccessInv
<1>4. QED
  BY <1>1, <1>2, <1>3, DrainTypeOK, PTL DEF Spec
-----------------------------------------------------------------------------
(* Boundaries.  The session the worker is about to end was fenced while it  *)
(* was idle.  The fence holds, because only a launch lifts it and Inventory *)
(* says that none is in flight.                                             *)

Fenced == worker = "closing" => cur \subseteq quiesced \ busy

\* Fenced is preserved by every step.
LEMMA FencedStep == ReadyInv /\ Fenced /\ [Next]_vars => Fenced'
<1> SUFFICES ASSUME ReadyInv, Fenced, [Next]_vars PROVE Fenced'
  OBVIOUS
<1> USE DEF admission, status, attempt, calls, work, runtime, Fenced, ReadyInv, Inventory
<1>1. ASSUME NEW l \in Launchers, Admit(l) \/ LaunchReturns(l) PROVE Fenced'
  BY <1>1 DEF Admit, LaunchReturns
<1>2. ASSUME NEW l \in Launchers, NEW s \in Sessions, Fork(l, s) PROVE Fenced'
  BY <1>2 DEF Fork, Closing
<1>3. ASSUME Begin PROVE Fenced'
  BY <1>3 DEF Begin
<1>4. ASSUME NEW c \in Callers,
             \/ DrainBegin(c) \/ DrainRefused(c) \/ DrainAlreadyReady(c) \/ DrainStart(c)
             \/ CallerDone(c) \/ CallerLeaves(c) PROVE Fenced'
  BY <1>4 DEF DrainBegin, DrainRefused, DrainAlreadyReady, DrainStart, CallerDone, CallerLeaves
<1>5. ASSUME NEW c \in Callers, NEW e \in {"deadline_expired", "cancelled"},
             CallerGivesUp(c, e) PROVE Fenced'
  BY <1>5 DEF CallerGivesUp
<1>6. ASSUME DeadlinePasses \/ ContextEnds PROVE Fenced'
  BY <1>6 DEF DeadlinePasses, ContextEnds
<1>7. ASSUME \/ WorkerStart \/ WorkerCollect \/ WorkerFlushStart \/ WorkerFlush
             \/ WorkerFinish PROVE Fenced'
  BY <1>7 DEF WorkerStart, WorkerCollect, WorkerFlushStart, WorkerFlush, WorkerFinish
<1>8. ASSUME NEW s \in Sessions, CloseSession(s) PROVE Fenced'
  BY <1>8 DEF CloseSession, SessionReturns
<1>9. ASSUME NEW s \in Sessions, WorkerQuiesce(s) PROVE Fenced'
  <2>1. CASE worker' # "closing"
    BY <2>1
  <2>2. CASE worker' = "closing"
    <3>1. s \notin busy /\ quiesced' = quiesced \cup {s} /\ cur' = cur /\ busy' = busy
      BY <1>9, <2>2 DEF WorkerQuiesce, SessionReturns
    <3>2. \A t \in cur : t = s
      BY <1>9 DEF WorkerQuiesce
    <3>3. QED
      BY <3>1, <3>2
  <2>3. QED
    BY <2>1, <2>2
<1>10. ASSUME NEW s \in Sessions,
              WorkerClose(s) \/ WorkerConfirm(s) \/ WorkerCheckpoint(s) PROVE Fenced'
  BY <1>10 DEF WorkerClose, WorkerConfirm, WorkerCheckpoint, SessionReturns
<1>11. ASSUME NEW s \in Sessions,
              WorkStarts(s) \/ WorkEnds(s) \/ WriterDies(s) \/ Forget(s) PROVE Fenced'
  BY <1>11 DEF WorkStarts, WorkEnds, WriterDies, Forget
<1>12. CASE UNCHANGED vars
  BY <1>12 DEF vars
<1>13. QED
  BY <1>1, <1>2, <1>3, <1>4, <1>5, <1>6, <1>7, <1>8, <1>9, <1>10, <1>11, <1>12 DEF Next

\* While the worker is about to end a writer, the steps that leave that place
\* and change `live' are its own, and they end a session it has fenced.
LEMMA EndsCurrentOnly ==
  ASSUME TypeOK, Next, worker = "closing", worker' # "closing",
         NEW s \in live \ live'
  PROVE  s \in cur
<1> USE DEF admission, status, attempt, calls, work, runtime
<1>1. ASSUME NEW t \in Sessions, WorkerClose(t) PROVE s \in cur
  BY <1>1 DEF WorkerClose
<1>2. ASSUME NEW l \in Launchers,
             Admit(l) \/ LaunchReturns(l) \/ \E t \in Sessions : Fork(l, t) PROVE FALSE
  BY <1>2 DEF Admit, LaunchReturns, Fork
<1>3. ASSUME NEW c \in Callers,
             \/ DrainBegin(c) \/ DrainRefused(c) \/ DrainAlreadyReady(c) \/ DrainStart(c)
             \/ CallerDone(c) \/ CallerLeaves(c)
             \/ \E e \in {"deadline_expired", "cancelled"} : CallerGivesUp(c, e) PROVE FALSE
  BY <1>3 DEF DrainBegin, DrainRefused, DrainAlreadyReady, DrainStart, CallerDone,
              CallerLeaves, CallerGivesUp
<1>4. ASSUME \/ Begin \/ DeadlinePasses \/ ContextEnds \/ WorkerStart \/ WorkerCollect
             \/ WorkerFlushStart \/ WorkerFlush \/ WorkerFinish PROVE FALSE
  BY <1>4 DEF Begin, DeadlinePasses, ContextEnds, WorkerStart, WorkerCollect,
              WorkerFlushStart, WorkerFlush, WorkerFinish
<1>5. ASSUME NEW t \in Sessions,
             \/ CloseSession(t) \/ WorkerQuiesce(t) \/ WorkerConfirm(t) \/ WorkerCheckpoint(t)
             \/ WorkStarts(t) \/ WorkEnds(t) \/ WriterDies(t) \/ Forget(t) PROVE FALSE
  BY <1>5 DEF CloseSession, WorkerQuiesce, WorkerConfirm, WorkerCheckpoint,
              WorkStarts, WorkEnds, WriterDies, Forget
<1>6. QED
  BY <1>1, <1>2, <1>3, <1>4, <1>5 DEF Next

\* Drain ends only writers at a safe boundary: whatever launchers, writers and
\* other callers do between QuiesceAtBoundary and Close, the writer that Close
\* ends has no foreground or background work.
THEOREM DrainOnlyIdleWritersClosed == Spec => OnlyIdleWritersClosed
<1> DEFINE EndsIdle == \A s \in Sessions :
      (worker = "closing" /\ worker' # "closing" /\ s \in live \ live') => s \notin busy
<1>1. Init => ReadyInv /\ Fenced
  BY ReadyInit DEF Init, Fenced
<1>2. TypeOK' /\ ReadyInv /\ Fenced /\ [Next]_vars => (ReadyInv /\ Fenced)'
  BY AdmissionStep, InventoryStep, ProgressStep, FencedStep DEF ReadyInv
<1>3. ReadyInv /\ Fenced /\ [Next]_vars => [EndsIdle]_vars
  <2> SUFFICES ASSUME ReadyInv, Fenced, Next, NEW s \in Sessions,
                      worker = "closing", worker' # "closing", s \in live \ live'
               PROVE  s \notin busy
    OBVIOUS
  <2>1. s \in cur
    BY EndsCurrentOnly DEF ReadyInv
  <2>2. QED
    BY <2>1 DEF Fenced
<1>4. QED
  BY <1>1, <1>2, <1>3, DrainTypeOK, PTL DEF Spec, OnlyIdleWritersClosed
=============================================================================
