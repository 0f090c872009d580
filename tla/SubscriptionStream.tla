------------------------- MODULE SubscriptionStream -------------------------
(***************************************************************************)
(* internal/events/subscribe.go: the agent subscription stream.  A         *)
(* connection listens, reads the newest committed position, replays the    *)
(* log after the client's cursor in bounded pages (one read for the        *)
(* ordinary topics, a second transaction for plan hints) and waits for a   *)
(* hint.  Clients reconnect with Last-Event-ID, the id of the last frame   *)
(* they received.  The listener (db/listeners.go) is here by its contract: *)
(* a hint may be replaced by a resync, never dropped without one.          *)
(***************************************************************************)
EXTENDS EventLog

CONSTANTS
  Clients,
  Batch,      \* subscriptionBatch
  Latest,     \* the cursor of a client that has none yet
  Resync      \* a notification that carries no id

ASSUME BatchPositive == Batch \in Nat \ {0}
ASSUME LatestIsNoPosition == Latest \notin Int

VARIABLES
  up,         \* the shared listener is connected
  pc,         \* where each connection's handler is
  mail,       \* notifications the handler has not taken
  ready,      \* stream.ready has been sent on this connection
  after, newest, items, through,    \* the handler's variables
  cursor,     \* the client's Last-Event-ID
  start,      \* where the client's first stream began
  got         \* ids of the hints the client received

handler == <<after, newest, items, through>>
client == <<cursor, start, got>>
vars == <<logVars, up, pc, mail, ready, handler, client>>

Init ==
  /\ LogInit
  /\ up = TRUE
  /\ pc = [c \in Clients |-> "off"]
  /\ mail = [c \in Clients |-> {}]
  /\ ready = [c \in Clients |-> FALSE]
  /\ after = [c \in Clients |-> 0] /\ newest = [c \in Clients |-> 0]
  /\ items = [c \in Clients |-> {}] /\ through = [c \in Clients |-> 0]
  /\ cursor \in [Clients -> {Latest} \cup 0..MaxEvents]
  /\ start = [c \in Clients |-> Latest]
  /\ got = [c \in Clients |-> {}]

Goto(c, label) == pc' = [pc EXCEPT ![c] = label]

-----------------------------------------------------------------------------
(* Writers and the listener.                                                *)

Write(w, k) == Append(w, k) /\ UNCHANGED <<up, pc, mail, ready, handler, client>>
Abort(w) == Rollback(w) /\ UNCHANGED <<up, pc, mail, ready, handler, client>>

\* Mutant of CommitNotify: only a stream that waits is told.
CommitNotifyWaiting(w) ==
  /\ Commit(w)
  /\ mail' = [c \in Clients |->
                IF up /\ pc[c] = "wait" THEN mail[c] \cup DOMAIN pend[w] ELSE mail[c]]
  /\ UNCHANGED <<up, pc, ready, handler, client>>

\* NOTIFY is delivered on commit, to the connections subscribed by then.
CommitNotify(w) ==
  /\ Commit(w)
  /\ mail' = [c \in Clients |->
                IF up /\ pc[c] # "off" THEN mail[c] \cup DOMAIN pend[w] ELSE mail[c]]
  /\ UNCHANGED <<up, pc, ready, handler, client>>

\* publish(nil): every subscriber is told to rescan.
PublishResync ==
  mail' = [c \in Clients |-> IF pc[c] # "off" THEN mail[c] \cup {Resync} ELSE mail[c]]

HubDown ==
  /\ up /\ up' = FALSE
  /\ PublishResync
  /\ UNCHANGED <<logVars, pc, ready, handler, client>>

\* Mutant of HubUp: no rescan after the new LISTEN.
HubUpSilent ==
  /\ ~up /\ up' = TRUE
  /\ UNCHANGED <<logVars, pc, mail, ready, handler, client>>

\* LISTEN precedes the rescan.
HubUp ==
  /\ ~up /\ up' = TRUE
  /\ PublishResync
  /\ UNCHANGED <<logVars, pc, ready, handler, client>>

\* A full mailbox is emptied and gets a resync.
HubOverflow(c) ==
  /\ mail[c] \notin {{}, {Resync}}
  /\ mail' = [mail EXCEPT ![c] = {Resync}]
  /\ UNCHANGED <<logVars, up, pc, ready, handler, client>>

-----------------------------------------------------------------------------
(* The handler.                                                             *)

\* db.SubscribeNotifications.  While the listener is down a subscription joins
\* the hub, which rescans when it is back.
Listen(c) ==
  /\ pc[c] = "off"
  /\ Goto(c, "listen")
  /\ mail' = [mail EXCEPT ![c] = {}]
  /\ UNCHANGED <<logVars, up, ready, handler, client>>

\* A cursor beyond the log is refused.
Boundary(c) ==
  LET from == IF cursor[c] = Latest THEN last ELSE cursor[c]
      accepted == from <= last
  IN  /\ pc[c] = "listen"
      /\ newest' = [newest EXCEPT ![c] = IF accepted THEN last ELSE 0]
      /\ after' = [after EXCEPT ![c] = IF accepted THEN from ELSE 0]
      /\ mail' = [mail EXCEPT ![c] = IF accepted THEN @ ELSE {}]
      /\ Goto(c, IF accepted THEN "read" ELSE "off")
      /\ UNCHANGED <<logVars, up, ready, items, through, client>>

\* The n first ids of S: ORDER BY id LIMIT n.
FirstN(S, n) == {e \in S : Cardinality({x \in S : x < e}) < n}

\* Committed rows of the kinds in K in the page window of c.
Rows(c, K) ==
  FirstN({e \in DOMAIN log : after[c] < e /\ e <= newest[c] /\ log[e] \in K}, Batch + 1)

\* How far a page of rows reaches: to its last row when more rows follow.
PageEnd(rows, whole) ==
  IF Cardinality(rows) > Batch THEN Max(FirstN(rows, Batch)) ELSE whole

Lesser(a, b) == IF a < b THEN a ELSE b

\* Mutant of ReadTopics: denied rows are sent like the others.
ReadTopicsUnfiltered(c) ==
  LET rows == Rows(c, {"topic", "denied"})
  IN  /\ pc[c] = "read"
      /\ IF after[c] = newest[c]
           THEN /\ items' = [items EXCEPT ![c] = {}]
                /\ through' = [through EXCEPT ![c] = after[c]]
                /\ Goto(c, "emit")
           ELSE /\ items' = [items EXCEPT ![c] = FirstN(rows, Batch)]
                /\ through' = [through EXCEPT ![c] = PageEnd(rows, newest[c])]
                /\ Goto(c, "plans")
      /\ UNCHANGED <<logVars, up, mail, ready, after, newest, client>>

\* Without a new position there is no page.  Rows that current authority
\* denies are dropped after the page was cut.
ReadTopics(c) ==
  LET rows == Rows(c, {"topic", "denied"})
  IN  /\ pc[c] = "read"
      /\ IF after[c] = newest[c]
           THEN /\ items' = [items EXCEPT ![c] = {}]
                /\ through' = [through EXCEPT ![c] = after[c]]
                /\ Goto(c, "emit")
           ELSE /\ items' = [items EXCEPT ![c] = {e \in FirstN(rows, Batch) : log[e] = "topic"}]
                /\ through' = [through EXCEPT ![c] = PageEnd(rows, newest[c])]
                /\ Goto(c, "plans")
      /\ UNCHANGED <<logVars, up, mail, ready, after, newest, client>>

\* The second transaction, the merge by id and the cap of the merged page.
ReadPlans(c) ==
  LET rows == Rows(c, {"plan"})
      upto == Lesser(through[c], PageEnd(rows, through[c]))
      page == {e \in items[c] \cup FirstN(rows, Batch) : e <= upto}
  IN  /\ pc[c] = "plans"
      /\ items' = [items EXCEPT ![c] = FirstN(page, Batch)]
      /\ through' = [through EXCEPT ![c] = PageEnd(page, upto)]
      /\ Goto(c, "emit")
      /\ UNCHANGED <<logVars, up, mail, ready, after, newest, client>>

\* stream.ready names the position the connection resumes after.
SendReady(c) ==
  /\ pc[c] = "emit" /\ ~ready[c]
  /\ ready' = [ready EXCEPT ![c] = TRUE]
  /\ cursor' = [cursor EXCEPT ![c] = after[c]]
  /\ start' = [start EXCEPT ![c] = IF @ = Latest THEN after[c] ELSE @]
  /\ UNCHANGED <<logVars, up, pc, mail, handler, got>>

SendItem(c) ==
  /\ pc[c] = "emit" /\ ready[c] /\ items[c] # {}
  /\ cursor' = [cursor EXCEPT ![c] = Min(items[c])]
  /\ got' = [got EXCEPT ![c] = @ \cup {Min(items[c])}]
  /\ items' = [items EXCEPT ![c] = @ \ {Min(@)}]
  /\ UNCHANGED <<logVars, up, pc, mail, ready, after, newest, through, start>>

\* Mutant of SendCursor: the frame names the position before the page.
SendCursorStale(c) ==
  /\ pc[c] = "emit" /\ ready[c] /\ items[c] = {}
  /\ IF through[c] > after[c]
       THEN cursor' = [cursor EXCEPT ![c] = after[c]] ELSE UNCHANGED cursor
  /\ after' = [after EXCEPT ![c] = IF through[c] > @ THEN through[c] ELSE @]
  /\ Goto(c, IF through[c] >= newest[c] THEN "wait" ELSE "newest")
  /\ UNCHANGED <<logVars, up, mail, ready, newest, items, through, start, got>>

\* stream.cursor after the page's items; a page that ended early is followed
\* by the next one without waiting.
SendCursor(c) ==
  /\ pc[c] = "emit" /\ ready[c] /\ items[c] = {}
  /\ IF through[c] > after[c]
       THEN cursor' = [cursor EXCEPT ![c] = through[c]] ELSE UNCHANGED cursor
  /\ after' = [after EXCEPT ![c] = IF through[c] > @ THEN through[c] ELSE @]
  /\ Goto(c, IF through[c] >= newest[c] THEN "wait" ELSE "newest")
  /\ UNCHANGED <<logVars, up, mail, ready, newest, items, through, start, got>>

\* waitSubscription: only a resync or an id after the cursor ends the wait.
Wake(c, n) ==
  /\ pc[c] = "wait" /\ n \in mail[c]
  /\ mail' = [mail EXCEPT ![c] = @ \ {n}]
  /\ Goto(c, IF n = Resync THEN "newest" ELSE IF n > after[c] THEN "newest" ELSE "wait")
  /\ UNCHANGED <<logVars, up, ready, handler, client>>

\* The deadline passed, the lease and the authority still hold, the ping went out.
Heartbeat(c) ==
  /\ pc[c] = "wait"
  /\ Goto(c, "newest")
  /\ UNCHANGED <<logVars, up, mail, ready, handler, client>>

Newest(c) ==
  /\ pc[c] = "newest"
  /\ newest' = [newest EXCEPT ![c] = last]
  /\ Goto(c, "read")
  /\ UNCHANGED <<logVars, up, mail, ready, after, items, through, client>>

\* Any failed read, write, lease or authority check, a closed hub, the maximal
\* lifetime or the client ends the connection; the client keeps its cursor.
Disconnect(c) ==
  /\ pc[c] # "off"
  /\ Goto(c, "off")
  /\ mail' = [mail EXCEPT ![c] = {}]
  /\ ready' = [ready EXCEPT ![c] = FALSE]
  /\ after' = [after EXCEPT ![c] = 0] /\ newest' = [newest EXCEPT ![c] = 0]
  /\ items' = [items EXCEPT ![c] = {}] /\ through' = [through EXCEPT ![c] = 0]
  /\ UNCHANGED <<logVars, up, client>>

-----------------------------------------------------------------------------
Handle(c) ==
  \/ Boundary(c) \/ ReadTopics(c) \/ ReadPlans(c) \/ SendReady(c) \/ SendItem(c)
  \/ SendCursor(c) \/ Newest(c)

Next ==
  \/ \E w \in Writers : CommitNotify(w) \/ Abort(w) \/ \E k \in Kinds : Write(w, k)
  \/ HubDown \/ HubUp
  \/ \E c \in Clients :
       \/ Listen(c) \/ Handle(c) \/ HubOverflow(c) \/ Heartbeat(c) \/ Disconnect(c)
       \/ \E n \in Ids \cup {Resync} : Wake(c, n)

Spec == Init /\ [][Next]_vars

\* Handlers run, the listener reconnects.  The heartbeat gets no fairness:
\* hints alone must keep the stream moving.
LiveSpec ==
  /\ Spec
  /\ WF_vars(HubUp)
  /\ \A c \in Clients :
       WF_vars(Handle(c)) /\ WF_vars(\E n \in Ids \cup {Resync} : Wake(c, n))

-----------------------------------------------------------------------------
Readable == {"topic", "plan"}

\* "Transactional per-tenant IDs are required for lossless SSE resume"
\* (migration 0101:28): whatever commits, pages, disconnects and reconnects
\* lie between, a client has received every readable event up to its cursor
\* since its first stream began.
NoGap ==
  \A c \in Clients : \A e \in DOMAIN log :
    start[c] # Latest /\ log[e] \in Readable /\ start[c] < e /\ e <= cursor[c]
      => e \in got[c]

\* Hints arrive in id order and once, over all connections of a client: a
\* resume never replays a frame and no late commit appears behind the cursor.
InOrderOnce ==
  [][\A c \in Clients :
       /\ cursor'[c] # cursor[c] /\ cursor[c] # Latest => cursor'[c] > cursor[c]
       /\ \A e \in got'[c] \ got[c] : cursor[c] < e]_vars

\* The log is read as if there were no connections, pages and hints: a client
\* takes exactly the readable events its position passes, each once and in
\* order, and never one that current authority denies (subscribe,
\* subscriptionRead).
Reader == INSTANCE LosslessReader WITH top <- last, pos <- cursor

ReadsLikeALog == Reader!Spec

\* No wake-up is lost, though the newest position is read in one transaction
\* and the wait begins later: while a stream waits and events after its
\* position are committed, a hint that will end the wait is in its mailbox, or
\* the listener is down and will tell everyone to rescan (waitSubscription).
NoLostWakeup ==
  \A c \in Clients :
    pc[c] = "wait" /\ after[c] < last
      => ~up \/ \E n \in mail[c] : n = Resync \/ n > after[c]

\* A connected client passes every committed event, or its connection ends,
\* on hints alone, without waiting for a heartbeat's rescan.
CatchesUp ==
  \A c \in Clients : \A e \in Ids :
    last >= e /\ pc[c] # "off" ~> pc[c] = "off" \/ (cursor[c] # Latest /\ cursor[c] >= e)
=============================================================================
