--------------------------- MODULE NativeReceipts ---------------------------
(***************************************************************************)
(* internal/nativereceipts with its users in internal/nativeintegration/   *)
(* delivery and internal/agentd, and the server's receipts repository: the *)
(* journal one owned native session writes before and after every effect   *)
(* on its process, and the reports that carry it to the server.            *)
(*                                                                         *)
(* Two goroutines of the daemon: the owner is whoever holds opMu (a poll,  *)
(* a local command, a terminal operation), the reader consumes the         *)
(* provider's events.  A session is structured (inputs and a stop) or      *)
(* terminal (keystrokes and a stop).                                       *)
(*                                                                         *)
(* An entry is its operation, the log of its states, oldest first, and how *)
(* many of them the server has acknowledged.  The bytes of an operation,   *)
(* sequences, digests and deadlines are left out: a check on them, and a   *)
(* deadline, may fail whenever the code makes it.                          *)
(***************************************************************************)
EXTENDS Integers, Sequences, FiniteSets, SequencesExt

CONSTANTS
  Inputs, Keys, Stop,  \* operations the server may hand out
  MaxReceipts,         \* entries of a journal (512)
  MaxPendingInputs,    \* inputs whose turn has not ended (32)
  History,             \* PTYReceiptHistory (32)
  Limit,               \* reports of one flush (100)
  PageLimit,           \* entries of one page (100)
  MaxFaults            \* bound: failed saves, calls and releases, crashes

ASSUME OperationsAssumption ==
  /\ Inputs \cap Keys = {} /\ Stop \notin Inputs \cup Keys
  /\ MaxReceipts \in Nat \ {0} /\ MaxPendingInputs \in Nat
  /\ History \in Nat /\ Limit \in Nat \ {0} /\ PageLimit \in Nat \ {0}
  /\ MaxFaults \in Nat

Ops == Inputs \cup Keys \cup {Stop}
Threads == {"owner", "reader"}

VARIABLES
  mode,       \* "structured" or "terminal"
  \* nativereceipts.Store
  mem,        \* entries
  images,     \* what receipts.json may hold after a crash
  store,      \* "open", "poisoned" or "down"
  recovered,  \* recoveredInputs
  \* nativeOwned
  live,       \* operations: the inputs whose events are wanted
  events,     \* pendingEvents
  refused,    \* report delivery refused for good
  released,   \* exited, the ledger's hold given back
  \* the terminal's client
  offered,    \* keystrokes it has sent: each once (nativepty/client.go:263)
  \* the native process
  proc,       \* "running" or "gone"
  turn,       \* how far the provider has told of an input's turn
  \* the server
  known,      \* native_session_receipts
  stopped,    \* the harness session
  consent,    \* the person's consent still stands
  \* history: native writes, and the ones of this journal lifetime
  writes, mine,
  faults,
  th          \* where each goroutine is

journal == <<mem, images, store>>
daemon == <<live, events, refused, offered, released>>
native == <<proc, turn, writes, mine>>
server == <<known, stopped, consent>>
vars == <<mode, journal, recovered, daemon, native, server, faults, th>>

Offers == {Stop} \cup IF mode = "structured" THEN Inputs ELSE Keys

Idle == [at |-> "idle", for |-> "", op |-> Stop, scope |-> {}, idx |-> 0,
         off |-> 0, n |-> 0, back |-> "idle"]

Place(at, op, back) == [Idle EXCEPT !.at = at, !.op = op, !.back = back]

\* A flush of the reports of scope; for says who called it.
Flush(for, op, scope, back) ==
  [Place("report", op, back) EXCEPT !.for = for, !.scope = scope]

Goto(t, place) == th' = [th EXCEPT ![t] = place]

Init ==
  /\ mode \in {"structured", "terminal"}
  /\ mem = <<>> /\ images = {<<>>} /\ store = "open" /\ recovered = {}
  /\ live = {} /\ events = <<>> /\ refused = FALSE /\ offered = {}
  /\ released = FALSE
  /\ proc = "running" /\ turn = [i \in Inputs |-> "none"]
  /\ known = [op \in Ops |-> "none"] /\ stopped = FALSE /\ consent = TRUE
  /\ writes = [op \in Ops |-> 0] /\ mine = {}
  /\ faults = 0
  /\ th = [t \in Threads |-> Idle]

-----------------------------------------------------------------------------
(* The journal.                                                            *)

\* Mutant of Unwritten: a write that was only started may start again.
UnwrittenOrStarted == {"accepted", "write_started"}

\* States before any possible write.
Unwritten == {"accepted"}

Acknowledged == {"write_acknowledged", "turn_started", "turn_completed"}
Ended == {"turn_completed", "rejected", "expired"}
Final == Ended \cup {"exit_confirmed"}

\* Transition: what may follow what.  A late acknowledgement resolves an
\* uncertain write; nothing turns a possible write into a safe refusal.
Transition(op, before, after) ==
  \/ before = after
  \/ /\ before \notin Final
     /\ \/ after \in {"write_started", "rejected", "expired"}
           /\ before \in Unwritten
        \/ after = "uncertain" /\ before \notin Unwritten
        \/ after = "write_acknowledged"
           /\ before \in {"write_started", "uncertain"}
        \/ after = "turn_started" /\ op \in Inputs
           /\ before = "write_acknowledged"
        \/ after = "turn_completed" /\ op \in Inputs
           /\ before = "turn_started"
        \/ after = "exit_confirmed" /\ op = Stop /\ before \notin Unwritten

Has(op) == \E i \in DOMAIN mem : mem[i].op = op
At(op) == CHOOSE i \in DOMAIN mem : mem[i].op = op
State(op) == Last(mem[At(op)].log)

\* save: the temporary file written and synced, renamed, the directory synced.
Saved(next) ==
  /\ store = "open"
  /\ mem' = next /\ images' = {next}
  /\ UNCHANGED <<store, faults>>

\* A save that fails before its temporary file exists leaves the handle as it
\* was; a later failure poisons it, and the rename may or may not survive.
SaveFails(next) ==
  /\ store = "open"
  /\ faults < MaxFaults /\ faults' = faults + 1
  /\ \/ UNCHANGED <<images, store>>
     \/ store' = "poisoned" /\ images' \in {images, images \cup {next}}
  /\ UNCHANGED mem

\* Every operation on a handle that is closed or poisoned is refused.
Shut == store # "open" /\ UNCHANGED <<journal, faults>>

NotSaved(next) == SaveFails(next) \/ Shut

Moved(op, state) == [mem EXCEPT ![At(op)].log = Append(@, state)]

\* advance, and the index look-up before it.
Advances(op, state) ==
  /\ Has(op)
  /\ \/ /\ store = "open" /\ State(op) = state
        /\ UNCHANGED <<journal, faults>>
     \/ /\ State(op) # state /\ Transition(op, State(op), state)
        /\ Saved(Moved(op, state))

AdvanceFails(op, state) ==
  \/ Shut
  \/ /\ store = "open"
     /\ ~Has(op) \/ ~Transition(op, State(op), state)
     /\ UNCHANGED <<journal, faults>>
  \/ /\ Has(op)
     /\ State(op) # state /\ Transition(op, State(op), state)
     /\ SaveFails(Moved(op, state))

\* Mutant of Full: keystrokes take the last slot too.
FullToTheLast(op) ==
  \/ Len(mem) = MaxReceipts
  \/ op \in Inputs
     /\ Cardinality({i \in DOMAIN mem : mem[i].op \in Inputs
                                        /\ Last(mem[i].log) \notin Ended})
        >= MaxPendingInputs

\* Keystrokes leave the last slot to the stop.
Full(op) ==
  \/ Len(mem) = MaxReceipts
  \/ op \in Keys /\ Len(mem) >= MaxReceipts - 1
  \/ op \in Inputs
     /\ Cardinality({i \in DOMAIN mem : mem[i].op \in Inputs
                                        /\ Last(mem[i].log) \notin Ended})
        >= MaxPendingInputs

\* replayInput: confirmed, and by a writer of this journal lifetime.
Replayable(op) ==
  /\ op \in Inputs /\ Has(op)
  /\ op \notin recovered /\ State(op) \in Acknowledged

\* Mutant of Settled: retired although a report is still owed.
SettledUnreported(e) ==
  /\ e.op \in Keys
  /\ Last(e.log) \in {"write_acknowledged", "rejected", "expired"}

\* RetirePTYReports: settled, fully reported keystrokes, oldest first, but
\* for the last of them.
Settled(e) ==
  /\ e.op \in Keys /\ e.sent = Len(e.log)
  /\ Last(e.log) \in {"write_acknowledged", "rejected", "expired"}

Retained ==
  LET settled == {i \in DOMAIN mem : Settled(mem[i])}
      kept == {i \in DOMAIN mem :
                 i \in settled =>
                   Cardinality({j \in settled : j > i}) < History}
  IN  [k \in 1..Cardinality(kept) |->
         mem[CHOOSE i \in kept :
               Cardinality({j \in kept : j <= i}) = k]]

\* recover: a started write whose outcome is lost is uncertain, an operation
\* that was only accepted may have expired.
Recover(entries, expired) ==
  [i \in DOMAIN entries |->
     LET e == entries[i] IN
     CASE Last(e.log) = "write_started" ->
            [e EXCEPT !.log = Append(@, "uncertain")]
       [] Last(e.log) \in Unwritten /\ e.op \in expired ->
            [e EXCEPT !.log = Append(@, "expired")]
       [] OTHER -> e]

-----------------------------------------------------------------------------
(* Locks.  opMu is th.owner being elsewhere than idle.                     *)

\* Delivery.mu: from the acceptance of an input or a stop to the end of its
\* reports, and around an observed event.
HoldsDelivery(t) ==
  \/ th[t].at \in {"accepted", "begun", "written", "unsure"}
     /\ th[t].op \notin Keys
  \/ th[t].at \in {"report", "ack", "release"}
     /\ th[t].for \in {"send", "exit", "own", "event"}

\* eventMu: the one flusher of reports outside Delivery.  A terminal has no
\* provider events, so its keystrokes never wait for it.
HoldsEvents(t) ==
  \/ th[t].at \in {"observe", "retire"}
  \/ th[t].at \in {"report", "ack"} /\ th[t].for \in {"poll", "key", "event"}

DeliveryFree == \A t \in Threads : ~HoldsDelivery(t)

\* Mutant of EventsFree: a poll and the reader do not wait for each other.
EventsFreeAlways == TRUE

EventsFree == \A t \in Threads : ~HoldsEvents(t)

-----------------------------------------------------------------------------
(* An operation: accepted, begun, written, settled.                        *)

\* executeLocked or ptyOperation, to the end of Accept.  An input joins the
\* live set before the journal is asked, and stays there if it is refused.
Execute(op) ==
  /\ store # "down" /\ ~released
  /\ op \in Keys \/ DeliveryFree
  /\ \/ /\ Has(op) /\ store = "open"
        /\ \/ /\ State(op) \in Unwritten
              /\ Goto("owner", Place("accepted", op, "idle"))
              /\ live' = live \cup ({op} \cap Inputs)
           \/ /\ State(op) \notin Unwritten /\ Replayable(op)
              /\ Goto("owner", Flush("send", op, Ops, "idle"))
              /\ live' = live \cup {op}
           \/ /\ State(op) \notin Unwritten /\ ~Replayable(op)
              /\ Goto("owner", Idle)
              /\ live' = IF State(op) \in Ended
                           THEN live \ {op}
                           ELSE live \cup ({op} \cap Inputs)
        /\ UNCHANGED <<journal, faults>>
     \/ LET next == Append(mem, [op |-> op, log |-> <<"accepted">>,
                                 sent |-> 0])
        IN  /\ ~Has(op) \/ store # "open"
            /\ \/ /\ ~Full(op) /\ Saved(next)
                  /\ Goto("owner", Place("accepted", op, "idle"))
               \/ /\ ~Full(op) /\ NotSaved(next)
                  /\ Goto("owner", Idle)
               \/ /\ Full(op) /\ UNCHANGED <<journal, faults>>
                  /\ Goto("owner", Idle)
            /\ live' = live \cup ({op} \cap Inputs)

\* A person's command, through the daemon's socket or fetched by a poll, which
\* runs it at its end.  The socket reads refused before it has opMu, so the flag
\* may be set by the time the command runs, and it may repeat a command the
\* journal has seen; a poll does neither.
Command(op) ==
  /\ th["owner"].at = "idle" /\ op \in Offers \ Keys
  /\ Execute(op)
  /\ UNCHANGED <<mode, recovered, events, refused, offered, released, native,
                 server>>

\* A keystroke.  The daemon would take one again; its client never repeats one:
\* it gives each a fresh id and gives up the terminal on any error.
PTYOperation(op) ==
  /\ th["owner"].at = "idle" /\ op \in (Offers \cap Keys) \ offered
  /\ ~refused
  /\ Execute(op)
  /\ offered' = offered \cup {op}
  /\ UNCHANGED <<mode, recovered, events, refused, released, native, server>>

\* A refused write leaves an input or a stop accepted, and a keystroke is
\* rejected; so is one whose marker could not be saved.
RefusedWrite(op) ==
  Goto("owner", IF op \in Keys THEN Place("reject", op, "idle") ELSE Idle)

\* RequireWrite, then BeginWrite.
Begin ==
  LET op == th["owner"].op IN
  /\ th["owner"].at = "accepted"
  /\ \/ /\ RefusedWrite(op)
        /\ UNCHANGED <<journal, faults, recovered>>
     \/ /\ State(op) \in Unwritten /\ Advances(op, "write_started")
        /\ Goto("owner", Place("begun", op, "idle"))
        /\ recovered' = recovered \ {op}
     \/ /\ AdvanceFails(op, "write_started")
        /\ RefusedWrite(op)
        /\ UNCHANGED recovered
  /\ UNCHANGED <<mode, daemon, native, server>>

\* The second RequireWrite, then the native write, which may fail with or
\* without having happened.  A stop refused here stays write_started.
Write ==
  LET op == th["owner"].op IN
  /\ th["owner"].at = "begun"
  /\ \/ /\ Goto("owner", IF op = Stop THEN Idle ELSE Place("unsure", op, "idle"))
        /\ UNCHANGED native
     \/ /\ Goto("owner", Place("unsure", op, "idle"))
        /\ UNCHANGED native
     \/ /\ op = Stop \/ proc = "running"
        /\ \E place \in {"written", "unsure"} :
             /\ Goto("owner", Place(place, op, "idle"))
             /\ proc' = IF op = Stop /\ place = "written" THEN "gone" ELSE proc
        /\ writes' = [writes EXCEPT ![op] = @ + 1]
        /\ mine' = mine \cup {op}
        /\ UNCHANGED turn
  /\ UNCHANGED <<mode, journal, recovered, daemon, server, faults>>

Evidence(op) == IF op = Stop THEN "exit_confirmed" ELSE "write_acknowledged"

\* The transport's evidence journaled, then the reports.
Settle ==
  LET op == th["owner"].op IN
  /\ th["owner"].at = "written"
  /\ \/ /\ Advances(op, Evidence(op))
        /\ Goto("owner", CASE op \in Inputs -> Flush("send", op, Ops, "idle")
                           [] op \in Keys -> Flush("key", op, {op}, "idle")
                           [] op = Stop -> Flush("exit", op, Ops, "idle"))
     \/ /\ AdvanceFails(op, Evidence(op))
        /\ Goto("owner", Place("unsure", op, "idle"))
  /\ UNCHANGED <<mode, recovered, daemon, native, server>>

\* A possible write is published as uncertain when the journal allows it; a
\* terminal then takes no more keystrokes.
Unsure ==
  LET op == th["owner"].op IN
  /\ th["owner"].at = "unsure"
  /\ Advances(op, "uncertain") \/ AdvanceFails(op, "uncertain")
  /\ refused' = (refused \/ op \in Keys)
  /\ Goto("owner", Idle)
  /\ UNCHANGED <<mode, recovered, live, events, offered, released, native,
                 server>>

Reject ==
  LET op == th["owner"].op IN
  /\ th["owner"].at = "reject"
  /\ Advances(op, "rejected") \/ AdvanceFails(op, "rejected")
  /\ Goto("owner", Flush("key", op, {op}, "idle"))
  /\ UNCHANGED <<mode, recovered, daemon, native, server>>

-----------------------------------------------------------------------------
(* Reports.                                                                *)

\* The server: a new operation starts at accepted, a known one follows
\* Transition; a stopped session takes only its exit, and without consent
\* only the stop's reports are taken.
ServerRefuses(op, state) ==
  \/ stopped /\ state # "exit_confirmed"
  \/ ~consent /\ op # Stop
  \/ IF known[op] = "none" THEN state # "accepted"
                           ELSE ~Transition(op, known[op], state)

\* The person may withdraw consent at any time (the environment); the consent
\* check of a report is what finds it gone, and a stop's does not need it.
Withdrawn(op) ==
  /\ op # Stop /\ consent
  /\ consent' = FALSE /\ UNCHANGED <<known, stopped>>

ServerRecords(op, state) ==
  /\ ~ServerRefuses(op, state)
  /\ known' = [known EXCEPT ![op] = state]
  /\ UNCHANGED consent

\* An exit stops the harness session, in a second transaction.
ServerStops(state) == stopped' = (stopped \/ state = "exit_confirmed")

ServerTakes(op, state) == ServerRecords(op, state) /\ ServerStops(state)

\* What the caller of a flush does with its result.
Finish(t, result) ==
  LET p == th[t]
      faulted == refused \/ result = "refused"
  IN
  /\ CASE p.for = "send" ->
            Goto(t, Idle) /\ UNCHANGED <<refused, events>>
       [] p.for \in {"poll", "key"} ->
            /\ Goto(t, IF Retained = mem THEN Place(p.back, Stop, "idle")
                                         ELSE Place("retire", Stop, p.back))
            /\ refused' = (IF p.for = "poll" THEN faulted ELSE refused)
            /\ UNCHANGED events
       [] p.for = "event" /\ result = "ok" ->
            /\ Goto(t, Place("observe", p.op, p.back))
            /\ events' = Tail(events) /\ UNCHANGED refused
       [] p.for = "event" /\ result # "ok" ->
            /\ Goto(t, Place(p.back, Stop, "idle"))
            /\ refused' = (IF t = "owner" THEN faulted ELSE refused)
            /\ UNCHANGED events
       [] p.for \in {"exit", "own"} /\ result = "ok" ->
            /\ Goto(t, [Place("release", p.op, p.back) EXCEPT !.for = "exit"])
            /\ UNCHANGED <<refused, events>>
       [] p.for = "exit" /\ result # "ok" ->
            /\ Goto(t, IF faulted THEN Flush("own", p.op, {p.op}, p.back)
                                  ELSE Place(p.back, Stop, "idle"))
            /\ refused' = faulted /\ UNCHANGED events
       [] p.for = "own" /\ result # "ok" ->
            Goto(t, Place(p.back, Stop, "idle"))
            /\ UNCHANGED <<refused, events>>
  /\ live' = IF p.for \in {"send", "event"} /\ Has(p.op) /\ State(p.op) \in Ended
               THEN live \ {p.op} ELSE live
  /\ UNCHANGED <<mode, recovered, offered, released, native>>

\* Mutant of Pending: the last state is taken for reported.
PendingButLast(scope) ==
  {i \in DOMAIN mem : mem[i].op \in scope
                      /\ mem[i].sent < Len(mem[i].log) - 1}

\* What a flush still has to report.
Pending(scope) ==
  {i \in DOMAIN mem : mem[i].op \in scope /\ mem[i].sent < Len(mem[i].log)}

\* flush, to the server's answer: the oldest entry with something to report,
\* its attempt counted in the journal first.  The answer may be an error
\* although the receipt, or the receipt and the stop, were committed.
Report(t) ==
  LET pending == Pending(th[t].scope)
      i == Min(pending)
      e == mem[i]
      state == e.log[e.sent + 1]
      more == store = "open" /\ th[t].n < Limit /\ pending # {}
  IN
  /\ th[t].at = "report"
  /\ \/ /\ Shut
        /\ Finish(t, "error") /\ UNCHANGED server
     \/ /\ store = "open" /\ ~more
        /\ Finish(t, "ok") /\ UNCHANGED <<journal, faults, server>>
     \/ /\ more /\ SaveFails(mem)
        /\ Finish(t, "error") /\ UNCHANGED server
     \/ /\ more /\ Saved(mem)
        /\ \/ ServerRefuses(e.op, state) /\ UNCHANGED server
           \/ Withdrawn(e.op)
        /\ Finish(t, "refused")
     \/ /\ more /\ Saved(mem)
        /\ ServerTakes(e.op, state)
        /\ Goto(t, [th[t] EXCEPT !.at = "ack", !.idx = i, !.off = e.sent])
        /\ UNCHANGED <<mode, recovered, daemon, native>>
     \/ /\ more /\ images' = {mem} /\ UNCHANGED <<mem, store>>
        /\ faults < MaxFaults /\ faults' = faults + 1
        /\ \/ /\ ServerRecords(e.op, state)
              /\ ServerStops(state) \/ UNCHANGED stopped
           \/ UNCHANGED server
        /\ Finish(t, "error")

\* flush, after the answer: the entry is found again by its index.
Ack(t) ==
  LET p == th[t]
      next == [mem EXCEPT ![p.idx].sent = @ + 1]
  IN
  /\ p.at = "ack"
  /\ UNCHANGED server
  /\ \/ /\ store = "open" /\ mem[p.idx].sent = p.off
        /\ Saved(next)
        /\ Goto(t, [p EXCEPT !.at = "report", !.n = @ + 1])
        /\ UNCHANGED <<mode, recovered, daemon, native>>
     \/ /\ store = "open" /\ mem[p.idx].sent # p.off
        /\ Finish(t, "error") /\ UNCHANGED <<journal, faults>>
     \/ /\ store = "open" /\ mem[p.idx].sent = p.off
        /\ SaveFails(next) /\ Finish(t, "error")
     \/ Shut /\ Finish(t, "error")

Retire ==
  /\ th["owner"].at = "retire"
  /\ Saved(Retained) \/ NotSaved(Retained)
  /\ Goto("owner", Place(th["owner"].back, Stop, "idle"))
  /\ UNCHANGED <<mode, recovered, daemon, native, server>>

\* The ledger's hold goes back only after the exit has been reported.
Release ==
  /\ th["owner"].at = "release"
  /\ \/ /\ released' = TRUE /\ Goto("owner", Idle)
        /\ UNCHANGED faults
     \/ /\ faults < MaxFaults /\ faults' = faults + 1
        /\ Goto("owner", Place(th["owner"].back, Stop, "idle"))
        /\ UNCHANGED released
  /\ UNCHANGED <<mode, journal, recovered, live, events, refused, offered,
                 native, server>>

-----------------------------------------------------------------------------
(* The poll.                                                               *)

\* Mutant of TerminalGone: a terminal that cannot be observed is taken for gone.
TerminalGoneUnseen == mode = "terminal"

\* A terminal whose process has gone reports the exit of its start operation
\* and releases without the journal.
TerminalGone == mode = "terminal" /\ proc = "gone"

FinishTerminalExit ==
  /\ TerminalGone
  /\ \/ /\ stopped' = TRUE /\ UNCHANGED faults
        /\ Goto("owner", Place("release", Stop, "idle"))
     \/ /\ faults < MaxFaults /\ faults' = faults + 1
        /\ stopped' \in {stopped, TRUE}
        /\ Goto("owner", Idle)
  /\ UNCHANGED <<known, consent>>

PollStart ==
  /\ th["owner"].at = "idle" /\ store # "down" /\ ~released
  /\ \/ FinishTerminalExit
     \/ /\ ~TerminalGone /\ ~refused /\ EventsFree
        /\ Goto("owner", Flush("poll", Stop, Ops, "reconcile"))
        /\ UNCHANGED <<server, faults>>
     \/ /\ ~TerminalGone /\ refused
        /\ Goto("owner", Place("reconcile", Stop, "idle"))
        /\ UNCHANGED <<server, faults>>
  /\ UNCHANGED <<mode, journal, recovered, daemon, native>>

\* Mutant of Reconcilable: a stop whose exit is journaled is thought done.
ReconcilableOnce == {"uncertain", "write_started"}

\* The states of a stop whose exit, report or release may be missing.
Reconcilable == {"uncertain", "write_started", "exit_confirmed"}

\* reconcileExit: a stop that may have been written, and a process seen gone.
\* A journal longer than one page is not searched.
Reconcile ==
  LET exits == /\ store = "open" /\ Len(mem) <= PageLimit
               /\ Has(Stop) /\ proc = "gone"
               /\ State(Stop) \in Reconcilable
  IN
  /\ th["owner"].at = "reconcile"
  /\ \/ /\ exits /\ DeliveryFree /\ Advances(Stop, "exit_confirmed")
        /\ Goto("owner", Flush("exit", Stop, Ops, "events"))
     \/ /\ exits /\ DeliveryFree /\ AdvanceFails(Stop, "exit_confirmed")
        /\ Goto("owner", Place("events", Stop, "idle"))
     \/ /\ ~exits /\ UNCHANGED <<journal, faults>>
        /\ Goto("owner", Place("events", Stop, "idle"))
  /\ UNCHANGED <<mode, recovered, daemon, native, server>>

PollEvents ==
  /\ th["owner"].at = "events"
  /\ \/ ~refused /\ EventsFree
        /\ Goto("owner", Place("observe", Stop, "idle"))
     \/ refused /\ Goto("owner", Idle)
  /\ UNCHANGED <<mode, journal, recovered, daemon, native, server, faults>>

-----------------------------------------------------------------------------
(* The provider's events, in order, under eventMu.  The transport buffers   *)
(* them, so they may arrive after the process has gone.                     *)

Arrive(i) ==
  LET stage == IF turn[i] = "none" THEN "turn_started" ELSE "turn_completed"
  IN
  /\ th["reader"].at = "idle" /\ EventsFree
  /\ store # "down" /\ ~released
  /\ writes[i] > 0 /\ turn[i] # "turn_completed"
  /\ turn' = [turn EXCEPT ![i] = stage]
  /\ events' = Append(events, [op |-> i, state |-> stage])
  /\ Goto("reader", Place("observe", Stop, "idle"))
  /\ UNCHANGED <<mode, journal, recovered, live, refused, offered, released,
                 proc, writes, mine, server, faults>>

\* flushEvents: an event nobody waits for is dropped, one the journal does not
\* take stays at the head.
Observe(t) ==
  LET e == Head(events) IN
  /\ th[t].at = "observe"
  /\ \/ /\ events = <<>>
        /\ Goto(t, Place(th[t].back, Stop, "idle"))
        /\ UNCHANGED <<journal, faults, events>>
     \/ /\ events # <<>> /\ e.op \notin live
        /\ events' = Tail(events)
        /\ UNCHANGED <<journal, faults, th>>
     \/ /\ events # <<>> /\ e.op \in live /\ DeliveryFree
        /\ \/ /\ Advances(e.op, e.state)
              /\ Goto(t, Flush("event", e.op, Ops, th[t].back))
           \/ /\ AdvanceFails(e.op, e.state)
              /\ Goto(t, Place(th[t].back, Stop, "idle"))
        /\ UNCHANGED events
  /\ UNCHANGED <<mode, recovered, live, refused, offered, released, native,
                 server>>

-----------------------------------------------------------------------------
(* The world.                                                              *)

\* Only PollStart, Reconcile and a write see whether the process is there (a
\* write that finds it gone is one that failed), so an exit at any other time
\* is one just before the next of them.
ProcessExits ==
  /\ th["owner"].at \in {"idle", "reconcile"}
  /\ proc = "running" /\ proc' = "gone"
  /\ UNCHANGED <<mode, journal, recovered, daemon, turn, writes, mine, server,
                 faults, th>>

\* The daemon is killed or the machine loses power; a poisoned journal is left
\* only by a restart.
Crash ==
  /\ store # "down" /\ ~released
  /\ \/ store = "open" /\ faults < MaxFaults /\ faults' = faults + 1
     \/ store = "poisoned" /\ UNCHANGED faults
  /\ store' = "down" /\ mem' = <<>> /\ recovered' = {}
  /\ live' = {} /\ events' = <<>> /\ refused' = FALSE
  /\ mine' = {}
  /\ th' = [t \in Threads |-> Idle]
  /\ UNCHANGED <<mode, images, offered, released, proc, turn, writes, server>>

\* Open and recover.  What was read is written again only if it changed.
Reopen ==
  /\ store = "down"
  /\ \E entries \in images, expired \in SUBSET Offers :
       LET next == Recover(entries, expired) IN
       \/ /\ store' = "open" /\ mem' = next
          /\ images' = IF next = entries THEN images ELSE {next}
          /\ recovered' = {next[i].op : i \in DOMAIN next} \cap Inputs
          /\ UNCHANGED faults
       \/ /\ next # entries /\ faults < MaxFaults /\ faults' = faults + 1
          /\ images' = images \cup {next}
          /\ UNCHANGED <<store, mem, recovered>>
  /\ UNCHANGED <<mode, daemon, native, server, th>>

OwnerStep ==
  \/ Begin \/ Write \/ Settle \/ Unsure \/ Reject
  \/ Report("owner") \/ Ack("owner") \/ Retire \/ Release
  \/ Reconcile \/ PollEvents \/ Observe("owner")

ReaderStep == Report("reader") \/ Ack("reader") \/ Observe("reader")

Next ==
  \/ \E op \in Inputs \cup {Stop} : Command(op)
  \/ \E op \in Keys : PTYOperation(op)
  \/ PollStart \/ OwnerStep \/ ReaderStep
  \/ \E i \in Inputs : Arrive(i)
  \/ ProcessExits \/ Crash \/ Reopen

\* A goroutine goes on, and one that waits for a lock gets it in the end:
\* the poll opMu, the reader Delivery.mu (a channel serves its senders in
\* turn), though commands come and go.
Fairness == SF_vars(PollStart) /\ WF_vars(OwnerStep) /\ SF_vars(ReaderStep)

Spec == Init /\ [][Next]_vars /\ Fairness

-----------------------------------------------------------------------------
(* What must hold.                                                         *)

\* Every state some copy of the journal, or the server, gives an operation.
Said(op) ==
  {known[op]} \cup
  UNION {UNION {Range(copy[i].log) : i \in {j \in DOMAIN copy : copy[j].op = op}}
         : copy \in images \cup {mem}}

\* A native write happens at most once, over crashes, failed saves and repeated
\* commands; no journal a restart may read, nor the server, ever calls a
\* written operation rejected or expired, an unwritten one acknowledged, or a
\* running process exited; and a command is answered from the journal only
\* when this journal lifetime did the write (BeginWrite, recover, replayInput).
ReceiptsHonest ==
  \A op \in Ops :
    /\ writes[op] <= 1
    /\ Said(op) \cap {"rejected", "expired"} # {} => writes[op] = 0
    /\ Said(op) \cap Acknowledged # {} => writes[op] = 1
    /\ "exit_confirmed" \in Said(op) => proc = "gone"
    /\ Replayable(op) => op \in mine

\* The server is never ahead of a journal a restart may read by more than the
\* one report whose acknowledgement is not saved, and never behind what the
\* journal counts as sent; an operation the server knows is gone from the
\* journal only as a settled keystroke (flush, RetirePTYReports).
CopiesAgree ==
  \A copy \in images \cup IF store = "down" THEN {} ELSE {mem} :
    /\ \A i \in DOMAIN copy :
         LET e == copy[i]
             said == IF e.sent = 0 THEN "none" ELSE e.log[e.sent]
         IN  \/ known[e.op] = said
             \/ e.sent < Len(e.log) /\ known[e.op] = e.log[e.sent + 1]
    /\ \A op \in Ops :
         \/ known[op] = "none"
         \/ \E i \in DOMAIN copy : copy[i].op = op
         \/ op \in Keys
            /\ known[op] \in {"write_acknowledged", "rejected", "expired"}

\* One goroutine flushes at a time, though a poll holds eventMu, a command
\* Delivery.mu and the reader both; so the report the server answered is still
\* the next one its entry owes, and is counted once ("The journal permits one
\* flusher", native_session.go:1383; flush, poll, Delivery.lock).
OneFlusher ==
  /\ \A t, u \in Threads :
       {th[t].at, th[u].at} \subseteq {"report", "ack"} => t = u
  /\ \A t \in Threads :
       LET e == mem[th[t].idx] IN
       th[t].at = "ack" =>
         /\ th[t].idx \in DOMAIN mem /\ e.sent = th[t].off
         /\ e.sent < Len(e.log) /\ known[e.op] = e.log[e.sent + 1]

\* Server and journal differ by at most the report in flight, and there is one.
Agrees == CopiesAgree /\ OneFlusher

\* A hold is given back only when the process is gone, and for a structured
\* session only when every journal a restart may read has the exit of its stop
\* ("Root/group exit and a persisted exit receipt precede the release callback",
\* native-lead-integration.md:203; ConfirmExit, flushExit, release).
ReleasedIsExited ==
  released =>
    /\ proc = "gone"
    /\ mode = "structured" =>
         \A copy \in images \cup {mem} :
           \E i \in DOMAIN copy :
             copy[i].op = Stop /\ "exit_confirmed" \in Range(copy[i].log)

\* The release starts only once the server has stopped the session, for a
\* structured session on the exit report of its stop, or after a flush that
\* made all the reports it may (flush, flushExit, FinishTerminalExit).
ExitReportedFirst ==
  [][\A t \in Threads :
       th'[t].at = "release" /\ th[t].at # "release" =>
         \/ stopped' /\ (mode = "structured" => known'[Stop] = "exit_confirmed")
         \/ th[t].at = "report" /\ th[t].n >= Limit]_vars

\* However many keystrokes could not be reported, a terminal's journal has a
\* slot for its stop (Accept, RetirePTYReports).
StopHasRoom ==
  (mode = "terminal" /\ store # "down" /\ ~Has(Stop)) => Len(mem) < MaxReceipts

\* Once a stop may have been written and the process is gone, the session is
\* released without another close, whatever was lost on the way, unless the
\* journal itself fails (reconcileExit, ConfirmExit, flushExit).
StopSettles ==
  (/\ store = "open" /\ Has(Stop) /\ proc = "gone"
   /\ State(Stop) \notin Unwritten \cup Ended)
    ~> (released \/ store # "open")
=============================================================================
