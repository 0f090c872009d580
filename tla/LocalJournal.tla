---------------------------- MODULE LocalJournal ----------------------------
(***************************************************************************)
(* internal/localjournal: the bounded append journal and atomic checkpoint *)
(* that hold the daemon's run records.  One process at a time opens it     *)
(* (the caller's instance lock) and one mutation runs at a time (j.mu);    *)
(* what interleaves with the steps of a mutation are failing file system   *)
(* calls, a killed process and a power loss.                               *)
(*                                                                         *)
(* The file system is external.  A file has its present content and a set  *)
(* of images, the contents a power loss may leave: a write adds an image,  *)
(* fsync of the file (or, for a rename, of its directory) leaves one.      *)
(***************************************************************************)
EXTENDS FiniteSetsExt, Integers, Sequences

CONSTANTS
  Keys,         \* record keys
  Vals,         \* record contents
  NoVal,        \* no record under a key
  NoKey,        \* the key of a line that is not an entry
  MaxVersion,   \* newest Config.Version of any daemon; each migrates all older ones
  MaxRecords,   \* Config.MaxRecords
  MaxLog,       \* Config.MaxBytes, in journal lines
  MaxFaults     \* bound on failing calls, kills and power losses

ASSUME NoValIsNoRecord == NoVal \notin Vals
ASSUME NoKeyIsNoKey == NoKey \notin Keys
ASSUME BoundsAreNat == {MaxVersion, MaxRecords, MaxLog, MaxFaults} \subseteq Nat

VARIABLES
  pc,           \* where Open, Put or Delete is; "down": no process
  ver,          \* the running daemon's schema version, 0 when down
  op,           \* the entry being written, or Opening
  mem,          \* j.records
  ckpt,         \* the checkpoint file; version 0: missing
  log,          \* the journal file
  ckptImages, logImages,
  named,        \* the journal's directory entry is durable
  faults,       \* failures so far
  may,          \* history: the values a recovery may show for a key
  dirty         \* history: since the last reset an append has failed, or an
                \* Open was interrupted in its own reset

(* The names of the specification say whose they are: it is proved about *)
(* together with NativeRecovery, the other thing a restarted daemon needs. *)
journalVars ==
  <<pc, ver, op, mem, ckpt, log, ckptImages, logImages, named, faults, may, dirty>>
files == <<ckpt, log, ckptImages, logImages, named>>

-----------------------------------------------------------------------------
(* Lines.  A log is whole lines and a tail without its newline: an entry    *)
(* whose newline alone is missing, or a torn write.                         *)

Line(o, k, v, n) == [op |-> o, key |-> k, val |-> v, ver |-> n]
Corrupt == Line("corrupt", NoKey, NoVal, 0)
Torn == Line("torn", NoKey, NoVal, 0)
NoTail == Line("none", NoKey, NoVal, 0)
Opening == Line("open", NoKey, NoVal, 0)
IsEntry(x) == x.op \in {"put", "delete"}

EmptyLog == [lines |-> <<>>, tail |-> NoTail]
NoCkpt == [ver |-> 0, recs |-> [k \in Keys |-> NoVal]]

\* A write behind an unfinished tail glues two lines into one that no
\* strict decoder accepts.
Appended(l, e) ==
  [lines |-> Append(l.lines, IF l.tail = NoTail THEN e ELSE Corrupt), tail |-> NoTail]
Partial(l, e) ==
  {[l EXCEPT !.tail = t] : t \in IF l.tail = NoTail THEN {Torn, e} ELSE {Torn}}

Size(recs) == Cardinality({k \in Keys : recs[k] # NoVal})

-----------------------------------------------------------------------------
(* Open: loadCheckpoint, then ingestJournal.                                *)

\* schemaVersion accepts the own version and the ones with a migration.
Supported(n, v) == n \in 1..v

\* ingestCheckpoint, after readBounded found the file.
CkptReadable(v, c) == c.ver = 0 \/ Supported(c.ver, v)

\* The last entry on a key wins; a put is validated and a delete erases.
Replayed(c, l) ==
  [k \in Keys |->
     LET touched == {i \in 1..Len(l.lines) : l.lines[i].key = k} IN
     IF touched = {} THEN c.recs[k] ELSE l.lines[Max(touched)].val]

\* Mutant of Recovery: the final incomplete line is cut off unread.
RecoveryIgnoresTail(v, c, l) ==
  IF ~CkptReadable(v, c) THEN "version"
  ELSE LET bad == {i \in 1..Len(l.lines) :
                     ~IsEntry(l.lines[i]) \/ ~Supported(l.lines[i].ver, v)} IN
       IF bad # {} THEN IF IsEntry(l.lines[Min(bad)]) THEN "version" ELSE "corrupt"
       ELSE IF Size(Replayed(c, l)) > MaxRecords THEN "corrupt" ELSE "ok"

\* Mutant of Recovery: a final line without its newline is an error.
RecoveryStrictTail(v, c, l) ==
  IF ~CkptReadable(v, c) THEN "version"
  ELSE IF l.tail # NoTail THEN "corrupt"
  ELSE IF Size(Replayed(c, l)) > MaxRecords THEN "corrupt" ELSE "ok"

\* What reading the two files gives a daemon of version v: "ok", a refusal
\* of the schema version, or an error that calls the state corrupt.
Recovery(v, c, l) ==
  IF ~CkptReadable(v, c) THEN "version"
  ELSE IF IsEntry(l.tail) /\ ~Supported(l.tail.ver, v) THEN "version"
  ELSE LET bad == {i \in 1..Len(l.lines) :
                     ~IsEntry(l.lines[i]) \/ ~Supported(l.lines[i].ver, v)} IN
       IF bad # {} THEN IF IsEntry(l.lines[Min(bad)]) THEN "version" ELSE "corrupt"
       ELSE IF Size(Replayed(c, l)) > MaxRecords THEN "corrupt" ELSE "ok"

Settled == [k \in Keys |-> {mem[k]}]

JournalInit ==
  /\ pc = "down" /\ ver = 0 /\ op = Opening
  /\ mem = [k \in Keys |-> NoVal]
  /\ ckpt = NoCkpt /\ log = EmptyLog
  /\ ckptImages = {NoCkpt} /\ logImages = {EmptyLog} /\ named = FALSE
  /\ faults = 0
  /\ may = Settled /\ dirty = FALSE

\* A refused Open changes nothing, so only an accepted one is a step.  It is
\* followed by a checkpoint when anything was replayed, cut off or migrated.
Open(v) ==
  /\ pc = "down"
  /\ Recovery(v, ckpt, log) = "ok"
  /\ ver' = v /\ op' = Opening
  /\ mem' = Replayed(ckpt, log)
  /\ pc' = IF log # EmptyLog \/ ckpt.ver \notin {0, v} THEN "rename" ELSE "idle"
  /\ UNCHANGED <<files, faults, may, dirty>>

-----------------------------------------------------------------------------
(* Put and Delete up to the append.  A full journal refuses a new key       *)
(* before it writes anything.                                               *)

Begin(e) ==
  /\ pc = "idle"
  /\ op' = e
  /\ pc' = "append"
  /\ may' = [may EXCEPT ![e.key] = @ \cup {e.val}]
  /\ UNCHANGED <<ver, mem, files, faults, dirty>>

Put(k, v) ==
  /\ mem[k] # NoVal \/ Size(mem) < MaxRecords
  /\ Begin(Line("put", k, v, ver))

Delete(k) == Begin(Line("delete", k, NoVal, ver))

AppendWrite ==
  /\ pc = "append"
  /\ Len(log.lines) < MaxLog
  /\ log' = Appended(log, op)
  /\ logImages' = logImages \cup {log'} \cup Partial(log, op)
  /\ pc' = "sync"
  /\ UNCHANGED <<ver, op, mem, ckpt, ckptImages, named, faults, may, dirty>>

\* "local journal size limit reached", before the file is opened.
AppendRefused ==
  /\ pc = "append"
  /\ Len(log.lines) = MaxLog
  /\ pc' = "idle"
  /\ UNCHANGED <<ver, op, mem, files, faults, may, dirty>>

\* The file's fsync: its content is durable, its name only after a
\* directory fsync.  The records in memory follow.
AppendSync ==
  /\ pc = "sync"
  /\ logImages' = {log} \cup IF named THEN {} ELSE {EmptyLog}
  /\ mem' = [mem EXCEPT ![op.key] = op.val]
  /\ pc' = "rename"
  /\ UNCHANGED <<ver, op, ckpt, log, ckptImages, named, faults, may, dirty>>

-----------------------------------------------------------------------------
(* checkpoint and resetJournal.                                             *)

New == [ver |-> ver, recs |-> mem]

\* Write and fsync a temporary file (no reader sees it), then rename it.
CheckpointRename ==
  /\ pc = "rename"
  /\ ckpt' = New
  /\ ckptImages' = ckptImages \cup {New}
  /\ pc' = "dirsync"
  /\ UNCHANGED <<ver, op, mem, log, logImages, named, faults, may, dirty>>

\* Mutant of CheckpointDirSync: the directory is not synced before the reset.
CheckpointDirSyncSkipped ==
  /\ pc = "dirsync"
  /\ named' = TRUE
  /\ pc' = "reset"
  /\ UNCHANGED <<ver, op, mem, ckpt, log, logImages, ckptImages, faults, may, dirty>>

CheckpointDirSync ==
  /\ pc = "dirsync"
  /\ ckptImages' = {ckpt}
  /\ named' = TRUE
  /\ logImages' = IF log = EmptyLog \/ named THEN logImages ELSE logImages \ {EmptyLog}
  /\ pc' = "reset"
  /\ UNCHANGED <<ver, op, mem, ckpt, log, faults, may, dirty>>

ResetTruncate ==
  /\ pc = "reset"
  /\ log' = EmptyLog
  /\ logImages' = logImages \cup {EmptyLog}
  /\ pc' = "resetsync"
  /\ UNCHANGED <<ver, op, mem, ckpt, ckptImages, named, faults, may, dirty>>

\* Open, Put or Delete answers nil.
ResetSync ==
  /\ pc = "resetsync"
  /\ logImages' = {EmptyLog}
  /\ pc' = "idle"
  /\ may' = Settled /\ dirty' = FALSE
  /\ UNCHANGED <<ver, op, mem, ckpt, log, ckptImages, named, faults>>

-----------------------------------------------------------------------------
(* Failures.                                                                *)

\* Open has truncated the journal and its fsync has not returned.  The next
\* Open finds an empty file and does not sync it again.
OpenResets == pc = "resetsync" /\ op = Opening

\* The call at pc fails and Open, Put or Delete returns its error: a failed
\* Open gives no journal, a failed mutation leaves it in use.  A failed
\* append may have written a part of the line, a failed fsync all of it.
CallFails ==
  /\ pc \notin {"down", "idle"} /\ faults < MaxFaults
  /\ faults' = faults + 1
  /\ \/ /\ pc # "append"
        /\ UNCHANGED files
        /\ dirty' = (dirty \/ pc = "sync" \/ OpenResets)
     \/ /\ pc = "append"
        /\ log' \in {log} \cup Partial(log, op)
        /\ logImages' = logImages \cup {log'}
        /\ dirty' = (dirty \/ log' # log)
        /\ UNCHANGED <<ckpt, ckptImages, named>>
  /\ IF op = Opening
     THEN pc' = "down" /\ ver' = 0 /\ mem' = [k \in Keys |-> NoVal]
     ELSE pc' = "idle" /\ UNCHANGED <<ver, mem>>
  /\ UNCHANGED <<op, may>>

Kill ==
  /\ pc # "down" /\ faults < MaxFaults
  /\ faults' = faults + 1
  /\ pc' = "down" /\ ver' = 0 /\ op' = Opening
  /\ mem' = [k \in Keys |-> NoVal]
  /\ dirty' = (dirty \/ OpenResets)
  /\ UNCHANGED <<files, may>>

PowerLoss ==
  /\ faults < MaxFaults
  /\ faults' = faults + 1
  /\ ckpt' \in ckptImages /\ log' \in logImages
  /\ ckptImages' = {ckpt'} /\ logImages' = {log'}
  /\ named' = (named \/ log' # EmptyLog)
  /\ pc' = "down" /\ ver' = 0 /\ op' = Opening
  /\ mem' = [k \in Keys |-> NoVal]
  /\ UNCHANGED <<may, dirty>>

-----------------------------------------------------------------------------
JournalNext ==
  \/ \E v \in 1..MaxVersion : Open(v)
  \/ \E k \in Keys : Delete(k) \/ \E v \in Vals : Put(k, v)
  \/ AppendWrite \/ AppendRefused \/ AppendSync
  \/ CheckpointRename \/ CheckpointDirSync \/ ResetTruncate \/ ResetSync
  \/ CallFails \/ Kill \/ PowerLoss

JournalSpec == JournalInit /\ [][JournalNext]_journalVars
-----------------------------------------------------------------------------
Images == [c : ckptImages, l : logImages]

\* Whatever a crash leaves on disk at any moment, a daemon that reads it sees
\* for every key its last acknowledged value or one a failed or interrupted
\* mutation since then wrote.
AckedSurvives ==
  \A i \in Images : Recovery(MaxVersion, i.c, i.l) = "ok" =>
    \A k \in Keys : Replayed(i.c, i.l)[k] \in may[k]

\* As long as no append failed half-way and no Open was interrupted in its
\* reset, every crash image is readable: a torn final write is cut off and
\* never mistaken for corruption or for more records than the limit ("JournalRepairsOnlyIncompleteFinalWALRecord").
CrashIsReadable ==
  ~dirty => \A i \in Images : Recovery(MaxVersion, i.c, i.l) = "ok"

Newest(c, l) == Max({c.ver, l.tail.ver} \cup {l.lines[i].ver : i \in 1..Len(l.lines)})

\* "Open returns it before changing either state file" (journal.go:41): no
\* step of a daemon changes files that hold a newer schema than its own,
\* also when a crash left that evidence only in an unfinished last line.
NewerSchemaUntouched ==
  [][pc # "down" /\ pc' # "down" /\ <<ckpt, log>>' # <<ckpt, log>>
       => Newest(ckpt, log) <= ver]_journalVars
=============================================================================
