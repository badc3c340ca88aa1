------------------------------- MODULE LevelDB -------------------------------
(***************************************************************************)
(* LevelDB's write path and recovery (db/db_impl.cc, db/version_set.cc):   *)
(* writers that queue up and write for one another, the log, the memtables,*)
(* the background thread that turns them into tables, the manifest, the    *)
(* deletion of files nobody needs, crashes of the process and of the       *)
(* machine, and Open.  Steps are the critical sections of mutex_ and what  *)
(* is done with it released; a thread that waits for a condition variable  *)
(* sleeps until it is signalled.  A write is told by its number, a table   *)
(* is the set of its entries; which of them a compaction drops, and the    *)
(* levels below 1, are in module LevelCompaction.  Creating, renaming and  *)
(* deleting a file are durable at once; reuse_logs and paranoid_checks are *)
(* off, as by default.                                                     *)
(***************************************************************************)
EXTENDS Integers, SequencesExt

CONSTANTS
    Writer,       \* threads that call Write
    MaxCalls,     \* bound: calls made
    MaxCrashes,   \* bound: crashes
    MaxFaults,    \* bound: file operations that fail
    MaxFlushes,   \* bound: memtables the users ask to have compacted
    MemEntries,   \* options.write_buffer_size
    MaxGroup,     \* max_size of BuildBatchGroup
    L0Trigger, L0Slowdown, L0Stop  \* config::kL0_CompactionTrigger and the others

ASSUME LevelDBAssumption ==
    /\ {MaxCalls, MaxCrashes, MaxFaults, MaxFlushes} \subseteq Nat
    /\ {MemEntries, MaxGroup, L0Trigger} \subseteq Nat \ {0}
    /\ L0Slowdown \in Nat /\ L0Slowdown >= L0Trigger /\ L0Stop \in Nat /\ L0Stop >= L0Slowdown

VARIABLES
    disk,      \* the files
    db,        \* the fields of DBImpl and VersionSet, lost in a crash
    queue,     \* writers_
    call,      \* what each writer is doing
    bg,        \* the background thread
    pinned,    \* versions that iterators hold
    owed,      \* history: writes that have returned OK and no crash may lose
    behind,    \* history: writes logged behind a torn record
    calls, flushes, crashes, faults  \* counters for the bounds

counters == <<calls, flushes, crashes, faults>>
vars == <<disk, db, queue, call, bg, pinned, owed, behind, counters>>

-----------------------------------------------------------------------------
(* The files.                                                              *)

\* A log and a manifest are sequences of records of which the first synced are
\* certain to survive the machine; a table is synced before anything names it.
File == [recs |-> <<>>, synced |-> 0]
Torn == [torn |-> TRUE]
IsTorn(r) == "torn" \in DOMAIN r
Appended(f, r) == [f EXCEPT !.recs = Append(@, r)]
Synced(f)      == [f EXCEPT !.synced = Len(f.recs)]
With(files, n, f) == [m \in DOMAIN files \cup {n} |-> IF m = n THEN f ELSE files[m]]

\* log::Reader: what follows a torn record in its block is dropped, here the rest
\* of the file.
Whole(f) == {i \in DOMAIN f.recs : \A j \in 1 .. i : ~IsTorn(f.recs[j])}

Entries(f) == UNION {f.recs[i].ents : i \in Whole(f)}

\* A VersionEdit; files are pairs of a number and a level, 0 or 1.
Edit(log, next, last, add, del) ==
    [log |-> log, next |-> next, last |-> last, add |-> add, del |-> del]

\* VersionSet::Builder: a version has what was added and not deleted since.
Applied(version, e) == (version \ e.del) \cup e.add
DeletedSince(m, i)  == UNION {m.recs[j].del : j \in {j \in Whole(m) : j > i}}
VersionOf(m) == UNION {m.recs[i].add \ DeletedSince(m, i) : i \in Whole(m)}
LastEdit(m)  == m.recs[Max(Whole(m))]

\* A torn record at the end is taken for the end; one in the middle is a corruption.
Readable(m) == /\ m.recs # <<>>
               /\ \A i \in DOMAIN m.recs : IsTorn(m.recs[i]) => i = Len(m.recs) /\ i > 1

Numbers(version) == {f[1] : f \in version}
Level0(version)  == {f \in version : f[2] = 0}

-----------------------------------------------------------------------------
(* The process.                                                            *)

Closed == [up |-> "down", mem |-> {}, imm |-> <<>>, lastSeq |-> 0, nextFile |-> 0,
           logfile |-> 0, logNumber |-> 0, manifest |-> 0, version |-> {}, pending |-> {},
           error |-> FALSE]
BgOff  == [pc |-> "off", num |-> 0, edit |-> <<>>, inputs |-> {}, out |-> {},
           written |-> FALSE, inWork |-> FALSE]
Idle   == [pc |-> "idle"]

Init ==
    /\ disk = [logs |-> <<>>, tables |-> <<>>, manifests |-> <<>>, current |-> 0]
    /\ db = Closed /\ queue = <<>> /\ call = [w \in Writer |-> Idle] /\ bg = BgOff
    /\ pinned = {} /\ owed = {} /\ behind = {}
    /\ calls = 0 /\ flushes = 0 /\ crashes = 0 /\ faults = 0

\* A file operation fails.
Fault == faults < MaxFaults /\ faults' = faults + 1

NeedsCompaction(version) == Cardinality(Level0(version)) >= L0Trigger

\* MaybeScheduleCompaction.
Scheduled(b, d) ==
    IF b.pc = "off" /\ ~d.error /\ (d.imm # <<>> \/ NeedsCompaction(d.version))
    THEN [b EXCEPT !.pc = "due"] ELSE b

\* bg_cv_.SignalAll(): whoever sleeps for it looks again.
SignalAll(c) ==
    [w \in Writer |-> CASE c[w].pc = "roomwait"  -> [c[w] EXCEPT !.pc = "room"]
                        [] c[w].pc = "flushwait" -> [c[w] EXCEPT !.pc = "flush"]
                        [] OTHER -> c[w]]

\* RecordBackgroundError.
Failed(d) == [d EXCEPT !.error = TRUE]

\* Mutated form: the tables being written are not known yet.
LiveInstalled(d, held) == Numbers(d.version) \cup Numbers(held) \cup Numbers(UNION pinned)

\* What DeleteObsoleteFiles leaves, with the compaction under way and the iterators
\* holding their versions; nothing is deleted after a background error.
Live(d, held) == d.pending \cup Numbers(d.version) \cup Numbers(held) \cup Numbers(UNION pinned)

Collected(k, d, held) ==
    IF d.error THEN k
    ELSE [k EXCEPT !.logs      = Restrict(@, {n \in DOMAIN @ : n >= d.logNumber}),
                   !.manifests = Restrict(@, {n \in DOMAIN @ : n >= d.manifest}),
                   !.tables    = Restrict(@, DOMAIN @ \cap Live(d, held))]

-----------------------------------------------------------------------------
(* Write.                                                                  *)

\* A call enters the queue; at its front it goes on, else it sleeps.  A NULL batch
\* (TEST_CompactMemTable) asks to have the memtable compacted.
Call(w, sync, batch) ==
    /\ db.up = "open" /\ call[w].pc = "idle"
    /\ IF batch THEN calls < MaxCalls /\ calls' = calls + 1 /\ UNCHANGED flushes
                ELSE ~sync /\ flushes < MaxFlushes /\ flushes' = flushes + 1 /\ UNCHANGED calls
    /\ queue' = Append(queue, w)
    /\ call' = [call EXCEPT ![w] =
            [pc |-> IF queue = <<>> THEN "room" ELSE "asleep", id |-> calls', sync |-> sync,
             batch |-> batch, delay |-> batch, group |-> 0, done |-> FALSE, ok |-> TRUE]]
    /\ UNCHANGED <<disk, db, bg, pinned, owed, behind, crashes, faults>>

\* Write returns: a user may rely on an OK; TEST_CompactMemTable has yet to wait.
AfterWrite(c, ok) ==
    IF c.batch \/ ~ok THEN Idle ELSE [c EXCEPT !.pc = "flush"]
NowOwed(c, ok) == owed \cup IF c.batch /\ ok THEN {[id |-> c.id, sync |-> c.sync]} ELSE {}

\* A writer woken by its own condition variable.
Wake(w) ==
    /\ call[w].pc = "woken"
    /\ IF call[w].done
       THEN /\ call' = [call EXCEPT ![w] = AfterWrite(@, @.ok)]
            /\ owed' = NowOwed(call[w], call[w].ok)
       ELSE /\ call' = [call EXCEPT ![w].pc = IF Head(queue) = w THEN "room" ELSE "asleep"]
            /\ UNCHANGED owed
    /\ UNCHANGED <<disk, db, queue, bg, pinned, behind, counters>>

Signalled(c) == IF c.pc = "asleep" THEN [c EXCEPT !.pc = "woken"] ELSE c

\* Mutated form of what follows: the new front is not told.
LeaveQuietly(w, n, ok, c) ==
    /\ queue' = SubSeq(queue, n + 1, Len(queue))
    /\ call' = [v \in Writer |->
            CASE v = w -> AfterWrite(c[w], ok)
              [] v # w /\ v \in Range(SubSeq(queue, 1, n)) ->
                   Signalled([c[v] EXCEPT !.done = TRUE, !.ok = ok])
              [] OTHER -> c[v]]
    /\ owed' = NowOwed(c[w], ok)

\* The end of Write: the first n writers of the queue are done, the others of them
\* and the new front are signalled.
Leave(w, n, ok, c) ==
    /\ queue' = SubSeq(queue, n + 1, Len(queue))
    /\ call' = [v \in Writer |->
            CASE v = w -> AfterWrite(c[w], ok)
              [] v # w /\ v \in Range(SubSeq(queue, 1, n)) ->
                   Signalled([c[v] EXCEPT !.done = TRUE, !.ok = ok])
              [] n < Len(queue) /\ v = queue[n + 1] -> Signalled(c[v])
              [] OTHER -> c[v]]
    /\ owed' = NowOwed(c[w], ok)

\* MakeRoomForWrite: an earlier background error,
RoomError(w) ==
    /\ call[w].pc = "room" /\ db.error
    /\ Leave(w, 1, FALSE, call)
    /\ UNCHANGED <<disk, db, bg, pinned, behind, counters>>

\* a delay of a millisecond, once a call,
MustDelay(w) == call[w].delay /\ Cardinality(Level0(db.version)) >= L0Slowdown
Delay(w) ==
    /\ call[w].pc = "room" /\ ~db.error /\ MustDelay(w)
    /\ call' = [call EXCEPT ![w].delay = FALSE]
    /\ UNCHANGED <<disk, db, queue, bg, pinned, owed, behind, counters>>

\* a wait for the background thread,
HasRoom(w)  == call[w].batch /\ Cardinality(db.mem) < MemEntries
MustWait(w) == ~HasRoom(w) /\ (db.imm # <<>> \/ Cardinality(Level0(db.version)) >= L0Stop)
WaitForRoom(w) ==
    /\ call[w].pc = "room" /\ ~db.error /\ ~MustDelay(w) /\ MustWait(w)
    /\ call' = [call EXCEPT ![w].pc = "roomwait"]
    /\ UNCHANGED <<disk, db, queue, bg, pinned, owed, behind, counters>>

\* BuildBatchGroup: how many of the queue the front writes for.
Batched(n) == {i \in 1 .. n : call[queue[i]].batch}

\* Mutated form: a write that is to be synced joins one that is not.
AnyGroup(w) ==
    Max({n \in DOMAIN queue : Cardinality(Batched(n)) <= MaxGroup})

GroupSize(w) ==
    Max({n \in DOMAIN queue : /\ Cardinality(Batched(n)) <= MaxGroup
                              /\ \A i \in 2 .. n : call[queue[i]].sync => call[w].sync})

\* room in the memtable, so that the writer goes on to write for its group,
TakeRoom(w) ==
    /\ call[w].pc = "room" /\ ~db.error /\ ~MustDelay(w) /\ HasRoom(w)
    /\ call' = [call EXCEPT ![w].pc = "log", ![w].group = GroupSize(w)]
    /\ UNCHANGED <<disk, db, queue, bg, pinned, owed, behind, counters>>

\* Mutated form: the number of the new log is not taken.
OverToLogAgain(d) ==
    [d EXCEPT !.imm = <<d.mem>>, !.mem = {}, !.logfile = d.nextFile]

OverToLog(d) ==
    [d EXCEPT !.imm = <<d.mem>>, !.mem = {}, !.logfile = d.nextFile, !.nextFile = @ + 1]

\* or a new memtable with a new log.
SwitchMemTable(w) ==
    /\ call[w].pc = "room" /\ ~db.error /\ ~MustDelay(w) /\ ~HasRoom(w) /\ ~MustWait(w)
    /\ disk' = [disk EXCEPT !.logs = With(@, db.nextFile, File)]
    /\ db' = OverToLog(db)
    /\ bg' = Scheduled(bg, db')
    /\ IF call[w].batch
       THEN /\ call' = [call EXCEPT ![w].pc = "log", ![w].group = GroupSize(w)]
            /\ UNCHANGED <<queue, owed>>
       ELSE Leave(w, 1, TRUE, call)
    /\ UNCHANGED <<pinned, behind, counters>>

\* The new log cannot be created; its number is given back.
NewLogFails(w) ==
    /\ call[w].pc = "room" /\ ~db.error /\ ~MustDelay(w) /\ ~HasRoom(w) /\ ~MustWait(w)
    /\ Fault
    /\ Leave(w, 1, FALSE, call)
    /\ UNCHANGED <<disk, db, bg, pinned, behind, calls, flushes, crashes>>

\* The batch of the group, with the sequence numbers after the last.
GroupEntries(w) ==
    {[id |-> call[queue[i]].id, seq |-> db.lastSeq + Cardinality(Batched(i))] :
        i \in Batched(call[w].group)}

\* log_->AddRecord with the mutex released.
AddRecord(w) ==
    /\ call[w].pc = "log"
    /\ disk' = [disk EXCEPT !.logs[db.logfile] =
                    Appended(@, [ents |-> GroupEntries(w)])]
    /\ behind' = behind \cup IF \E r \in Range(disk.logs[db.logfile].recs) : IsTorn(r)
                             THEN {e.id : e \in GroupEntries(w)} ELSE {}
    /\ call' = [call EXCEPT ![w].pc = IF call[w].sync THEN "sync" ELSE "finish"]
    /\ UNCHANGED <<db, queue, bg, pinned, owed, counters>>

\* It fails, with nothing or with part of the record written.
AddRecordFails(w) ==
    /\ call[w].pc = "log" /\ Fault
    /\ \/ UNCHANGED disk
       \/ disk' = [disk EXCEPT !.logs[db.logfile] = Appended(@, Torn)]
    /\ call' = [call EXCEPT ![w].pc = "finish", ![w].ok = FALSE]
    /\ UNCHANGED <<db, queue, bg, pinned, owed, behind, calls, flushes, crashes>>

SyncLog(w) ==
    /\ call[w].pc = "sync"
    /\ disk' = [disk EXCEPT !.logs[db.logfile] = Synced(@)]
    /\ call' = [call EXCEPT ![w].pc = "finish"]
    /\ UNCHANGED <<db, queue, bg, pinned, owed, behind, counters>>

SyncLogFails(w) ==
    /\ call[w].pc = "sync" /\ Fault
    /\ call' = [call EXCEPT ![w].pc = "syncerror", ![w].ok = FALSE]
    /\ UNCHANGED <<disk, db, queue, bg, pinned, owed, behind, calls, flushes, crashes>>

\* The memtable takes the batch (InsertInto, which nobody else can observe before
\* the mutex is taken again), and the group leaves.  Its sequence numbers are used
\* up even if it failed; a failed Sync is a background error.
Finish(w) ==
    /\ call[w].pc \in {"finish", "syncerror"}
    /\ LET d == [db EXCEPT !.lastSeq = @ + Cardinality(GroupEntries(w)),
                           !.mem = @ \cup IF call[w].ok THEN GroupEntries(w) ELSE {}]
       IN  IF call[w].pc = "finish"
           THEN db' = d /\ Leave(w, call[w].group, call[w].ok, call)
           ELSE db' = Failed(d) /\ Leave(w, call[w].group, FALSE, SignalAll(call))
    /\ UNCHANGED <<disk, bg, pinned, behind, counters>>

\* TEST_CompactMemTable waits until the memtable is compacted.
WaitForFlush(w) ==
    /\ call[w].pc = "flush"
    /\ call' = [call EXCEPT ![w] = IF db.imm = <<>> \/ db.error THEN Idle
                                   ELSE [@ EXCEPT !.pc = "flushwait"]]
    /\ UNCHANGED <<disk, db, queue, bg, pinned, owed, behind, counters>>

-----------------------------------------------------------------------------
(* The background thread.                                                  *)

\* BackgroundCall has done its work, or there is none: scheduled again if needed.
Ended(d) == bg' = Scheduled(BgOff, d) /\ call' = SignalAll(call)

NothingToDo ==
    /\ bg.pc = "due"
    /\ db.error \/ (db.imm = <<>> /\ ~NeedsCompaction(db.version))
    /\ Ended(db)
    /\ UNCHANGED <<disk, db, queue, pinned, owed, behind, counters>>

\* CompactMemTable, first thing or in the middle of a compaction: a file number is
\* taken and protected, and the mutex released.
StartFlush ==
    /\ bg.pc = "work" \/ (bg.pc = "due" /\ ~db.error)
    /\ db.imm # <<>>
    /\ bg' = [bg EXCEPT !.pc = "build", !.num = db.nextFile, !.inWork = (bg.pc = "work")]
    /\ db' = [db EXCEPT !.nextFile = @ + 1, !.pending = @ \cup {db.nextFile}]
    /\ UNCHANGED <<disk, queue, call, pinned, owed, behind, counters>>

\* The flush is over: back to the compaction it interrupted, or to the end.
FlushEnded(d) ==
    IF bg.inWork
    THEN /\ bg' = [bg EXCEPT !.pc = "work", !.num = 0, !.edit = <<>>, !.inWork = FALSE]
         /\ call' = SignalAll(call)
    ELSE Ended(d)

\* BuildTable and its Sync; an empty memtable makes no file.  Then LogAndApply: the
\* edit that adds the table makes the logs before the current one superfluous.
BuildTable ==
    /\ bg.pc = "build"
    /\ LET ents == db.imm[1]
           d    == [db EXCEPT !.pending = @ \ {bg.num}]
       IN  /\ disk' = IF ents = {} THEN disk
                      ELSE [disk EXCEPT !.tables = With(@, bg.num, ents)]
           /\ bg' = [bg EXCEPT !.pc = "manifest",
                        !.edit = <<Edit(d.logfile, d.nextFile, d.lastSeq,
                                        IF ents = {} THEN {} ELSE {<<bg.num, 0>>}, {})>>]
           /\ db' = d
    /\ UNCHANGED <<queue, call, pinned, owed, behind, counters>>

BuildTableFails ==
    /\ bg.pc = "build" /\ Fault
    /\ db' = Failed([db EXCEPT !.pending = @ \ {bg.num}])
    /\ FlushEnded(db')
    /\ UNCHANGED <<disk, queue, pinned, owed, behind, calls, flushes, crashes>>

\* BackgroundCompaction: the one file of level 0 with nothing below it is moved,
IsMove == Cardinality(db.version) = 1
StartMove ==
    /\ bg.pc = "due" /\ ~db.error /\ db.imm = <<>> /\ NeedsCompaction(db.version) /\ IsMove
    /\ bg' = [bg EXCEPT !.pc = "manifest", !.inputs = db.version,
                 !.edit = <<Edit(db.logNumber, db.nextFile, db.lastSeq,
                                 {<<n, 1>> : n \in Numbers(db.version)}, db.version)>>]
    /\ UNCHANGED <<disk, db, queue, call, pinned, owed, behind, counters>>

\* else the files are merged, with the mutex released.
StartCompaction ==
    /\ bg.pc = "due" /\ ~db.error /\ db.imm = <<>> /\ NeedsCompaction(db.version) /\ ~IsMove
    /\ bg' = [bg EXCEPT !.pc = "work", !.inputs = db.version]
    /\ UNCHANGED <<disk, db, queue, call, pinned, owed, behind, counters>>

\* OpenCompactionOutputFile.
OpenOutput ==
    /\ bg.pc = "work" /\ bg.out = {}
    /\ bg' = [bg EXCEPT !.out = {db.nextFile}]
    /\ db' = [db EXCEPT !.nextFile = @ + 1, !.pending = @ \cup {db.nextFile}]
    /\ UNCHANGED <<disk, queue, call, pinned, owed, behind, counters>>

\* FinishCompactionOutputFile, synced; flushes may still come in between.
WriteOutput ==
    /\ bg.pc = "work" /\ bg.out # {} /\ ~bg.written
    /\ disk' = [disk EXCEPT !.tables =
                    With(@, Max(bg.out), UNION {disk.tables[n] : n \in Numbers(bg.inputs)})]
    /\ bg' = [bg EXCEPT !.written = TRUE]
    /\ UNCHANGED <<db, queue, call, pinned, owed, behind, counters>>

\* InstallCompactionResults.
EndWork ==
    /\ bg.pc = "work" /\ bg.written
    /\ bg' = [bg EXCEPT !.pc = "manifest",
                 !.edit = <<Edit(db.logNumber, db.nextFile, db.lastSeq,
                                 {<<n, 1>> : n \in bg.out}, bg.inputs)>>]
    /\ UNCHANGED <<disk, db, queue, call, pinned, owed, behind, counters>>

WorkFails ==
    /\ bg.pc = "work" /\ Fault
    /\ db' = Failed([db EXCEPT !.pending = @ \ bg.out])
    /\ Ended(db')
    /\ UNCHANGED <<disk, queue, pinned, owed, behind, calls, flushes, crashes>>

\* Mutated form: without the Sync.
WriteManifestUnsynced ==
    /\ bg.pc = "manifest"
    /\ disk' = [disk EXCEPT !.manifests[db.manifest] = Appended(@, bg.edit[1])]
    /\ bg' = [bg EXCEPT !.pc = "install"]
    /\ UNCHANGED <<db, queue, call, pinned, owed, behind, counters>>

\* LogAndApply writes the edit to the manifest and syncs it,
WriteManifest ==
    /\ bg.pc = "manifest"
    /\ disk' = [disk EXCEPT !.manifests[db.manifest] = Synced(Appended(@, bg.edit[1]))]
    /\ bg' = [bg EXCEPT !.pc = "install"]
    /\ UNCHANGED <<db, queue, call, pinned, owed, behind, counters>>

IsFlush == bg.edit[1].del = {}

\* or cannot, or cannot be sure of it.
WriteManifestFails ==
    /\ bg.pc = "manifest" /\ Fault
    /\ \/ UNCHANGED disk
       \/ \E r \in {Torn, bg.edit[1]} :
             disk' = [disk EXCEPT !.manifests[db.manifest] = Appended(@, r)]
    /\ db' = Failed([db EXCEPT !.pending = IF IsFlush THEN @ ELSE @ \ bg.out])
    /\ IF IsFlush THEN FlushEnded(db') ELSE Ended(db')
    /\ UNCHANGED <<queue, pinned, owed, behind, calls, flushes, crashes>>

\* The new version is installed and, but for a move, what nobody needs is deleted.
InstallVersion ==
    /\ bg.pc = "install"
    /\ LET e == bg.edit[1]
       IN  db' = [db EXCEPT !.version = Applied(@, e), !.logNumber = e.log,
                            !.imm = IF IsFlush THEN <<>> ELSE @,
                            !.pending = IF IsFlush THEN @ ELSE @ \ bg.out]
    /\ disk' = IF IsFlush THEN Collected(disk, db', bg.inputs)
               ELSE IF bg.out # {} THEN Collected(disk, db', {}) ELSE disk
    /\ IF IsFlush THEN FlushEnded(db') ELSE Ended(db')
    /\ UNCHANGED <<queue, pinned, owed, behind, counters>>

\* An iterator holds the current version, and lets it go.
PinVersion ==
    /\ db.up = "open" /\ pinned = {} /\ db.version # {}
    /\ pinned' = {db.version}
    /\ UNCHANGED <<disk, db, queue, call, bg, owed, behind, counters>>
UnpinVersion ==
    /\ pinned # {}
    /\ pinned' = {}
    /\ UNCHANGED <<disk, db, queue, call, bg, owed, behind, counters>>

-----------------------------------------------------------------------------
(* Crashes and Open.                                                       *)

Crash(kept) ==
    /\ crashes < MaxCrashes /\ crashes' = crashes + 1
    /\ db.up # "corrupt"
    /\ disk' = kept
    /\ db' = Closed /\ queue' = <<>> /\ call' = [w \in Writer |-> Idle] /\ bg' = BgOff
    /\ pinned' = {}
    /\ UNCHANGED <<behind, calls, flushes, faults>>

\* The process dies: the files have what was written to them.
ProcessCrash == Crash(disk) /\ UNCHANGED owed

\* The machine does: the files keep what was synced and any part of the rest.
Cuts(files) ==
    {f \in [DOMAIN files -> 0 .. MaxCalls + MaxFlushes + MaxFaults + 2] :
        \A n \in DOMAIN files : f[n] \in files[n].synced .. Len(files[n].recs)}
CutAt(files, cut) ==
    [n \in DOMAIN files |-> [recs |-> SubSeq(files[n].recs, 1, cut[n]), synced |-> cut[n]]]

MachineCrash ==
    /\ \E l \in Cuts(disk.logs), m \in Cuts(disk.manifests) :
          Crash([disk EXCEPT !.logs = CutAt(@, l), !.manifests = CutAt(@, m)])
    /\ owed' = {o \in owed : o.sync}

OpenStep == UNCHANGED <<queue, pinned, owed, behind, counters>>

\* DBImpl::NewDB: the first manifest, which is not synced.
NewDB ==
    /\ db.up = "down" /\ disk.current = 0
    /\ disk' = [disk EXCEPT !.current = 1,
                    !.manifests = With(@, 1, Appended(File, Edit(0, 2, 0, {}, {})))]
    /\ UNCHANGED <<db, call, bg>> /\ OpenStep

\* VersionSet::Recover and the check for missing files.
Recover ==
    /\ db.up = "down" /\ disk.current # 0
    /\ LET m == disk.manifests[disk.current]
       IN  IF disk.current \in DOMAIN disk.manifests /\ Readable(m)
              /\ Numbers(VersionOf(m)) \subseteq DOMAIN disk.tables
           THEN LET e == LastEdit(m)
                IN  db' = [Closed EXCEPT !.up = "logs", !.manifest = e.next,
                                         !.nextFile = e.next + 1,
                                         !.lastSeq = e.last, !.logNumber = e.log,
                                         !.version = VersionOf(m)]
           ELSE db' = [Closed EXCEPT !.up = "corrupt"]
    /\ UNCHANGED <<disk, call, bg>> /\ OpenStep

\* The logs the manifest does not make superfluous; logfile is the last one read.
LogsToRecover == {n \in DOMAIN disk.logs : n >= db.logNumber /\ n > db.logfile}

\* Mutated form: the sequence numbers of the log are not noted.
RecoverLogOnly ==
    /\ db.up = "logs" /\ LogsToRecover # {}
    /\ LET n    == Min(LogsToRecover)
           ents == Entries(disk.logs[n])
           next == IF ents = {} THEN db.nextFile ELSE db.nextFile + 1
       IN  /\ disk' = IF ents = {} THEN disk
                      ELSE [disk EXCEPT !.tables = With(@, db.nextFile, ents)]
           /\ db' = [db EXCEPT !.logfile = n, !.nextFile = Max({next, n + 1}),
                        !.version = @ \cup IF ents = {} THEN {} ELSE {<<db.nextFile, 0>>}]
    /\ UNCHANGED <<call, bg>> /\ OpenStep

\* RecoverLogFile, oldest log first: its entries become a table, which waits in
\* version for the edit that adds it; the numbers of log and entries are used.
RecoverLog ==
    /\ db.up = "logs" /\ LogsToRecover # {}
    /\ LET n    == Min(LogsToRecover)
           ents == Entries(disk.logs[n])
           next == IF ents = {} THEN db.nextFile ELSE db.nextFile + 1
       IN  /\ disk' = IF ents = {} THEN disk
                      ELSE [disk EXCEPT !.tables = With(@, db.nextFile, ents)]
           /\ db' = [db EXCEPT !.logfile = n, !.nextFile = Max({next, n + 1}),
                        !.lastSeq = Max({@} \cup {e.seq : e \in ents}),
                        !.version = @ \cup IF ents = {} THEN {} ELSE {<<db.nextFile, 0>>}]
    /\ UNCHANGED <<call, bg>> /\ OpenStep

\* DB::Open makes a new log, and LogAndApply a new manifest with the version and
\* the edit, and syncs it;
NewManifest ==
    /\ db.up = "logs" /\ LogsToRecover = {}
    /\ LET log  == db.nextFile
           edit == Edit(log, log + 1, db.lastSeq, db.version, {})
       IN  /\ disk' = [disk EXCEPT !.logs = With(@, log, File),
                          !.manifests = With(@, db.manifest, Synced(Appended(File, edit)))]
           /\ db' = [db EXCEPT !.up = "current", !.logfile = log, !.logNumber = log,
                        !.nextFile = log + 1]
    /\ UNCHANGED <<call, bg>> /\ OpenStep

\* SetCurrentFile; then the old files are deleted, and the database is open.
SetCurrent ==
    /\ db.up = "current"
    /\ db' = [db EXCEPT !.up = "open"]
    /\ disk' = Collected([disk EXCEPT !.current = db.manifest], db', {})
    /\ bg' = Scheduled(bg, db')
    /\ UNCHANGED call /\ OpenStep

Open == NewDB \/ Recover \/ RecoverLog \/ NewManifest \/ SetCurrent

-----------------------------------------------------------------------------
Thread(w) ==
    \/ Wake(w) \/ RoomError(w) \/ Delay(w) \/ WaitForRoom(w) \/ TakeRoom(w)
    \/ SwitchMemTable(w) \/ NewLogFails(w) \/ AddRecord(w) \/ AddRecordFails(w)
    \/ SyncLog(w) \/ SyncLogFails(w) \/ Finish(w) \/ WaitForFlush(w)

Background ==
    \/ NothingToDo \/ StartFlush \/ BuildTable \/ BuildTableFails \/ StartMove
    \/ StartCompaction \/ OpenOutput \/ WriteOutput \/ EndWork \/ WorkFails
    \/ WriteManifest \/ WriteManifestFails \/ InstallVersion

Next ==
    \/ \E w \in Writer : Thread(w) \/ \E sync, batch \in BOOLEAN : Call(w, sync, batch)
    \/ Background \/ Open \/ PinVersion \/ UnpinVersion \/ ProcessCrash \/ MachineCrash

Spec == Init /\ [][Next]_vars

-----------------------------------------------------------------------------
(* What must hold.                                                         *)

\* Every entry that can be read.
Visible == db.mem \cup (UNION Range(db.imm))
           \cup (UNION {disk.tables[n] : n \in Numbers(db.version) \cap DOMAIN disk.tables})

Pcs == {"idle", "asleep", "woken", "room", "roomwait", "log", "sync", "finish",
        "syncerror", "flush", "flushwait"}
BgPcs == {"off", "due", "build", "work", "manifest", "install"}

\* Types, and who may be where: the queue holds the writers that are in Write, only
\* its front writes, and the background thread runs only once the database is open.
LevelDBTypeOK ==
    /\ db.up \in {"down", "logs", "current", "open", "corrupt"} /\ bg.pc \in BgPcs
    /\ \A w \in Writer :
        /\ call[w].pc \in Pcs
        /\ call[w].pc \in {"room", "roomwait", "log", "sync", "finish", "syncerror"} =>
               queue # <<>> /\ w = Head(queue)
        /\ call[w].pc = "asleep" => w \in Range(queue)
    /\ IsInjective(queue)
    /\ bg.pc # "off" => db.up = "open"
    /\ Len(db.imm) <= 1
    /\ db.up = "open" => /\ db.logNumber <= db.logfile /\ db.logfile < db.nextFile
                         /\ \A n \in DOMAIN disk.tables : n < db.nextFile

\* Every write that has returned OK can be read, and is read again after the process
\* or the machine has crashed and the database was opened: after the machine, if it
\* was to be synced (options.h, WriteOptions::sync).  Writes behind a torn record
\* are the subject of WritesSurviveProcess.
WritesSurvive ==
    db.up = "open" =>
        \A o \in owed : o.id \in {e.id : e \in Visible} \cup behind

\* options.h:194: "Note that if it is just the process that crashes (i.e., the machine
\* does not reboot), no writes will be lost even if sync==false."
WritesSurviveProcess ==
    db.up = "open" => \A o \in owed : o.id \in {e.id : e \in Visible}

\* DeleteObsoleteFiles deletes no table that a version in use has, the current one,
\* one of an iterator or the input of a compaction, nor the output of one that is
\* being installed.  What the next Open needs is OpensAgain's.
NeededFilesExist ==
    /\ db.up = "open" =>
           Numbers(db.version) \cup Numbers(UNION pinned) \cup Numbers(bg.inputs)
               \subseteq DOMAIN disk.tables
    /\ bg.pc \in {"manifest", "install"} => Numbers(bg.edit[1].add) \subseteq DOMAIN disk.tables

\* A database opens again after any crash, but for two flaws: the first manifest is
\* not synced, and one that is torn can be written on.
OpensAgain ==
    db.up = "corrupt" =>
        disk.current = 1 \/ \E r \in Range(disk.manifests[disk.current].recs) : IsTorn(r)

\* No two writes ever share a sequence number, or a reader's snapshot would not order
\* them.
SequencesUnique ==
    db.up = "open" => \A e, f \in Visible : e.seq = f.seq => e = f

\* Whoever calls Write or TEST_CompactMemTable returns, whatever fails, unless the
\* process crashes.
EveryCallReturns == \A w \in Writer : call[w].pc # "idle" ~> call[w].pc = "idle"

\* Threads run; nothing is assumed of calls, iterators, faults and crashes.
FairSpec == Spec /\ WF_vars(Background) /\ \A w \in Writer : WF_vars(Thread(w))
=============================================================================
