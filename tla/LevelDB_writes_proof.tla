------------------------ MODULE LevelDB_writes_proof ------------------------
(***************************************************************************)
(* Proof that the writes of LevelDB that returned OK survive, for every    *)
(* number of threads, calls, flushes, failing file operations and crashes, *)
(* and every limit of its options: what edits add and delete (MergeInv),   *)
(* the log that the manifest names (ManifestInv), the group being written  *)
(* (WrittenInv), and every write that returned OK or will (PromiseInv).    *)
(***************************************************************************)
EXTENDS LevelDB_proof

-----------------------------------------------------------------------------
(* Writes survive.  An OK that was given, or is on its way to a writer that*)
(* was written for, promises a write: whatever a crash may leave of the    *)
(* manifest, the tables of its version or the logs it does not make        *)
(* superfluous have the write, and while the database is open it can be    *)
(* read.  First what it is for tables and for logs to have a write.        *)

Holds(ents, o)       == \E e \in ents : e.id = o.id
Content(ns, tables)  == UNION {tables[n] : n \in ns \cap DOMAIN tables}
InTables(o, version, tables) == Holds(Content(Numbers(version), tables), o)

\* The log has the write, if it is to be synced in what is certain to survive.
InLog(o, f) ==
    \E i \in Whole(f) : (o.sync => i <= f.synced) /\ Holds(f.recs[i].ents, o)
InLogs(o, from, logs) == \E n \in DOMAIN logs : n >= from /\ InLog(o, logs[n])

LEMMA ContentOne == ASSUME NEW n, NEW T, n \in DOMAIN T  PROVE Content({n}, T) = T[n]
  BY DEF Content

LEMMA ContentMore ==
    ASSUME NEW ns, NEW T, NEW U, \A n \in ns \cap DOMAIN T : n \in DOMAIN U /\ U[n] = T[n]
    PROVE  Content(ns, T) \subseteq Content(ns, U)
  BY DEF Content

LEMMA ContentSame ==
    ASSUME NEW ns, NEW T, NEW U, ns \subseteq DOMAIN T, \A n \in ns : n \in DOMAIN U /\ U[n] = T[n]
    PROVE  Content(ns, U) = Content(ns, T)
<1>1. \A n \in ns \cap DOMAIN U : n \in DOMAIN T /\ T[n] = U[n]
  OBVIOUS
<1>2. \A n \in ns \cap DOMAIN T : n \in DOMAIN U /\ U[n] = T[n]
  OBVIOUS
<1>3. Content(ns, U) \subseteq Content(ns, T)
  BY <1>1, ContentMore
<1>4. Content(ns, T) \subseteq Content(ns, U)
  BY <1>2, ContentMore
<1> QED  BY <1>3, <1>4

LEMMA ContentSubset ==
    ASSUME NEW ns, NEW ms, NEW T, ns \subseteq ms
    PROVE  Content(ns, T) \subseteq Content(ms, T)
  BY DEF Content

LEMMA ContentOfVersion ==
    ASSUME NEW v, NEW w, NEW T, v \subseteq w
    PROVE  Content(Numbers(v), T) \subseteq Content(Numbers(w), T)
<1>1. Numbers(v) \subseteq Numbers(w)
  BY DEF Numbers
<1> QED  BY <1>1, ContentSubset

\* An edit whose new tables have what those had that it deletes loses nothing.
LEMMA ContentApplied ==
    ASSUME NEW v, NEW e, NEW w, NEW T, Applied(v, e) \subseteq w,
           Content(Numbers(e.del), T) \subseteq Content(Numbers(e.add), T)
    PROVE  Content(Numbers(v), T) \subseteq Content(Numbers(w), T)
<1> SUFFICES ASSUME NEW x \in Content(Numbers(v), T)  PROVE x \in Content(Numbers(w), T)
  OBVIOUS
<1>1. PICK f \in v : f[1] \in DOMAIN T /\ x \in T[f[1]]
  BY DEF Content, Numbers
<1>2. CASE f \in e.del
  <2>1. x \in Content(Numbers(e.del), T)
    BY <1>1, <1>2 DEF Content, Numbers
  <2>2. x \in Content(Numbers(e.add), T) /\ e.add \subseteq w
    BY <2>1 DEF Applied
  <2> QED  BY <2>2, ContentOfVersion
<1>3. CASE f \notin e.del
  <2>1. f \in w
    BY <1>1, <1>3 DEF Applied
  <2> QED  BY <1>1, <2>1 DEF Content, Numbers
<1> QED  BY <1>2, <1>3

LEMMA InTablesMore ==
    ASSUME NEW o, NEW v, NEW w, NEW T, NEW U, InTables(o, v, T),
           Content(Numbers(v), T) \subseteq Content(Numbers(w), U)
    PROVE  InTables(o, w, U)
  BY DEF InTables, Holds

\* A log that grows or is synced keeps its writes.
LEMMA InLogMore ==
    ASSUME NEW o, NEW f, NEW g, NEW a \in Nat, NEW b \in Nat, DOMAIN f.recs = 1 .. a, DOMAIN g.recs = 1 .. b,
           f.synced \in Nat, g.synced \in Nat, f.synced <= g.synced, a <= b,
           \A i \in 1 .. a : g.recs[i] = f.recs[i], InLog(o, f)
    PROVE  InLog(o, g)
<1>1. PICK i \in Whole(f) : (o.sync => i <= f.synced) /\ Holds(f.recs[i].ents, o)
  BY DEF InLog
<1>2. i \in 1 .. a /\ \A j \in 1 .. i : ~IsTorn(f.recs[j])
  BY DEF Whole
<1>3. i \in 1 .. b /\ \A j \in 1 .. i : j \in 1 .. a
  BY <1>2
<1>4. i \in Whole(g)
  BY <1>2, <1>3 DEF Whole
<1>5. o.sync => i <= g.synced
  BY <1>1, <1>2
<1>6. Holds(g.recs[i].ents, o)
  BY <1>1, <1>2
<1> QED  BY <1>4, <1>5, <1>6 DEF InLog

\* What is to be synced is in what a crash of the machine leaves.
LEMMA InLogCut ==
    ASSUME NEW o, o.sync, NEW f \in LogOf, NEW k \in f.synced .. Len(f.recs), InLog(o, f)
    PROVE  InLog(o, Cut(f, k))
<1> DEFINE R == [ents : SUBSET Entry] \cup {Torn}
<1>1. f.recs \in Seq(R) /\ f.synced \in Nat /\ DOMAIN f.recs = 1 .. Len(f.recs) /\ Len(f.recs) \in Nat
  BY DEF LogOf
<1>2. PICK i \in Whole(f) : i <= f.synced /\ Holds(f.recs[i].ents, o)
  BY DEF InLog
<1>3. i \in 1 .. Len(f.recs) /\ \A j \in 1 .. i : ~IsTorn(f.recs[j])
  BY <1>1 DEF Whole
<1>4. k \in Nat /\ k <= Len(f.recs) /\ i <= k /\ i \in 1 .. k
  BY <1>1, <1>2, <1>3
<1> HIDE DEF R
<1>5. /\ Cut(f, k).recs = SubSeq(f.recs, 1, k) /\ Cut(f, k).synced = k
      /\ DOMAIN SubSeq(f.recs, 1, k) = 1 .. k /\ \A j \in 1 .. k : SubSeq(f.recs, 1, k)[j] = f.recs[j]
  <2>1. Len(SubSeq(f.recs, 1, k)) = k /\ SubSeq(f.recs, 1, k) \in Seq(R)
    BY <1>1, <1>4, SubSeqProperties
  <2>2. \A j \in 1 .. k : SubSeq(f.recs, 1, k)[j] = f.recs[1 + j - 1]
    BY <1>1, <1>4, SubSeqProperties
  <2> QED  BY <1>4, <2>1, <2>2 DEF Cut
<1>6. i \in Whole(Cut(f, k))
  <2>1. \A j \in 1 .. i : j \in 1 .. k
    BY <1>4
  <2> QED  BY <1>3, <1>4, <1>5, <2>1 DEF Whole
<1> QED  BY <1>2, <1>4, <1>5, <1>6 DEF InLog

LEMMA InLogsMore ==
    ASSUME NEW o, NEW from \in Nat, NEW to \in Nat, to <= from, NEW L, NEW M, DOMAIN L \subseteq Nat,
           \A n \in DOMAIN L : n >= from => n \in DOMAIN M /\ (InLog(o, L[n]) => InLog(o, M[n])),
           InLogs(o, from, L)
    PROVE  InLogs(o, to, M)
<1>1. PICK n \in DOMAIN L : n >= from /\ InLog(o, L[n])
  BY DEF InLogs
<1>2. n \in DOMAIN M /\ InLog(o, M[n]) /\ n >= to
  BY <1>1
<1> QED  BY <1>2 DEF InLogs

LEMMA InLogEntries ==
    ASSUME NEW o, NEW f, InLog(o, f)
    PROVE  Holds(Entries(f), o)
  BY DEF InLog, Holds, Entries

\* The background thread: what it is about to put in the place of tables or of the
\* frozen memtable has all that they have, and an edit makes a log superfluous only
\* when the memtable of that log is in a table.
MergeInv ==
    /\ bg.pc = "work" \/ bg.inWork => bg.inputs # {}
    /\ bg.written => Content(Numbers(bg.inputs), disk.tables) \subseteq Content(bg.out, disk.tables)
    /\ bg.pc \in {"manifest", "install"} =>
          IF bg.edit[1].del = {}
          THEN /\ db.imm # <<>> /\ bg.edit[1].log = db.logfile
               /\ Frozen \subseteq Content(Numbers(bg.edit[1].add), disk.tables)
          ELSE /\ bg.edit[1].log = db.logNumber
               /\ Content(Numbers(bg.edit[1].del), disk.tables)
                     \subseteq Content(Numbers(bg.edit[1].add), disk.tables)

LEMMA MergeQuiet ==
    ASSUME bg'.pc \in {"off", "due"}, ~bg'.inWork, ~bg'.written
    PROVE  MergeInv'
  BY DEF MergeInv

LEMMA MergeOfThread ==
    ASSUME MergeInv, ThreadFrame
    PROVE  MergeInv'
<1>1. /\ disk'.tables = disk.tables /\ db'.logNumber = db.logNumber
      /\ bg'.edit = bg.edit /\ bg'.inputs = bg.inputs /\ bg'.out = bg.out
      /\ (bg'.written <=> bg.written) /\ (bg'.inWork <=> bg.inWork)
      /\ bg'.pc = bg.pc \/ bg'.pc = "due"
      /\ db.imm # <<>> => db'.imm = db.imm /\ db'.logfile = db.logfile
  BY DEF ThreadFrame, BgIs
<1>2. db.imm # <<>> => Frozen' = Frozen
  BY <1>1 DEF Frozen
<1>3. (bg'.pc \in {"work", "manifest", "install"}) => bg'.pc = bg.pc
  BY <1>1
<1> QED  BY <1>1, <1>2, <1>3 DEF MergeInv

\* The background thread has ended, or goes on with its compaction.
LEMMA MergeOver ==
    ASSUME MergeInv, FlushIsOver \/ HasEnded,
           bg.inWork /\ bg.written =>
               Content(Numbers(bg.inputs), disk'.tables) \subseteq Content(bg.out, disk'.tables)
    PROVE  MergeInv'
<1>1. CASE HasEnded
  BY <1>1, EndedFields, MergeQuiet
<1>2. CASE BackToWork
  BY <1>2, BackFields DEF MergeInv
<1> QED  BY <1>1, <1>2 DEF FlushIsOver

\* There is something to compact.
LEMMA SomeFiles ==
    ASSUME NeedsCompaction({})
    PROVE  FALSE
<1>1. Level0({}) = {}
  BY DEF Level0
<1>2. Cardinality({}) = 0
  BY FS_EmptySet
<1> QED  BY <1>1, <1>2, LevelDBAssumption DEF NeedsCompaction

\* A table is written that was not there.
LEMMA ContentKept ==
    ASSUME BaseInv, FilesInv, db.up = "open", NEW n \in Nat, NEW ents, n \notin DOMAIN disk.tables,
           disk' = [disk EXCEPT !.tables = With(disk.tables, n, ents)]
    PROVE  /\ Content({n}, disk'.tables) = ents
           /\ \A ns : Content(ns, disk.tables) \subseteq Content(ns, disk'.tables)
           /\ Content(Numbers(bg.inputs), disk'.tables) = Content(Numbers(bg.inputs), disk.tables)
<1>1. DiskTyped /\ Numbers(bg.inputs) \subseteq DOMAIN disk.tables
  BY FieldsOf DEF FilesInv, FilesExist
<1>2. disk'.tables = With(disk.tables, n, ents)
  BY <1>1 DEF DiskTyped
<1>3. n \in DOMAIN disk'.tables /\ disk'.tables[n] = ents
      /\ \A k \in DOMAIN disk.tables : k \in DOMAIN disk'.tables /\ disk'.tables[k] = disk.tables[k]
  <2>1. PICK T, U : T = disk.tables /\ U = disk'.tables
    OBVIOUS
  <2>2. U = With(T, n, ents) /\ n \notin DOMAIN T
    BY <1>2, <2>1
  <2>3. n \in DOMAIN U /\ U[n] = ents /\ \A k \in DOMAIN T : k \in DOMAIN U /\ U[k] = T[k]
    BY <2>2 DEF With
  <2> QED  BY <2>1, <2>3
<1>4. \A ns : Content(ns, disk.tables) \subseteq Content(ns, disk'.tables)
  BY <1>3, ContentMore
<1>5. Content({n}, disk'.tables) = ents
  BY <1>3, ContentOne
<1>6. Content(Numbers(bg.inputs), disk'.tables) = Content(Numbers(bg.inputs), disk.tables)
  BY <1>1, <1>3, ContentSame
<1> QED  BY <1>4, <1>5, <1>6

LEMMA MergeOfBackground ==
    ASSUME BaseInv, FilesInv, FilesInv', MergeInv, Background
    PROVE  MergeInv'
<1>0. /\ db.up = "open" /\ WorkInv /\ FilesExist /\ WorkInv' /\ FilesExist' /\ db'.up = "open"
  BY BackgroundOpen DEF FilesInv
<1>1. ASSUME disk'.tables = disk.tables, FlushIsOver \/ HasEnded  PROVE MergeInv'
  BY <1>1, MergeOver DEF MergeInv
<1>2. CASE NothingToDo
  BY <1>1, <1>2, NothingToDoEffect
<1>3. CASE BuildTableFails
  BY <1>1, <1>3, BuildTableFailsEffect
<1>4. CASE WorkFails
  BY <1>1, <1>4, WorkFailsEffect
<1>5. CASE StartFlush
  <2>1. /\ disk' = disk /\ bg'.pc = "build" /\ bg'.inputs = bg.inputs /\ bg'.out = bg.out
        /\ (bg'.written <=> bg.written) /\ (bg'.inWork <=> bg.pc = "work")
    BY <1>5, StartFlushEffect DEF BgIs
  <2> QED  BY <2>1 DEF MergeInv
<1>6. CASE BuildTable
  <2> DEFINE ents == db.imm[1]
             add  == IF ents = {} THEN {} ELSE {<<bg.num, 0>>}
             e    == Edit(db.logfile, db.nextFile, db.lastSeq, add, {})
  <2>1. /\ bg.pc = "build" /\ db.imm # <<>>
        /\ disk' = IF ents = {} THEN disk ELSE [disk EXCEPT !.tables = With(@, bg.num, ents)]
        /\ db'.logfile = db.logfile /\ db'.imm = db.imm /\ db'.logNumber = db.logNumber
        /\ bg'.pc = "manifest" /\ bg'.edit = <<e>> /\ bg'.inputs = bg.inputs /\ bg'.out = bg.out
        /\ (bg'.written <=> bg.written) /\ (bg'.inWork <=> bg.inWork)
    BY <1>6, BuildTableEffect DEF DbIs, BgIs
  <2>2. bg'.edit[1].log = db.logfile /\ bg'.edit[1].del = {} /\ bg'.edit[1].add = add
    BY <2>1, NumbersOfEdit
  <2>3. Frozen' = ents
    BY <2>1 DEF Frozen
  <2> HIDE DEF e
  <2>4. /\ ents \subseteq Content(Numbers(add), disk'.tables)
        /\ Content(Numbers(bg.inputs), disk'.tables) = Content(Numbers(bg.inputs), disk.tables)
        /\ Content(bg.out, disk.tables) \subseteq Content(bg.out, disk'.tables)
    <3>1. CASE ents = {}
      BY <2>1, <3>1
    <3>2. CASE ents # {}
      <4>1. bg.num \in Nat /\ bg.num \notin DOMAIN disk.tables
        BY <1>0, <2>1, FieldsOf DEF WorkInv
      <4>2. /\ Content({bg.num}, disk'.tables) = ents
            /\ Content(bg.out, disk.tables) \subseteq Content(bg.out, disk'.tables)
            /\ Content(Numbers(bg.inputs), disk'.tables) = Content(Numbers(bg.inputs), disk.tables)
        <5> HIDE DEF ents
        <5> QED  BY <1>0, <2>1, <3>2, <4>1, ContentKept
      <4>3. Numbers(add) = {bg.num}
        BY <3>2, NumbersOfOne
      <4> QED  BY <4>2, <4>3
    <3> QED  BY <3>1, <3>2
  <2> HIDE DEF ents, add
  <2> QED  BY <2>1, <2>2, <2>3, <2>4 DEF MergeInv
<1>7. CASE StartMove
  <2> DEFINE add == {<<n, 1>> : n \in Numbers(db.version)}
             e == Edit(db.logNumber, db.nextFile, db.lastSeq, add, db.version)
  <2>1. /\ bg.pc = "due" /\ NeedsCompaction(db.version) /\ disk' = disk /\ db' = db
        /\ bg'.pc = "manifest" /\ bg'.edit = <<e>> /\ (bg'.written <=> bg.written) /\ (bg'.inWork <=> bg.inWork)
    BY <1>7, StartMoveEffect DEF BgIs
  <2>2. bg'.edit[1].log = db.logNumber /\ bg'.edit[1].del = db.version /\ bg'.edit[1].add = add
    BY <2>1, NumbersOfEdit
  <2>3. db.version # {}
    BY <2>1, SomeFiles
  <2>4. Numbers(add) = Numbers(db.version)
    BY NumbersOfMoved
  <2>5. ~bg.written /\ ~bg.inWork
    BY <1>0, <2>1 DEF WorkInv
  <2> HIDE DEF e, add
  <2> QED  BY <2>1, <2>2, <2>3, <2>4, <2>5 DEF MergeInv
<1>8. CASE StartCompaction
  <2>1. /\ bg.pc = "due" /\ NeedsCompaction(db.version) /\ bg'.pc = "work" /\ bg'.inputs = db.version
        /\ (bg'.written <=> bg.written)
    BY <1>8, StartCompactionEffect DEF BgIs
  <2>2. db.version # {}
    BY <2>1, SomeFiles
  <2>3. ~bg.written
    BY <1>0, <2>1 DEF WorkInv
  <2> QED  BY <2>1, <2>2, <2>3 DEF MergeInv
<1>9. CASE OpenOutput
  <2>1. /\ bg.pc = "work" /\ bg.out = {} /\ bg'.pc = "work" /\ bg'.inputs = bg.inputs
        /\ (bg'.written <=> bg.written)
    BY <1>9, OpenOutputEffect DEF BgIs
  <2>2. ~bg.written
    BY <1>0, <2>1 DEF WorkInv
  <2> QED  BY <2>1, <2>2 DEF MergeInv
<1>10. CASE WriteOutput
  <2> DEFINE ents == UNION {disk.tables[n] : n \in Numbers(bg.inputs)}
  <2>1. PICK k \in Nat :
           /\ bg.pc = "work" /\ bg.out = {k} /\ ~bg.written
           /\ disk' = [disk EXCEPT !.tables = With(@, k, ents)]
           /\ bg'.pc = "work" /\ bg'.inputs = bg.inputs /\ bg'.out = bg.out
    BY <1>10, WriteOutputEffect DEF BgIs
  <2>2. k \notin DOMAIN disk.tables
    BY <1>0, <2>1 DEF WorkInv
  <2>3. Content(Numbers(bg.inputs), disk.tables) = ents
    <3>1. Numbers(bg.inputs) \cap DOMAIN disk.tables = Numbers(bg.inputs)
      BY <1>0 DEF FilesExist
    <3> QED  BY <3>1 DEF Content
  <2> HIDE DEF ents
  <2>4. /\ Content({k}, disk'.tables) = ents
        /\ Content(Numbers(bg.inputs), disk'.tables) = Content(Numbers(bg.inputs), disk.tables)
    BY <1>0, <2>1, <2>2, ContentKept
  <2> QED  BY <2>1, <2>3, <2>4 DEF MergeInv
<1>11. CASE EndWork
  <2> DEFINE add == {<<n, 1>> : n \in bg.out}
             e == Edit(db.logNumber, db.nextFile, db.lastSeq, add, bg.inputs)
  <2>1. /\ bg.pc = "work" /\ bg.written /\ disk' = disk /\ db' = db
        /\ bg'.pc = "manifest" /\ bg'.edit = <<e>> /\ bg'.inputs = bg.inputs /\ bg'.out = bg.out
        /\ (bg'.inWork <=> bg.inWork)
    BY <1>11, EndWorkEffect DEF BgIs
  <2>2. bg'.edit[1].log = db.logNumber /\ bg'.edit[1].del = bg.inputs /\ bg'.edit[1].add = add
    BY <2>1, NumbersOfEdit
  <2>3. Numbers(add) = bg.out
    BY NumbersOfMoved
  <2> HIDE DEF e, add
  <2> QED  BY <2>1, <2>2, <2>3 DEF MergeInv
<1>12. CASE WriteManifest
  <2>1. /\ db' = db /\ bg.pc = "manifest" /\ bg'.pc = "install" /\ bg'.edit = bg.edit
        /\ bg'.inputs = bg.inputs /\ bg'.out = bg.out
        /\ (bg'.written <=> bg.written) /\ (bg'.inWork <=> bg.inWork)
        /\ disk' = [disk EXCEPT !.manifests[db.manifest] =
                        Synced(Appended(disk.manifests[db.manifest], bg.edit[1]))]
    BY <1>12, WriteManifestEffect DEF BgIs
  <2>2. disk'.tables = disk.tables /\ Frozen' = Frozen
    BY <2>1, FieldsOf DEF DiskTyped, Frozen
  <2> QED  BY <2>1, <2>2 DEF MergeInv
<1>13. CASE WriteManifestFails
  <2>1. /\ FlushIsOver \/ HasEnded
        /\ disk' = disk \/ \E f : disk' = [disk EXCEPT !.manifests[db.manifest] = f]
    BY <1>13, WriteManifestFailsEffect
  <2>2. disk'.tables = disk.tables
    BY <2>1, FieldsOf DEF DiskTyped
  <2> QED  BY <1>1, <2>1, <2>2
<1>14. CASE InstallVersion
  <2>1. PICK held : /\ FlushIsOver \/ HasEnded
                    /\ disk' = disk \/ FilesLeft(held)
    BY <1>14, InstallVersionEffect
  <2>2. CASE disk' = disk
    BY <1>1, <2>1, <2>2
  <2>3. CASE HasEnded
    BY <2>3, EndedFields, MergeQuiet
  <2>4. CASE BackToWork /\ FilesLeft(held)
    <3>1. \A n \in DOMAIN disk'.tables : n \in DOMAIN disk.tables /\ disk'.tables[n] = disk.tables[n]
      BY <2>4 DEF FilesLeft
    <3>2. bg'.inputs = bg.inputs /\ bg'.out = bg.out /\ (bg'.written <=> bg.written)
      BY <2>4, BackFields
    <3>3. bg.written => bg.out \subseteq DOMAIN disk'.tables
      BY <1>0, <3>2 DEF WorkInv
    <3>4. Content(Numbers(bg.inputs), disk'.tables) \subseteq Content(Numbers(bg.inputs), disk.tables)
      BY <3>1, ContentMore
    <3>5. bg.written => Content(bg.out, disk.tables) \subseteq Content(bg.out, disk'.tables)
      BY <3>1, <3>3, ContentMore
    <3>6. bg.written => Content(Numbers(bg.inputs), disk'.tables) \subseteq Content(bg.out, disk'.tables)
      BY <3>4, <3>5 DEF MergeInv
    <3> QED  BY <2>1, <3>6, MergeOver
  <2> QED  BY <2>1, <2>2, <2>3, <2>4 DEF FlushIsOver
<1> QED  BY <1>2, <1>3, <1>4, <1>5, <1>6, <1>7, <1>8, <1>9, <1>10, <1>11, <1>12, <1>13, <1>14 DEF Background

LEMMA MergeStep == BaseInv /\ FilesInv /\ FilesInv' /\ MergeInv /\ [Next]_vars => MergeInv'
<1> SUFFICES ASSUME BaseInv, FilesInv, FilesInv', MergeInv, [Next]_vars  PROVE MergeInv'
  OBVIOUS
<1>1. ASSUME UNCHANGED <<disk, db, bg>>  PROVE MergeInv'
  <2>1. Frozen' = Frozen
    BY <1>1 DEF Frozen
  <2> QED  BY <1>1, <2>1 DEF MergeInv
<1>2. CASE UNCHANGED vars
  <2>1. UNCHANGED <<disk, db, bg>>
    BY <1>2 DEF vars
  <2> QED  BY <1>1, <2>1
<1>3. CASE PinVersion \/ UnpinVersion
  BY <1>1, <1>3 DEF PinVersion, UnpinVersion
<1>4. ASSUME NEW w \in Writer, NEW sync \in BOOLEAN, NEW batch \in BOOLEAN, Call(w, sync, batch)
      PROVE  MergeInv'
  BY <1>1, <1>4 DEF Call
<1>5. ASSUME NEW w \in Writer, Thread(w)  PROVE MergeInv'
  BY <1>5, ThreadEffect, MergeOfThread
<1>6. CASE Open
  <2>1. CASE SetCurrent
    BY <2>1, SetCurrentEffect, EndedFields, MergeQuiet
  <2>2. CASE NewDB \/ Recover \/ RecoverLog \/ NewManifest
    <3>1. bg' = bg /\ bg = BgOff
      BY <2>2, FieldsOf DEF NewDB, Recover, RecoverLog, NewManifest, QuietInv
    <3> QED  BY <3>1, MergeQuiet DEF BgOff
  <2> QED  BY <1>6, <2>1, <2>2 DEF Open
<1>7. CASE ProcessCrash \/ MachineCrash
  BY <1>7, CrashEffect, MergeQuiet DEF BgOff
<1> QED  BY <1>2, <1>3, <1>4, <1>5, <1>6, <1>7, MergeOfBackground DEF Next

\* What a crash may leave of a manifest that has one record more is as before, or has
\* the new edit too, which is applied to all the others.
LEMMA KeptOfAppended ==
    ASSUME NEW m \in ManifestOf, m.synced <= Len(m.recs), m.recs # <<>>, NEW r \in EditOf \cup {Torn},
           NEW g \in ManifestOf, g.recs = Append(m.recs, r), g.synced \in {m.synced, Len(m.recs) + 1},
           NEW c \in Kept(g), Readable(c)
    PROVE  \/ /\ r \in EditOf /\ LastEdit(c) = r
              /\ \E d \in Kept(m) : /\ Readable(d) /\ d.synced = Len(m.recs)
                                    /\ VersionOf(c) = Applied(VersionOf(d), r)
           \/ \E d \in Kept(m) : /\ Readable(d) /\ VersionOf(c) = VersionOf(d) /\ LastEdit(c) = LastEdit(d)
                                 /\ c.synced = Len(g.recs) => r = Torn /\ d.synced = Len(m.recs)
<1> DEFINE R == EditOf \cup {Torn}
<1>1. m \in FileOf(R) /\ g \in FileOf(R) /\ r \in R
  BY DEF ManifestOf, FileOf
<1>2. m.synced \in Nat /\ Len(m.recs) \in Nat /\ m.synced <= Len(m.recs)
  BY <1>1 DEF FileOf
<1>3. Len(g.recs) = Len(m.recs) + 1 /\ DOMAIN g.recs = 1 .. Len(m.recs) + 1 /\ DOMAIN m.recs = 1 .. Len(m.recs)
      /\ \A i \in 1 .. Len(m.recs) : g.recs[i] = m.recs[i]
  <2>1. m.recs \in Seq(R)
    BY <1>1 DEF FileOf
  <2> QED  BY <1>1, <2>1, AppendProperties
<1>4. PICK d \in Kept(m) : d.recs = m.recs /\ d.synced = Len(m.recs)
  BY <1>1, <1>2, KeptAll
<1>5. CASE c.recs = g.recs /\ r = Torn
  <2>1. Readable(g) /\ VersionOf(c) = VersionOf(g) /\ LastEdit(c) = LastEdit(g)
    BY <1>5, SameRecords
  <2>2. Readable(m) /\ VersionOf(g) = VersionOf(m) /\ LastEdit(g) = LastEdit(m)
    BY <1>5, <2>1, TornAppended
  <2>3. Readable(d) /\ VersionOf(d) = VersionOf(m) /\ LastEdit(d) = LastEdit(m)
    BY <1>4, <2>2, SameRecords
  <2> QED  BY <1>4, <1>5, <2>1, <2>2, <2>3
<1>6. CASE c.recs = g.recs /\ r # Torn
  <2>1. r \in EditOf /\ ~IsTorn(r)
    BY <1>6, TornRecords
  <2>2. Readable(g) /\ VersionOf(c) = VersionOf(g) /\ LastEdit(c) = LastEdit(g)
    BY <1>6, SameRecords
  <2>3. Clean(m)
    <3>1. ASSUME NEW i \in 1 .. Len(m.recs)  PROVE ~IsTorn(m.recs[i])
      <4>1. i \in DOMAIN g.recs /\ i # Len(g.recs) /\ g.recs[i] = m.recs[i]
        BY <1>2, <1>3
      <4> QED  BY <2>2, <4>1 DEF Readable
    <3> QED  BY <1>3, <3>1 DEF Clean
  <2>4. LastEdit(g) = r /\ VersionOf(g) = Applied(VersionOf(m), r)
    BY <2>1, <2>3, VersionAppended
  <2>5. Readable(m)
    <3>1. Len(m.recs) # 0
      BY <1>1 DEF FileOf
    <3> QED  BY <1>2, <1>3, <2>3, <3>1, CleanWhole
  <2>6. Readable(d) /\ VersionOf(d) = VersionOf(m)
    BY <1>4, <2>5, SameRecords
  <2> QED  BY <1>4, <2>1, <2>2, <2>4, <2>6
<1> HIDE DEF R
<1>7. CASE \E k \in Kept(m) : k.recs = c.recs /\ k.synced = c.synced
  <2>1. PICK k \in Kept(m) : k.recs = c.recs /\ k.synced = c.synced
    BY <1>7
  <2>2. Readable(k) /\ VersionOf(c) = VersionOf(k) /\ LastEdit(c) = LastEdit(k)
    BY <2>1, SameRecords
  <2>3. c.synced # Len(g.recs)
    <3>1. k.synced \in m.synced .. Len(m.recs)
      BY <1>1, <2>1, KeptRecords
    <3> QED  BY <1>2, <1>3, <2>1, <3>1
  <2> QED  BY <2>1, <2>2, <2>3
<1> QED  BY <1>1, <1>5, <1>6, <1>7, KeptAppended

\* What is left of a manifest has a last edit if it can be read.
LEMMA KeptEdit ==
    ASSUME NEW m \in ManifestOf, NEW c \in Kept(m), Readable(c)
    PROVE  LastEdit(c) \in EditOf /\ LastEdit(c).log \in Nat /\ VersionOf(c) \subseteq Table
<1>1. m \in FileOf(EditOf \cup {Torn}) /\ ManifestOf = FileOf(EditOf \cup {Torn})
  BY DEF ManifestOf, FileOf
<1>2. c \in ManifestOf
  BY <1>1, KeptRecords
<1>3. LastEdit(c) \in EditOf
  BY <1>2, ReadableManifest
<1> QED  BY <1>2, <1>3, VersionTyped DEF EditOf

\* Whatever a crash leaves of the manifest of an open database names no log later
\* than those that the tables make superfluous, and has the tables of the version,
\* or those that a compaction made of them.
LogNeeded == IF bg.pc = "install" THEN bg.edit[1].log ELSE db.logNumber

ManifestCovers(m) ==
    \A c \in Kept(m) : Readable(c) =>
        /\ LogNeeded <= LastEdit(c).log /\ LastEdit(c).log <= db.logfile
        /\ bg.pc # "off" \/ ~db.error => Expected \subseteq VersionOf(c)

ManifestInv ==
    /\ db.up = "current" => LastEdit(disk.manifests[db.manifest]).log = db.logNumber
    /\ db.up = "open" => ManifestCovers(disk.manifests[db.manifest])

LEMMA ManifestKept ==
    ASSUME ManifestInv, db.up = "open", db'.up = "open",
           disk'.manifests[db'.manifest] = disk.manifests[db.manifest],
           \A c \in Kept(disk.manifests[db.manifest]) :
              Readable(c) /\ LastEdit(c).log <= db.logfile => LastEdit(c).log <= db'.logfile,
           LogNeeded' = LogNeeded, Expected' = Expected,
           bg'.pc # "off" \/ ~db'.error => bg.pc # "off" \/ ~db.error
    PROVE  ManifestInv'
<1>1. PICK m : m = disk.manifests[db.manifest] /\ m = disk'.manifests[db'.manifest]
  OBVIOUS
<1>2. ManifestCovers(m)
  BY <1>1 DEF ManifestInv
<1>3. ASSUME NEW c \in Kept(m), Readable(c)
      PROVE  /\ LogNeeded' <= LastEdit(c).log /\ LastEdit(c).log <= db'.logfile
             /\ bg'.pc # "off" \/ ~db'.error => Expected' \subseteq VersionOf(c)
  BY <1>1, <1>2, <1>3 DEF ManifestCovers
<1> QED  BY <1>1, <1>3 DEF ManifestCovers, ManifestInv

LEMMA ManifestOfThread ==
    ASSUME BaseInv, NumbersInv, CurrentInv, ManifestInv, ThreadFrame
    PROVE  ManifestInv'
<1>1. /\ db.up = "open" /\ db'.up = "open" /\ disk'.manifests = disk.manifests /\ db'.manifest = db.manifest
      /\ db'.version = db.version /\ db'.logNumber = db.logNumber /\ (db.error => db'.error)
      /\ bg'.edit = bg.edit /\ (bg'.pc # bg.pc => bg.pc = "off" /\ bg'.pc = "due" /\ ~db'.error)
      /\ db'.logfile = db.logfile \/ db'.logfile = db.nextFile
  BY DEF ThreadFrame, BgIs
<1>2. db.logfile \in Nat /\ db.nextFile \in Nat /\ db.logfile < db.nextFile
  BY <1>1, FieldsOf DEF NumbersInv, VersionNumbered
<1>3. LogNeeded' = LogNeeded /\ Expected' = Expected
  BY <1>1 DEF LogNeeded, Expected
<1>4. disk.manifests[db.manifest] \in ManifestOf
  BY <1>1, FieldsOf DEF DiskTyped, NumbersInv, LogsNumbered
<1>5. ASSUME NEW c \in Kept(disk.manifests[db.manifest]), Readable(c), LastEdit(c).log <= db.logfile
      PROVE  LastEdit(c).log <= db'.logfile
  <2>1. LastEdit(c).log \in Nat
    BY <1>4, <1>5, KeptEdit
  <2> QED  BY <1>1, <1>2, <1>5, <2>1
<1> QED  BY <1>1, <1>3, <1>5, ManifestKept

LEMMA ManifestOfBackground ==
    ASSUME BaseInv, NumbersInv, FilesInv, CurrentInv, MergeInv, ManifestInv, Background
    PROVE  ManifestInv'
<1>0. /\ db.up = "open" /\ db'.up = "open" /\ DiskTyped /\ db.manifest \in Nat
      /\ db.logfile \in Nat /\ db.logNumber \in Nat /\ WorkInv /\ LogsNumbered /\ bg.pc # "off"
  <2>1. bg.pc # "off"
    BY DEF Background, NothingToDo, StartFlush, BuildTable, BuildTableFails, StartMove, StartCompaction,
           OpenOutput, WriteOutput, EndWork, WorkFails, WriteManifest, WriteManifestFails, InstallVersion
  <2> QED  BY <2>1, BackgroundOpen DEF FilesInv, NumbersInv
<1> DEFINE m == disk.manifests[db.manifest]
<1>1. /\ m \in ManifestOf /\ m.synced <= Len(m.recs) /\ m.recs # <<>> /\ ManifestCovers(m)
  <2>1. disk.current = db.manifest /\ 1 < db.manifest
    BY <1>0 DEF CurrentInv, NumbersInv, VersionNumbered
  <2>2. m \in ManifestOf /\ Opens(m, DOMAIN disk.tables)
    BY <1>0, <2>1 DEF CurrentInv, CurrentOpens, DiskTyped
  <2>3. m.synced \in Nat /\ Len(m.recs) \in Nat
    BY <2>2, ManifestAdds
  <2>4. 1 <= Len(m.recs) /\ m.synced <= Len(m.recs)
    BY <2>2, <2>3 DEF Opens
  <2> HIDE DEF m
  <2>5. m.recs # <<>>
    BY <2>4
  <2> QED  BY <1>0, <2>2, <2>4, <2>5 DEF ManifestInv, m
<1> HIDE DEF m
<1>2. (FlushIsOver \/ HasEnded) => bg'.pc \in {"off", "due", "work"}
  BY EndedFields, BackFields DEF FlushIsOver
<1>3. ASSUME disk'.manifests = disk.manifests, db'.manifest = db.manifest, db'.version = db.version,
             db'.logNumber = db.logNumber, db'.logfile = db.logfile,
             bg.pc # "install", bg'.pc # "install"
      PROVE  ManifestInv'
  <2>1. LogNeeded' = LogNeeded /\ Expected' = Expected
    BY <1>3 DEF LogNeeded, Expected
  <2> QED  BY <1>0, <1>3, <2>1, ManifestKept
<1>4. CASE NothingToDo
  <2>1. UNCHANGED <<disk, db>> /\ bg.pc = "due" /\ HasEnded
    BY <1>4, NothingToDoEffect
  <2> QED  BY <1>2, <1>3, <2>1
<1>5. CASE BuildTableFails
  <2>1. /\ bg.pc = "build" /\ disk' = disk /\ FlushIsOver /\ db'.manifest = db.manifest
        /\ db'.version = db.version /\ db'.logNumber = db.logNumber /\ db'.logfile = db.logfile
    BY <1>5, BuildTableFailsEffect DEF DbIs
  <2> QED  BY <1>2, <1>3, <2>1
<1>6. CASE WorkFails
  <2>1. /\ bg.pc = "work" /\ disk' = disk /\ HasEnded /\ db'.manifest = db.manifest
        /\ db'.version = db.version /\ db'.logNumber = db.logNumber /\ db'.logfile = db.logfile
    BY <1>6, WorkFailsEffect DEF DbIs
  <2> QED  BY <1>2, <1>3, <2>1
<1>7. CASE StartFlush
  <2>1. /\ bg.pc \in {"work", "due"} /\ disk' = disk /\ bg'.pc = "build" /\ db'.manifest = db.manifest
        /\ db'.version = db.version /\ db'.logNumber = db.logNumber /\ db'.logfile = db.logfile
    BY <1>7, StartFlushEffect DEF DbIs, BgIs
  <2> QED  BY <1>3, <2>1
<1>8. CASE BuildTable
  <2>1. /\ bg.pc = "build" /\ bg'.pc = "manifest" /\ db'.manifest = db.manifest
        /\ db'.version = db.version /\ db'.logNumber = db.logNumber /\ db'.logfile = db.logfile
        /\ disk' = disk \/ \E T : disk' = [disk EXCEPT !.tables = T]
    BY <1>8, BuildTableEffect DEF DbIs, BgIs
  <2>2. disk'.manifests = disk.manifests
    BY <1>0, <2>1 DEF DiskTyped
  <2> QED  BY <1>3, <2>1, <2>2
<1>9. CASE StartMove
  <2>1. bg.pc = "due" /\ disk' = disk /\ db' = db /\ bg'.pc = "manifest"
    BY <1>9, StartMoveEffect DEF BgIs
  <2> QED  BY <1>3, <2>1
<1>10. CASE StartCompaction
  <2>1. bg.pc = "due" /\ disk' = disk /\ db' = db /\ bg'.pc = "work"
    BY <1>10, StartCompactionEffect DEF BgIs
  <2> QED  BY <1>3, <2>1
<1>11. CASE OpenOutput
  <2>1. /\ bg.pc = "work" /\ disk' = disk /\ bg'.pc = "work" /\ db'.manifest = db.manifest
        /\ db'.version = db.version /\ db'.logNumber = db.logNumber /\ db'.logfile = db.logfile
    BY <1>11, OpenOutputEffect DEF DbIs, BgIs
  <2> QED  BY <1>3, <2>1
<1>12. CASE WriteOutput
  <2>1. /\ bg.pc = "work" /\ db' = db /\ bg'.pc = "work" /\ \E T : disk' = [disk EXCEPT !.tables = T]
    BY <1>12, WriteOutputEffect DEF BgIs
  <2>2. disk'.manifests = disk.manifests
    BY <1>0, <2>1 DEF DiskTyped
  <2> QED  BY <1>3, <2>1, <2>2
<1>13. CASE EndWork
  <2>1. bg.pc = "work" /\ disk' = disk /\ db' = db /\ bg'.pc = "manifest"
    BY <1>13, EndWorkEffect DEF BgIs
  <2> QED  BY <1>3, <2>1
\* The edit is behind the others.
<1>14. ASSUME bg.pc = "manifest", NEW r \in EditOf \cup {Torn}, r \in {Torn, bg.edit[1]},
              NEW g \in ManifestOf, g.recs = Append(m.recs, r), g.synced \in {m.synced, Len(m.recs) + 1},
              NEW c \in Kept(g), Readable(c)
       PROVE  \/ /\ r = bg.edit[1] /\ LastEdit(c) = bg.edit[1]
                 /\ Applied(db.version, bg.edit[1]) \subseteq VersionOf(c)
                 /\ db.logNumber <= bg.edit[1].log /\ bg.edit[1].log <= db.logfile
              \/ /\ c.synced = Len(g.recs) => r = Torn
                 /\ db.logNumber <= LastEdit(c).log /\ LastEdit(c).log <= db.logfile
                 /\ db.version \subseteq VersionOf(c)
  <2>1. LogNeeded = db.logNumber /\ Expected = db.version
    BY <1>14 DEF LogNeeded, Expected
  <2>2. CASE /\ r \in EditOf /\ LastEdit(c) = r
             /\ \E d \in Kept(m) : /\ Readable(d) /\ d.synced = Len(m.recs)
                                   /\ VersionOf(c) = Applied(VersionOf(d), r)
    <3>1. PICK d \in Kept(m) : Readable(d) /\ VersionOf(c) = Applied(VersionOf(d), r)
      BY <2>2
    <3>2. r = bg.edit[1]
      BY <1>14, <2>2, TornRecords
    <3>3. db.version \subseteq VersionOf(d)
      BY <1>0, <1>1, <2>1, <3>1 DEF ManifestCovers
    <3>4. Applied(db.version, r) \subseteq VersionOf(c)
      BY <3>1, <3>3 DEF Applied
    <3>5. bg.edit[1].log <= db.logfile
      BY <1>14 DEF NumbersInv, EditNumbered
    <3>6. db.logNumber <= bg.edit[1].log
      BY <1>0, <1>14 DEF MergeInv, LogsNumbered
    <3> QED  BY <2>2, <3>2, <3>4, <3>5, <3>6
  <2>3. CASE \E d \in Kept(m) : /\ Readable(d) /\ VersionOf(c) = VersionOf(d) /\ LastEdit(c) = LastEdit(d)
                                /\ c.synced = Len(g.recs) => r = Torn /\ d.synced = Len(m.recs)
    <3>1. PICK d \in Kept(m) : /\ Readable(d) /\ VersionOf(c) = VersionOf(d) /\ LastEdit(c) = LastEdit(d)
                               /\ c.synced = Len(g.recs) => r = Torn
      BY <2>3
    <3> QED  BY <1>0, <1>1, <2>1, <3>1 DEF ManifestCovers
  <2>4. \/ /\ r \in EditOf /\ LastEdit(c) = r
           /\ \E d \in Kept(m) : /\ Readable(d) /\ d.synced = Len(m.recs)
                                 /\ VersionOf(c) = Applied(VersionOf(d), r)
        \/ \E d \in Kept(m) : /\ Readable(d) /\ VersionOf(c) = VersionOf(d) /\ LastEdit(c) = LastEdit(d)
                              /\ c.synced = Len(g.recs) => r = Torn /\ d.synced = Len(m.recs)
    BY <1>1, <1>14, KeptOfAppended
  <2> QED  BY <2>2, <2>3, <2>4
<1>15. CASE WriteManifest
  <2> DEFINE g == Synced(Appended(m, bg.edit[1]))
  <2>1. /\ bg.pc = "manifest" /\ bg.edit[1] \in EditOf /\ db' = db
        /\ disk' = [disk EXCEPT !.manifests[db.manifest] = g]
        /\ bg'.pc = "install" /\ bg'.edit = bg.edit
    BY <1>15, WriteManifestEffect DEF BgIs, m
  <2>2. /\ g \in ManifestOf /\ g.recs = Append(m.recs, bg.edit[1])
        /\ g.synced = Len(m.recs) + 1 /\ Len(g.recs) = g.synced
    <3>1. PICK e : e = bg.edit[1]
      OBVIOUS
    <3>2. e \in EditOf \cup {Torn} /\ g = Synced(Appended(m, e))
      BY <2>1, <3>1
    <3> HIDE DEF g
    <3>3. /\ g \in ManifestOf /\ g.recs = Append(m.recs, e) /\ g.synced = Len(m.recs) + 1
          /\ Len(Append(m.recs, e)) = Len(m.recs) + 1
      BY <1>1, <3>2, AppendedManifest
    <3> QED  BY <3>1, <3>3
  <2> HIDE DEF g
  <2>3. disk'.manifests[db'.manifest] = g
    BY <1>0, <2>1 DEF DiskTyped, LogsNumbered
  <2>4. LogNeeded' = bg.edit[1].log /\ Expected' = Applied(db.version, bg.edit[1])
    BY <2>1 DEF LogNeeded, Expected
  <2>5. ASSUME NEW c \in Kept(g), Readable(c)
        PROVE  /\ LogNeeded' <= LastEdit(c).log /\ LastEdit(c).log <= db'.logfile
               /\ Expected' \subseteq VersionOf(c)
    <3>1. c.synced = Len(g.recs)
      <4>1. g \in FileOf(EditOf \cup {Torn}) /\ Len(m.recs) \in Nat
        BY <1>1, <2>2, ManifestAdds DEF ManifestOf, FileOf
      <4>2. c.synced \in g.synced .. Len(g.recs)
        BY <2>5, <4>1, KeptRecords
      <4> QED  BY <2>2, <4>1, <4>2
    <3>2. PICK r : r = bg.edit[1]
      OBVIOUS
    <3>3. r \in EditOf \cup {Torn} /\ r \in {Torn, bg.edit[1]} /\ r # Torn /\ g.recs = Append(m.recs, r)
      BY <2>1, <2>2, <3>2, TornRecords
    <3>4. /\ LastEdit(c) = bg.edit[1] /\ Applied(db.version, bg.edit[1]) \subseteq VersionOf(c)
          /\ bg.edit[1].log <= db.logfile
      BY <1>14, <2>1, <2>2, <2>5, <3>1, <3>3
    <3>5. bg.edit[1].log \in Nat
      BY <2>1 DEF EditOf
    <3> QED  BY <2>1, <2>4, <3>4, <3>5
  <2> QED  BY <1>0, <2>3, <2>5 DEF ManifestInv, ManifestCovers
<1>16. CASE WriteManifestFails
  <2>1. /\ bg.pc = "manifest" /\ bg.edit[1] \in EditOf
        /\ \/ disk' = disk
           \/ \E r \in {Torn, bg.edit[1]} :
                 disk' = [disk EXCEPT !.manifests[db.manifest] = Appended(m, r)]
        /\ db'.version = db.version /\ db'.manifest = db.manifest /\ db'.error
        /\ db'.logNumber = db.logNumber /\ db'.logfile = db.logfile
        /\ FlushIsOver \/ HasEnded
    BY <1>16, WriteManifestFailsEffect DEF DbIs, m
  <2>2. CASE disk' = disk
    BY <1>2, <1>3, <2>1, <2>2
  <2>3. ASSUME NEW r \in {Torn, bg.edit[1]},
               disk' = [disk EXCEPT !.manifests[db.manifest] = Appended(m, r)]
        PROVE  ManifestInv'
    <3> DEFINE g == Appended(m, r)
    <3>1. r \in EditOf \cup {Torn}
      BY <2>1, <2>3
    <3>2. g \in ManifestOf /\ g.recs = Append(m.recs, r) /\ g.synced = m.synced
      BY <1>1, <3>1, AppendedManifest
    <3>3. disk'.manifests[db'.manifest] = g
      BY <1>0, <2>1, <2>3 DEF DiskTyped, LogsNumbered
    <3> HIDE DEF g
    <3>4. LogNeeded' = db.logNumber /\ Expected' = db.version
      BY <1>2, <2>1 DEF LogNeeded, Expected
    <3>5. bg'.pc # "off" => bg.edit[1].del = {}
      <4>1. bg'.pc # "off" => BackToWork
        <5>1. HasEnded => bg'.pc = "off"
          BY <2>1, EndedFields DEF HasEnded
        <5> QED  BY <2>1, <5>1 DEF FlushIsOver
      <4>2. BackToWork => bg.inWork
        BY DEF BackToWork
      <4> QED  BY <1>0, <2>1, <4>1, <4>2 DEF WorkInv
    <3>6. ASSUME NEW c \in Kept(g), Readable(c)
          PROVE  /\ LogNeeded' <= LastEdit(c).log /\ LastEdit(c).log <= db'.logfile
                 /\ bg'.pc # "off" => Expected' \subseteq VersionOf(c)
      <4>1. CASE /\ r = bg.edit[1] /\ LastEdit(c) = bg.edit[1]
                 /\ Applied(db.version, bg.edit[1]) \subseteq VersionOf(c)
                 /\ db.logNumber <= bg.edit[1].log /\ bg.edit[1].log <= db.logfile
        <5>1. bg'.pc # "off" => db.version \subseteq VersionOf(c)
          BY <3>5, <4>1 DEF Applied
        <5> QED  BY <2>1, <3>4, <4>1, <5>1
      <4>2. CASE /\ db.logNumber <= LastEdit(c).log /\ LastEdit(c).log <= db.logfile
                 /\ db.version \subseteq VersionOf(c)
        BY <2>1, <3>4, <4>2
      <4> QED  BY <1>14, <2>1, <2>3, <3>1, <3>2, <3>6, <4>1, <4>2
    <3> QED  BY <1>0, <2>1, <3>3, <3>6 DEF ManifestInv, ManifestCovers
  <2> QED  BY <2>1, <2>2, <2>3
<1>17. CASE InstallVersion
  <2>1. PICK held :
        /\ bg.pc = "install" /\ db'.logNumber = bg.edit[1].log /\ db'.logfile = db.logfile
        /\ db'.version = Applied(db.version, bg.edit[1]) /\ db'.manifest = db.manifest
        /\ FlushIsOver \/ HasEnded
        /\ disk' = disk \/ FilesLeft(held)
    BY <1>17, InstallVersionEffect DEF DbIs
  <2>2. LogNeeded' = LogNeeded /\ Expected' = Expected
    BY <1>2, <2>1 DEF LogNeeded, Expected
  <2>3. disk'.manifests[db'.manifest] = disk.manifests[db.manifest]
    <3>1. db.manifest >= db'.manifest
      BY <1>0, <2>1
    <3> QED  BY <1>0, <2>1, <3>1 DEF FilesLeft, LogsNumbered
  <2> QED  BY <1>0, <2>1, <2>2, <2>3, ManifestKept
<1> QED  BY <1>4, <1>5, <1>6, <1>7, <1>8, <1>9, <1>10, <1>11, <1>12, <1>13, <1>15, <1>16, <1>17 DEF Background

LEMMA ManifestOfOpen ==
    ASSUME BaseInv, NumbersInv, CurrentInv, ManifestInv, Open
    PROVE  ManifestInv'
<1>0. DiskTyped /\ db.manifest \in Nat /\ db.logfile \in Nat /\ db.logNumber \in Nat
  BY FieldsOf
<1>1. CASE NewDB \/ Recover \/ RecoverLog
  <2>1. db'.up \in {"down", "logs", "corrupt"}
    <3>1. CASE NewDB
      BY <3>1, NewDBEffect
    <3>2. CASE Recover
      BY <3>2, RecoverEffect
    <3>3. CASE RecoverLog
      <4>1. db.up = "logs" /\ db \in DbOf
        BY <3>3, FieldsOf DEF RecoverLog
      <4>2. db'.up = db.up
        BY <3>3, <4>1 DEF RecoverLog, DbOf
      <4> QED  BY <4>1, <4>2
    <3> QED  BY <1>1, <3>1, <3>2, <3>3
  <2> QED  BY <2>1 DEF ManifestInv
<1>2. CASE NewManifest
  <2> DEFINE log == db.nextFile
             edit == Edit(log, log + 1, db.lastSeq, db.version, {})
             f    == Synced(Appended(File, edit))
  <2>1. /\ db'.up = "current" /\ db'.manifest = db.manifest /\ db'.logNumber = log
        /\ disk'.manifests = With(disk.manifests, db.manifest, f)
        /\ edit \in EditOf /\ f.recs = <<edit>>
    BY <1>2, NewManifestEffect
  <2>2. edit.log = log
    BY NumbersOfEdit
  <2> HIDE DEF edit, f
  <2>3. LastEdit(f) = edit
    BY <2>1, VersionFirst
  <2>4. disk'.manifests[db'.manifest] = f
    <3>1. With(disk.manifests, db.manifest, f)[db.manifest] = f
      BY DEF With
    <3> QED  BY <2>1, <3>1
  <2> QED  BY <2>1, <2>2, <2>3, <2>4 DEF ManifestInv
<1>3. CASE SetCurrent
  <2> DEFINE m == disk.manifests[db.manifest]
  <2>1. /\ db.up = "current" /\ db'.up = "open" /\ bg = BgOff
        /\ db'.manifest = db.manifest /\ db'.version = db.version
        /\ db'.logfile = db.logfile /\ db'.logNumber = db.logNumber
        /\ FilesLeft({}) /\ HasEnded
    BY <1>3, SetCurrentEffect
  <2>2. /\ db.manifest \in DOMAIN disk.manifests /\ m \in ManifestOf /\ db.logNumber <= db.logfile
        /\ m.synced = Len(m.recs) /\ VersionOf(m) = db.version /\ LastEdit(m).log = db.logNumber
    BY <1>0, <2>1 DEF CurrentInv, NumbersInv, LogsNumbered, DiskTyped, ManifestUpToDate, Expected, BgOff, ManifestInv
  <2>3. disk'.manifests[db'.manifest] = m
    <3>1. db.manifest >= db'.manifest
      BY <1>0, <2>1
    <3> QED  BY <2>1, <2>2, <3>1 DEF FilesLeft
  <2> HIDE DEF m
  <2>4. LogNeeded' = db.logNumber /\ Expected' = db.version
    BY <2>1, EndedFields DEF LogNeeded, Expected
  <2>5. ASSUME NEW c \in Kept(m)
        PROVE  VersionOf(c) = db.version /\ LastEdit(c).log = db.logNumber
    <3>1. m \in FileOf(EditOf \cup {Torn}) /\ Len(m.recs) \in Nat
      BY <2>2, ManifestAdds DEF ManifestOf, FileOf
    <3>2. c.recs = m.recs
      <4>1. c.synced \in m.synced .. Len(m.recs) /\ (c.synced = Len(m.recs) => c.recs = m.recs)
        BY <2>5, <3>1, KeptRecords
      <4> QED  BY <2>2, <3>1, <4>1
    <3> QED  BY <2>2, <3>2, SameRecords
  <2> QED  BY <1>0, <2>1, <2>2, <2>3, <2>4, <2>5 DEF ManifestInv, ManifestCovers
<1> QED  BY <1>1, <1>2, <1>3 DEF Open

LEMMA ManifestStep ==
    BaseInv /\ NumbersInv /\ FilesInv /\ CurrentInv /\ MergeInv /\ ManifestInv /\ [Next]_vars => ManifestInv'
<1> SUFFICES ASSUME BaseInv, NumbersInv, FilesInv, CurrentInv, MergeInv, ManifestInv, [Next]_vars
             PROVE  ManifestInv'
  OBVIOUS
<1>1. ASSUME UNCHANGED <<disk, db, bg>>  PROVE ManifestInv'
  BY <1>1 DEF ManifestInv, ManifestCovers, LogNeeded, Expected
<1>2. CASE UNCHANGED vars
  <2>1. UNCHANGED <<disk, db, bg>>
    BY <1>2 DEF vars
  <2> QED  BY <1>1, <2>1
<1>3. CASE PinVersion \/ UnpinVersion
  BY <1>1, <1>3 DEF PinVersion, UnpinVersion
<1>4. ASSUME NEW w \in Writer, NEW sync \in BOOLEAN, NEW batch \in BOOLEAN, Call(w, sync, batch)
      PROVE  ManifestInv'
  BY <1>1, <1>4 DEF Call
<1>5. ASSUME NEW w \in Writer, Thread(w)  PROVE ManifestInv'
  BY <1>5, ThreadEffect, ManifestOfThread
<1>6. CASE ProcessCrash \/ MachineCrash
  <2>1. db'.up = "down"
    BY <1>6, CrashEffect
  <2> QED  BY <2>1 DEF ManifestInv
<1> QED  BY <1>2, <1>3, <1>4, <1>5, <1>6, ManifestOfBackground, ManifestOfOpen DEF Next

-----------------------------------------------------------------------------
(* A group in the log.  Its writer syncs the log if one of the group wants *)
(* that, and once the record is written all of the group is in it, but for *)
(* a record that is behind a torn one.                                     *)

SyncedForAll(w) == \A i \in 1 .. call[w].group : call[queue[i]].sync => call[w].sync

Logged(w) ==
    \/ \A e \in GroupEntries(w) : e.id \in behind
    \/ \E i \in Whole(disk.logs[db.logfile]) :
          /\ call[w].pc = "finish" /\ call[w].sync => i <= disk.logs[db.logfile].synced
          /\ GroupEntries(w) \subseteq disk.logs[db.logfile].recs[i].ents

WrittenInv ==
    \A w \in Writer :
        /\ call[w].pc \in WritePcs => SyncedForAll(w)
        /\ call[w].pc \in {"sync", "finish"} /\ call[w].ok => Logged(w)

LEMMA SyncedStays ==
    ASSUME BaseInv, \A i \in 1 .. Len(queue) : queue'[i] = queue[i],
           \A u \in Range(queue) : call'[u].sync = call[u].sync,
           NEW v \in Writer, call[v].pc \in WritePcs, call'[v].group = call[v].group, SyncedForAll(v)
    PROVE  SyncedForAll(v)'
<1>1. call[v].group \in 1 .. Len(queue) /\ queue \in Seq(Writer) /\ v \in Range(queue)
  <2>1. call[v].pc \in FrontPcs
    BY DEF WritePcs, FrontPcs
  <2> QED  BY <2>1, FrontWrites
<1>2. ASSUME NEW i \in 1 .. call[v].group
      PROVE  queue'[i] = queue[i] /\ queue[i] \in Range(queue)
  BY <1>1 DEF Range
<1>3. call'[v].sync = call[v].sync
  BY <1>1
<1>4. ASSUME NEW i \in 1 .. call[v].group, call'[queue'[i]].sync  PROVE call'[v].sync
  <2>1. call[queue[i]].sync
    BY <1>2, <1>4
  <2> QED  BY <1>3, <2>1 DEF SyncedForAll
<1> QED  BY <1>4 DEF SyncedForAll

\* A step that leaves the log, the queue and the group in it alone.
LEMMA WrittenKept ==
    ASSUME BaseInv, WrittenInv, db'.lastSeq = db.lastSeq, db'.logfile = db.logfile, behind \subseteq behind',
           \A i \in 1 .. Len(queue) : queue'[i] = queue[i],
           \A u \in Range(queue) : /\ call'[u].id = call[u].id /\ call'[u].batch = call[u].batch
                                   /\ call'[u].sync = call[u].sync,
           \A v \in Writer : call'[v].pc \in WritePcs =>
               call[v].pc \in WritePcs /\ call'[v].group = call[v].group,
           \A v \in Writer : call'[v].pc \in {"sync", "finish"} /\ call'[v].ok =>
               /\ call[v].pc = call'[v].pc /\ call[v].ok
               /\ disk'.logs[db.logfile] = disk.logs[db.logfile]
    PROVE  WrittenInv'
<1> SUFFICES ASSUME NEW v \in Writer
             PROVE  /\ call'[v].pc \in WritePcs => SyncedForAll(v)'
                    /\ call'[v].pc \in {"sync", "finish"} /\ call'[v].ok => Logged(v)'
  BY DEF WrittenInv
<1>1. ASSUME call'[v].pc \in WritePcs  PROVE SyncedForAll(v)'
  <2>1. call[v].pc \in WritePcs /\ call'[v].group = call[v].group /\ SyncedForAll(v)
    BY <1>1 DEF WrittenInv
  <2> QED  BY <2>1, SyncedStays
<1>2. ASSUME call'[v].pc \in {"sync", "finish"}, call'[v].ok  PROVE Logged(v)'
  <2>1. /\ call[v].pc = call'[v].pc /\ call[v].ok /\ disk'.logs[db.logfile] = disk.logs[db.logfile]
        /\ call'[v].pc \in WritePcs
    BY <1>2 DEF WritePcs
  <2>2. Logged(v) /\ call[v].pc \in WritePcs /\ call'[v].group = call[v].group
    BY <1>2, <2>1 DEF WrittenInv
  <2>3. GroupEntries(v)' = GroupEntries(v)
    BY <2>2, GroupStays
  <2>4. call'[v].sync = call[v].sync
    <3>1. call[v].pc \in FrontPcs
      BY <2>2 DEF WritePcs, FrontPcs
    <3> QED  BY <3>1, FrontWrites
  <2>5. PICK f : f = disk.logs[db.logfile] /\ f = disk'.logs[db'.logfile]
    BY <2>1
  <2> QED  BY <2>1, <2>2, <2>3, <2>4, <2>5 DEF Logged
<1> QED  BY <1>1, <1>2

\* Who leaves returns, the others of the group are told, and the rest may be woken.
HasLeft(w, n, ok, c) ==
    /\ c \in [Writer -> {Idle} \cup CallOf]
    /\ call'[w] = AfterWrite(c[w], ok) /\ owed' = NowOwed(c[w], ok)
    /\ \A v \in Writer : v # w =>
          /\ c[v].pc \notin FrontPcs
          /\ \/ /\ \E i \in 1 .. n : v = queue[i]
                /\ call'[v] = Signalled([c[v] EXCEPT !.done = TRUE, !.ok = ok])
             \/ call'[v] \in {c[v], Signalled(c[v])}

LEMMA LeaveEffect ==
    ASSUME BaseInv, NEW w \in Writer, call[w].pc \in FrontPcs, NEW n \in 1 .. Len(queue), NEW ok,
           NEW c \in {call, SignalAll(call)}, Leave(w, n, ok, c)
    PROVE  HasLeft(w, n, ok, c)
<1>1. Queued(queue, call)
  BY DEF BaseInv, QueueInv
<1>2. Queued(queue, c)
  BY <1>1, SignalAllQueued
<1>3. /\ c \in [Writer -> {Idle} \cup CallOf] /\ queue \in Seq(Writer) /\ IsInjective(queue)
      /\ queue # <<>> /\ w = Head(queue)
  BY <1>2, FrontWrites DEF Queued
<1>4. ASSUME NEW v \in Writer, v # w  PROVE c[v].pc \notin FrontPcs
  BY <1>2, <1>3, <1>4 DEF Queued, WriterOK
<1> DEFINE first == Range(SubSeq(queue, 1, n))
<1>5. Left(queue, n, SubSeq(queue, n + 1, Len(queue)))
  BY <1>3, QueueLeft
<1>6. w \in first /\ (n < Len(queue) => queue[n + 1] \notin first)
  <2>1. n < Len(queue) => n + 1 \in 1 .. Len(queue) /\ queue[n + 1] \in Range(queue)
    BY <1>3 DEF Range
  <2> QED  BY <1>3, <1>5, <2>1 DEF Left
<1>7. \A v \in first : \E i \in 1 .. n : v = queue[i]
  <2>1. n \in Nat /\ n <= Len(queue) /\ Len(queue) \in Nat /\ \A i \in 1 .. Len(queue) : queue[i] \in Writer
    BY <1>3
  <2>2. Len(SubSeq(queue, 1, n)) = n /\ SubSeq(queue, 1, n) \in Seq(Writer)
    BY <1>3, <2>1, SubSeqProperties
  <2>3. \A i \in 1 .. n : SubSeq(queue, 1, n)[i] = queue[i]
    <3>1. \A i \in 1 .. n : SubSeq(queue, 1, n)[i] = queue[1 + i - 1]
      BY <1>3, <2>1, SubSeqProperties
    <3> QED  BY <2>1, <3>1
  <2> QED  BY <2>2, <2>3 DEF Range
<1>8. /\ owed' = NowOwed(c[w], ok)
      /\ call' = [v \in Writer |->
            CASE v = w -> AfterWrite(c[w], ok)
              [] v # w /\ v \in first -> Signalled([c[v] EXCEPT !.done = TRUE, !.ok = ok])
              [] n < Len(queue) /\ v = queue[n + 1] -> Signalled(c[v])
              [] OTHER -> c[v]]
  BY DEF Leave
<1> HIDE DEF first
<1>9. call'[w] = AfterWrite(c[w], ok)
  BY <1>6, <1>8
<1>10. ASSUME NEW v \in Writer, v # w
       PROVE  \/ /\ \E i \in 1 .. n : v = queue[i]
                 /\ call'[v] = Signalled([c[v] EXCEPT !.done = TRUE, !.ok = ok])
              \/ call'[v] \in {c[v], Signalled(c[v])}
  <2>1. CASE v \in first
    <3>1. call'[v] = Signalled([c[v] EXCEPT !.done = TRUE, !.ok = ok])
      BY <1>6, <1>8, <1>10, <2>1
    <3> QED  BY <1>7, <2>1, <3>1
  <2>2. CASE v \notin first /\ n < Len(queue) /\ v = queue[n + 1]
    BY <1>8, <1>10, <2>2
  <2>3. CASE v \notin first /\ ~(n < Len(queue) /\ v = queue[n + 1])
    BY <1>8, <1>10, <2>3
  <2> QED  BY <2>1, <2>2, <2>3
<1> QED  BY <1>3, <1>4, <1>8, <1>9, <1>10 DEF HasLeft

\* Nobody writes when the front has left.
LEMMA NobodyWrites ==
    ASSUME BaseInv, NEW w \in Writer, call[w].pc \in FrontPcs, NEW n \in 1 .. Len(queue), NEW ok,
           NEW c \in {call, SignalAll(call)}, Leave(w, n, ok, c)
    PROVE  \A v \in Writer : call'[v].pc \notin WritePcs
<1>1. HasLeft(w, n, ok, c)
  BY LeaveEffect
<1>5. ASSUME NEW r \in {Idle} \cup CallOf, r.pc \notin FrontPcs, NEW k
      PROVE  Signalled(r).pc \notin WritePcs /\ Signalled([r EXCEPT !.done = TRUE, !.ok = k]).pc \notin WritePcs
  <2>1. [r EXCEPT !.done = TRUE, !.ok = k].pc = r.pc
    BY DEF Idle, CallOf
  <2>2. ASSUME NEW s, s.pc = r.pc, "pc" \in DOMAIN s  PROVE Signalled(s).pc \notin WritePcs
    <3>1. CASE s.pc = "asleep"
      <4>1. Signalled(s) = [s EXCEPT !.pc = "woken"]
        BY <3>1 DEF Signalled
      <4>2. [s EXCEPT !.pc = "woken"].pc = "woken"
        BY <2>2
      <4> QED  BY <4>1, <4>2 DEF WritePcs
    <3>2. CASE s.pc # "asleep"
      BY <1>5, <2>2, <3>2 DEF Signalled, WritePcs, FrontPcs
    <3> QED  BY <3>1, <3>2
  <2>3. "pc" \in DOMAIN r /\ "pc" \in DOMAIN [r EXCEPT !.done = TRUE, !.ok = k]
    BY DEF Idle, CallOf
  <2> QED  BY <2>1, <2>2, <2>3
<1>6. ASSUME NEW v \in Writer  PROVE call'[v].pc \notin WritePcs
  <2>1. CASE v = w
    <3>1. call'[v] = AfterWrite(c[w], ok) /\ c[w] \in {Idle} \cup CallOf
      BY <1>1, <2>1 DEF HasLeft
    <3>2. c[w] \in CallOf \/ c[w] = Idle
      BY <3>1
    <3>3. AfterWrite(c[w], ok) = Idle \/ AfterWrite(c[w], ok) = [c[w] EXCEPT !.pc = "flush"]
      BY DEF AfterWrite
    <3>4. [c[w] EXCEPT !.pc = "flush"].pc = "flush"
      BY <3>2 DEF CallOf, Idle
    <3>5. Idle.pc = "idle"
      BY DEF Idle
    <3>6. PICK a : a = AfterWrite(c[w], ok)
      OBVIOUS
    <3>7. a.pc \in {"idle", "flush"}
      BY <3>3, <3>4, <3>5, <3>6
    <3> QED  BY <3>1, <3>6, <3>7 DEF WritePcs
  <2>2. CASE v # w
    <3>1. c[v] \in {Idle} \cup CallOf /\ c[v].pc \notin FrontPcs
      BY <1>1, <2>2 DEF HasLeft
    <3>2. \/ call'[v] = Signalled([c[v] EXCEPT !.done = TRUE, !.ok = ok])
          \/ call'[v] = Signalled(c[v]) \/ call'[v] = c[v]
      BY <1>1, <2>2 DEF HasLeft
    <3> QED  BY <1>5, <3>1, <3>2 DEF WritePcs, FrontPcs
  <2> QED  BY <2>1, <2>2
<1> QED  BY <1>6

LEMMA NobodyWritten ==
    ASSUME \A v \in Writer : call'[v].pc \notin WritePcs
    PROVE  WrittenInv'
  BY DEF WrittenInv, WritePcs

\* One writer goes on, and what it shows of itself.
Moves(w, r) == queue' = queue /\ call'[w] = r /\ \A v \in Writer : v # w => call'[v] = call[v]

LEMMA OneGoesOn ==
    ASSUME BaseInv, NEW w \in Writer, NEW r, queue' = queue, call' = [call EXCEPT ![w] = r]
    PROVE  Moves(w, r)
<1>1. call \in [Writer -> {Idle} \cup CallOf]
  BY DEF BaseInv, QueueInv, Queued
<1> QED  BY <1>1 DEF Moves

LEMMA FrontMoves ==
    ASSUME BaseInv, NEW w \in Writer, call[w].pc \in FrontPcs, NEW r, Moves(w, r)
    PROVE  \A v \in Writer : v # w => call'[v].pc \notin FrontPcs
  BY FrontWrites DEF Moves

LEMMA WrittenStarted ==
    ASSUME BaseInv, NEW w \in Writer, call[w].pc = "room", queue' = queue,
           call' = [call EXCEPT ![w].pc = "log", ![w].group = GroupSize(w)]
    PROVE  WrittenInv'
<1> DEFINE r == [call[w] EXCEPT !.pc = "log", !.group = GroupSize(w)]
<1>1. /\ call[w] \in CallOf /\ queue # <<>> /\ w = Head(queue) /\ call[w].pc \in FrontPcs
      /\ Queued(queue, call) /\ queue \in Seq(Writer)
  BY FrontWrites DEF BaseInv, QueueInv, FrontPcs
<1>2. Moves(w, r)
  <2>1. call' = [call EXCEPT ![w] = r]
    BY <1>1 DEF Queued
  <2> QED  BY <2>1, OneGoesOn
<1>3. \A v \in Writer : v # w => call'[v].pc \notin FrontPcs
  BY <1>1, <1>2, FrontMoves
<1>4. call'[w].pc = "log" /\ call'[w].group = GroupSize(w) /\ call'[w].sync = call[w].sync
  <2>1. call'[w] = r
    BY <1>2 DEF Moves
  <2>2. r.pc = "log" /\ r.group = GroupSize(w) /\ r.sync = call[w].sync
    BY <1>1 DEF CallOf
  <2> HIDE DEF r
  <2> QED  BY <2>1, <2>2
<1>5. /\ GroupSize(w) \in 1 .. Len(queue)
      /\ \A i \in 2 .. GroupSize(w) : call[queue[i]].sync => call[w].sync
  BY <1>1, GroupIsQueued
<1>6. ASSUME NEW i \in 1 .. GroupSize(w), call'[queue[i]].sync  PROVE call[w].sync
  <2>1. CASE queue[i] = w
    BY <1>4, <1>6, <2>1
  <2>2. CASE queue[i] # w
    <3>1. queue[i] \in Writer /\ i # 1 /\ i \in 2 .. GroupSize(w)
      BY <1>1, <1>5, <2>2
    <3>2. call'[queue[i]] = call[queue[i]]
      BY <1>2, <2>2, <3>1 DEF Moves
    <3> QED  BY <1>5, <1>6, <3>1, <3>2
  <2> QED  BY <2>1, <2>2
<1>7. SyncedForAll(w)'
  BY <1>4, <1>6 DEF SyncedForAll
<1>8. ASSUME NEW v \in Writer
      PROVE  /\ call'[v].pc \in WritePcs => SyncedForAll(v)'
             /\ ~(call'[v].pc \in {"sync", "finish"} /\ call'[v].ok)
  <2>1. CASE v = w
    BY <1>4, <1>7, <2>1
  <2>2. CASE v # w
    BY <1>3, <2>2 DEF WritePcs, FrontPcs
  <2> QED  BY <2>1, <2>2
<1> QED  BY <1>8 DEF WrittenInv

\* The log of an open database.
LEMMA LogOpen ==
    ASSUME BaseInv, NumbersInv, db.up = "open"
    PROVE  /\ DiskTyped /\ db.logfile \in Nat /\ db.logfile \in DOMAIN disk.logs
           /\ disk.logs[db.logfile] \in LogOf /\ disk.logs[db.logfile] \in FileOf([ents : SUBSET Entry] \cup {Torn})
<1>1. DiskTyped /\ db.logfile \in Nat /\ db.logfile \in DOMAIN disk.logs
  BY FieldsOf DEF NumbersInv, LogsNumbered
<1>2. disk.logs[db.logfile] \in LogOf
  BY <1>1 DEF DiskTyped
<1> QED  BY <1>1, <1>2 DEF LogOf, FileOf

LEMMA LogChanged ==
    ASSUME BaseInv, NumbersInv, db.up = "open", NEW f, disk' = [disk EXCEPT !.logs[db.logfile] = f]
    PROVE  /\ DOMAIN disk'.logs = DOMAIN disk.logs /\ disk'.logs[db.logfile] = f
           /\ \A n \in DOMAIN disk.logs : n # db.logfile => disk'.logs[n] = disk.logs[n]
  BY LogOpen DEF DiskTyped

\* The record is written, or synced: the group is still the same.
LEMMA GroupWritten ==
    ASSUME BaseInv, NEW w \in Writer, call[w].pc \in {"log", "sync"}, NEW pc \in {"sync", "finish"},
           db' = db, queue' = queue, call' = [call EXCEPT ![w].pc = pc]
    PROVE  /\ call'[w].pc = pc /\ call'[w].sync = call[w].sync /\ call'[w].ok = call[w].ok
           /\ GroupEntries(w)' = GroupEntries(w) /\ (SyncedForAll(w) => SyncedForAll(w)')
           /\ \A v \in Writer : v # w => call'[v].pc \notin FrontPcs
<1> DEFINE r == [call[w] EXCEPT !.pc = pc]
<1>1. call[w] \in CallOf /\ call[w].pc \in FrontPcs /\ call[w].pc \in WritePcs
  BY WritingOpen DEF FrontPcs, WritePcs
<1>2. Moves(w, r)
  BY OneGoesOn
<1>3. \A v \in Writer : v # w => call'[v].pc \notin FrontPcs
  BY <1>1, <1>2, FrontMoves
<1>4. /\ call'[w].pc = pc /\ call'[w].sync = call[w].sync /\ call'[w].ok = call[w].ok
      /\ call'[w].id = call[w].id /\ call'[w].batch = call[w].batch /\ call'[w].group = call[w].group
  BY <1>1, <1>2 DEF Moves, CallOf
<1>5. \A u \in Range(queue) : u \in Writer
  BY DEF BaseInv, QueueInv, Queued, Range
<1>6. \A u \in Range(queue) : /\ call'[u].id = call[u].id /\ call'[u].batch = call[u].batch
                              /\ call'[u].sync = call[u].sync
  BY <1>2, <1>4, <1>5 DEF Moves
<1>7. \A i \in 1 .. Len(queue) : queue'[i] = queue[i]
  OBVIOUS
<1>8. GroupEntries(w)' = GroupEntries(w)
  BY <1>1, <1>4, <1>6, <1>7, GroupStays
<1>9. SyncedForAll(w) => SyncedForAll(w)'
  BY <1>1, <1>4, <1>6, <1>7, SyncedStays
<1> QED  BY <1>3, <1>4, <1>8, <1>9

LEMMA WrittenByOne ==
    ASSUME NEW w \in Writer, SyncedForAll(w)',
           call'[w].pc \in {"sync", "finish"} /\ call'[w].ok => Logged(w)',
           \A v \in Writer : v # w => call'[v].pc \notin FrontPcs
    PROVE  WrittenInv'
<1>1. ASSUME NEW v \in Writer
      PROVE  /\ call'[v].pc \in WritePcs => SyncedForAll(v)'
             /\ call'[v].pc \in {"sync", "finish"} /\ call'[v].ok => Logged(v)'
  <2>1. CASE v = w
    BY <2>1
  <2>2. CASE v # w
    BY <2>2 DEF WritePcs, FrontPcs
  <2> QED  BY <2>1, <2>2
<1> QED  BY <1>1 DEF WrittenInv

LEMMA WrittenOfAddRecord ==
    ASSUME BaseInv, NumbersInv, WrittenInv, NEW w \in Writer, AddRecord(w)
    PROVE  WrittenInv'
<1> DEFINE G == GroupEntries(w)
           f == disk.logs[db.logfile]
           r == [ents |-> G]
           pc == IF call[w].sync THEN "sync" ELSE "finish"
<1>1. /\ call[w].pc = "log" /\ db' = db /\ queue' = queue /\ call' = [call EXCEPT ![w].pc = pc]
      /\ disk' = [disk EXCEPT !.logs[db.logfile] = Appended(f, r)]
      /\ behind' = behind \cup IF \E t \in Range(f.recs) : IsTorn(t) THEN {e.id : e \in G} ELSE {}
  BY DEF AddRecord
<1>2. db.up = "open" /\ G \subseteq Entry /\ SyncedForAll(w)
  BY <1>1, WritingOpen, GroupTyped DEF WritePcs, WrittenInv
<1>3. /\ call'[w].pc = pc /\ call'[w].sync = call[w].sync
      /\ GroupEntries(w)' = G /\ SyncedForAll(w)' /\ \A v \in Writer : v # w => call'[v].pc \notin FrontPcs
  BY <1>1, <1>2, GroupWritten
<1>4. ~(call'[w].pc = "finish" /\ call'[w].sync)
  BY <1>3
<1> HIDE DEF G, pc
<1>5. r \in [ents : SUBSET Entry] \cup {Torn} /\ r.ents = G /\ ~IsTorn(r)
  BY <1>2, TornRecords
<1> HIDE DEF r
<1>6. f \in FileOf([ents : SUBSET Entry] \cup {Torn}) /\ f \in LogOf
  BY <1>2, LogOpen
<1>7. disk'.logs[db.logfile] = Appended(f, r)
  BY <1>1, <1>2, LogChanged
<1> HIDE DEF f
<1>8. CASE \E t \in Range(f.recs) : IsTorn(t)
  <2>1. \A e \in G : e.id \in behind'
    BY <1>1, <1>8
  <2>2. Logged(w)'
    BY <1>3, <2>1 DEF Logged
  <2> QED  BY <1>3, <2>2, WrittenByOne
<1>9. CASE ~ \E t \in Range(f.recs) : IsTorn(t)
  <2> DEFINE n == Len(f.recs) + 1
             g == Appended(f, r)
  <2>1. f.recs \in Seq([ents : SUBSET Entry] \cup {Torn}) /\ Len(f.recs) \in Nat /\ DOMAIN f.recs = 1 .. Len(f.recs)
    BY <1>6 DEF FileOf
  <2>2. \A i \in 1 .. Len(f.recs) : ~IsTorn(f.recs[i])
    BY <1>9, <2>1 DEF Range
  <2>3. /\ g.recs \in Seq([ents : SUBSET Entry] \cup {Torn}) /\ Len(g.recs) = n
        /\ \A i \in 1 .. Len(f.recs) : g.recs[i] = f.recs[i]
        /\ g.recs[n] = r
    <3>1. g \in FileOf([ents : SUBSET Entry] \cup {Torn})
      BY <1>5, <1>6, AppendedTyped
    <3>2. /\ Len(g.recs) = n /\ \A i \in 1 .. Len(f.recs) : g.recs[i] = f.recs[i]
          /\ g.recs[n] = r
      BY <1>5, <1>6, AppendedTyped
    <3> QED  BY <3>1, <3>2 DEF FileOf
  <2> HIDE DEF g
  <2>4. n \in Whole(g)
    <3>1. DOMAIN g.recs = 1 .. n /\ n \in 1 .. n
      BY <2>1, <2>3
    <3>2. \A j \in 1 .. n : ~IsTorn(g.recs[j])
      <4>1. ASSUME NEW j \in 1 .. n  PROVE j = n \/ j \in 1 .. Len(f.recs)
        BY <2>1
      <4> QED  BY <1>5, <2>2, <2>3, <4>1
    <3> QED  BY <3>1, <3>2 DEF Whole
  <2>5. G \subseteq g.recs[n].ents
    BY <1>5, <2>3
  <2>6. disk'.logs[db'.logfile] = g
    BY <1>1, <1>7 DEF g
  <2>7. Logged(w)'
    BY <1>3, <1>4, <2>4, <2>5, <2>6 DEF Logged
  <2> QED  BY <1>3, <2>7, WrittenByOne
<1> QED  BY <1>8, <1>9

LEMMA WrittenOfSyncLog ==
    ASSUME BaseInv, NumbersInv, WrittenInv, NEW w \in Writer, SyncLog(w)
    PROVE  WrittenInv'
<1> DEFINE f == disk.logs[db.logfile]
<1>1. /\ call[w].pc = "sync" /\ db' = db /\ queue' = queue /\ call' = [call EXCEPT ![w].pc = "finish"]
      /\ disk' = [disk EXCEPT !.logs[db.logfile] = Synced(f)] /\ behind' = behind
  BY DEF SyncLog
<1>2. db.up = "open" /\ SyncedForAll(w) /\ (call[w].ok => Logged(w))
  BY <1>1, WritingOpen DEF WritePcs, WrittenInv
<1>3. /\ call'[w].ok = call[w].ok
      /\ GroupEntries(w)' = GroupEntries(w) /\ SyncedForAll(w)'
      /\ \A v \in Writer : v # w => call'[v].pc \notin FrontPcs
  BY <1>1, <1>2, GroupWritten
<1>4. f \in FileOf([ents : SUBSET Entry] \cup {Torn})
  BY <1>2, LogOpen
<1>5. disk'.logs[db'.logfile] = Synced(f)
  BY <1>1, <1>2, LogChanged
<1>6. /\ Synced(f).recs = f.recs /\ Synced(f).synced = Len(f.recs) /\ f.recs \in Seq([ents : SUBSET Entry] \cup {Torn})
  BY <1>4, SyncedTyped DEF FileOf
<1>7. Whole(Synced(f)) = Whole(f) /\ \A i \in Whole(f) : i <= Len(f.recs)
  BY <1>6, WholeRecords DEF Whole
<1>8. ASSUME call[w].ok  PROVE Logged(w)'
  <2>1. CASE \A e \in GroupEntries(w) : e.id \in behind
    BY <1>1, <1>3, <2>1 DEF Logged
  <2>2. CASE ~ \A e \in GroupEntries(w) : e.id \in behind
    <3>1. PICK i \in Whole(f) : GroupEntries(w) \subseteq f.recs[i].ents
      BY <1>2, <1>8, <2>2 DEF Logged
    <3> HIDE DEF f
    <3>2. PICK g : g = Synced(f)
      OBVIOUS
    <3>3. i \in Whole(g) /\ i <= g.synced /\ GroupEntries(w) \subseteq g.recs[i].ents
      BY <1>6, <1>7, <3>1, <3>2
    <3> QED  BY <1>3, <1>5, <3>2, <3>3 DEF Logged
  <2> QED  BY <2>1, <2>2
<1> QED  BY <1>3, <1>8, WrittenByOne

LEMMA WrittenOfThread ==
    ASSUME BaseInv, NumbersInv, WrittenInv, NEW w \in Writer, Thread(w)
    PROVE  WrittenInv'
<1>0. Queued(queue, call) /\ queue \in Seq(Writer) /\ Len(queue) \in Nat
      /\ \A u \in Range(queue) : u \in Writer
  BY DEF BaseInv, QueueInv, Queued, Range
<1>1. ASSUME NEW n \in 1 .. Len(queue), NEW ok, NEW c \in {call, SignalAll(call)}, call[w].pc \in FrontPcs,
             Leave(w, n, ok, c)
      PROVE  WrittenInv'
  <2>1. \A v \in Writer : call'[v].pc \notin WritePcs
    BY <1>1, NobodyWrites
  <2> QED  BY <2>1, NobodyWritten
<1>2. CASE RoomError(w) \/ NewLogFails(w)
  <2>1. call[w].pc \in FrontPcs /\ Leave(w, 1, FALSE, call)
    BY <1>2 DEF RoomError, NewLogFails, FrontPcs
  <2>2. 1 \in 1 .. Len(queue)
    BY <2>1, FrontWrites
  <2> QED  BY <1>1, <2>1, <2>2
<1>3. CASE Delay(w) \/ WaitForRoom(w)
  <2>1. PICK r \in {[call[w] EXCEPT !.delay = FALSE], [call[w] EXCEPT !.pc = "roomwait"]} :
            call[w].pc = "room" /\ queue' = queue /\ call' = [call EXCEPT ![w] = r]
    BY <1>3 DEF Delay, WaitForRoom
  <2>2. Moves(w, r) /\ call[w].pc \in FrontPcs /\ call[w] \in CallOf
    BY <2>1, OneGoesOn, WritingOpen DEF FrontPcs
  <2>3. \A v \in Writer : v # w => call'[v].pc \notin FrontPcs
    BY <2>2, FrontMoves
  <2>4. r.pc \in {"room", "roomwait"}
    BY <2>1, <2>2 DEF CallOf
  <2>5. call'[w].pc \notin WritePcs
    BY <2>2, <2>4 DEF Moves, WritePcs
  <2>6. \A v \in Writer : call'[v].pc \notin WritePcs
    BY <2>3, <2>5 DEF WritePcs, FrontPcs
  <2> QED  BY <2>6, NobodyWritten
<1>4. CASE TakeRoom(w)
  BY <1>4, WrittenStarted DEF TakeRoom
<1>5. CASE SwitchMemTable(w)
  <2>1. CASE call[w].batch
    BY <1>5, <2>1, WrittenStarted DEF SwitchMemTable
  <2>2. CASE ~call[w].batch
    <3>1. call[w].pc \in FrontPcs /\ Leave(w, 1, TRUE, call)
      BY <1>5, <2>2 DEF SwitchMemTable, FrontPcs
    <3>2. 1 \in 1 .. Len(queue)
      BY <3>1, FrontWrites
    <3> QED  BY <1>1, <3>1, <3>2
  <2> QED  BY <2>1, <2>2
<1>6. CASE AddRecord(w)
  BY <1>6, WrittenOfAddRecord
<1>7. CASE SyncLog(w)
  BY <1>7, WrittenOfSyncLog
<1>8. CASE Finish(w)
  <2>1. call[w].pc \in FrontPcs /\ call[w].pc \in WritePcs
    BY <1>8 DEF Finish, FrontPcs, WritePcs
  <2>2. call[w].group \in 1 .. Len(queue)
    BY <2>1, FrontWrites
  <2>3. Leave(w, call[w].group, call[w].ok, call) \/ Leave(w, call[w].group, FALSE, SignalAll(call))
    BY <1>8 DEF Finish
  <2> QED  BY <1>1, <2>1, <2>2, <2>3
<1>9. ASSUME NEW r, queue' = queue, call' = [call EXCEPT ![w] = r], db' = db, behind' = behind,
             w \in Range(queue) => r.id = call[w].id /\ r.batch = call[w].batch /\ r.sync = call[w].sync,
             r.pc \in WritePcs => call[w].pc \in WritePcs /\ r.group = call[w].group,
             ~(r.pc \in {"sync", "finish"} /\ r.ok),
             disk' = disk \/ call[w].pc \in WritePcs
      PROVE  WrittenInv'
  <2>1. Moves(w, r)
    BY <1>9, OneGoesOn
  <2>2. ASSUME NEW v \in Writer, call'[v].pc \in {"sync", "finish"}, call'[v].ok
        PROVE  /\ call[v].pc = call'[v].pc /\ call[v].ok
               /\ disk'.logs[db.logfile] = disk.logs[db.logfile]
    <3>1. v # w /\ call'[v] = call[v]
      BY <1>9, <2>1, <2>2 DEF Moves
    <3>2. disk' = disk
      <4>1. CASE call[w].pc \in WritePcs
        <5>1. call[w].pc \in FrontPcs /\ call[v].pc \in FrontPcs
          BY <2>2, <3>1, <4>1 DEF WritePcs, FrontPcs
        <5> QED  BY <3>1, <5>1, FrontWrites
      <4> QED  BY <1>9, <4>1
    <3> QED  BY <3>1, <3>2, <2>2
  <2>3. \A v \in Writer : call'[v].pc \in WritePcs => call[v].pc \in WritePcs /\ call'[v].group = call[v].group
    BY <1>9, <2>1 DEF Moves
  <2>4. \A u \in Range(queue) : /\ call'[u].id = call[u].id /\ call'[u].batch = call[u].batch
                                /\ call'[u].sync = call[u].sync
    BY <1>0, <1>9, <2>1 DEF Moves
  <2>5. \A i \in 1 .. Len(queue) : queue'[i] = queue[i]
    BY <1>9
  <2> QED  BY <1>9, <2>2, <2>3, <2>4, <2>5, WrittenKept
<1>10. CASE AddRecordFails(w) \/ SyncLogFails(w)
  <2>1. PICK pc \in {"finish", "syncerror"} :
            /\ call[w].pc \in {"log", "sync"} /\ UNCHANGED <<db, queue, behind>>
            /\ call' = [call EXCEPT ![w].pc = pc, ![w].ok = FALSE]
    BY <1>10 DEF AddRecordFails, SyncLogFails
  <2> DEFINE r == [call[w] EXCEPT !.pc = pc, !.ok = FALSE]
  <2>2. call[w] \in CallOf /\ call[w].pc \in WritePcs
    BY <2>1, WritingOpen DEF WritePcs
  <2>3. call' = [call EXCEPT ![w] = r]
    BY <1>0, <2>1 DEF Queued
  <2>4. /\ r.id = call[w].id /\ r.batch = call[w].batch /\ r.sync = call[w].sync /\ r.group = call[w].group
        /\ r.ok = FALSE
    BY <2>2 DEF CallOf
  <2> HIDE DEF r
  <2>5. queue' = queue /\ db' = db /\ behind' = behind
    BY <2>1
  <2> QED  BY <1>9, <2>2, <2>3, <2>4, <2>5
<1>11. CASE Wake(w)
  <2>1. /\ call[w].pc = "woken" /\ call[w] \in CallOf /\ WriterOK(queue, w, call[w])
        /\ UNCHANGED <<disk, db, queue, behind>>
    BY <1>0, <1>11, WritingOpen DEF Wake, Queued
  <2>2. CASE call[w].done
    <3> DEFINE r == AfterWrite(call[w], call[w].ok)
    <3>1. call' = [call EXCEPT ![w] = r] /\ w \notin Range(queue)
      BY <1>11, <2>1, <2>2 DEF Wake, WriterOK, InQueue, FrontPcs
    <3>2. r.pc \in {"idle", "flush"}
      BY <2>1 DEF AfterWrite, Idle, CallOf
    <3> HIDE DEF r
    <3>3. r.pc \notin WritePcs /\ ~(r.pc \in {"sync", "finish"} /\ r.ok)
      BY <3>2 DEF WritePcs
    <3> QED  BY <1>9, <2>1, <3>1, <3>3
  <2>3. CASE ~call[w].done
    <3> DEFINE pc == IF Head(queue) = w THEN "room" ELSE "asleep"
               r == [call[w] EXCEPT !.pc = pc]
    <3>1. call' = [call EXCEPT ![w] = r]
      BY <1>11, <2>3 DEF Wake
    <3>2. r.pc \in {"room", "asleep"} /\ r.id = call[w].id /\ r.batch = call[w].batch /\ r.sync = call[w].sync
      BY <2>1 DEF CallOf
    <3> HIDE DEF r
    <3>3. r.pc \notin WritePcs /\ ~(r.pc \in {"sync", "finish"} /\ r.ok)
      BY <3>2 DEF WritePcs
    <3> QED  BY <1>9, <2>1, <3>1, <3>2, <3>3
  <2> QED  BY <2>2, <2>3
<1>12. CASE WaitForFlush(w)
  <2>1. /\ call[w].pc = "flush" /\ call[w] \in CallOf /\ WriterOK(queue, w, call[w])
        /\ UNCHANGED <<disk, db, queue, behind>>
    BY <1>0, <1>12, WritingOpen DEF WaitForFlush, Queued
  <2>2. PICK r \in {Idle, [call[w] EXCEPT !.pc = "flushwait"]} : call' = [call EXCEPT ![w] = r]
    BY <1>12 DEF WaitForFlush
  <2>3. r.pc \in {"idle", "flushwait"} /\ w \notin Range(queue)
    BY <2>1, <2>2 DEF CallOf, Idle, WriterOK, InQueue, FrontPcs
  <2>4. r.pc \notin WritePcs /\ ~(r.pc \in {"sync", "finish"} /\ r.ok)
    BY <2>3 DEF WritePcs
  <2> QED  BY <1>9, <2>1, <2>2, <2>3, <2>4
<1> QED  BY <1>2, <1>3, <1>4, <1>5, <1>6, <1>7, <1>8, <1>10, <1>11, <1>12 DEF Thread

LEMMA WrittenOfCall ==
    ASSUME BaseInv, WrittenInv, NEW w \in Writer, NEW sync \in BOOLEAN, NEW batch \in BOOLEAN, Call(w, sync, batch)
    PROVE  WrittenInv'
<1>1. /\ call[w].pc = "idle" /\ queue' = Append(queue, w) /\ UNCHANGED <<disk, db, behind>>
      /\ \A v \in Writer : v # w => call'[v] = call[v]
      /\ call'[w].pc \in {"room", "asleep"}
  <2>1. call \in [Writer -> {Idle} \cup CallOf]
    BY DEF BaseInv, QueueInv, Queued
  <2> QED  BY <2>1 DEF Call
<1>2. queue \in Seq(Writer) /\ w \notin Range(queue) /\ \A u \in Range(queue) : u \in Writer
  <2>1. WriterOK(queue, w, call[w]) /\ queue \in Seq(Writer)
    BY DEF BaseInv, QueueInv, Queued
  <2> QED  BY <1>1, <2>1 DEF WriterOK, InQueue, FrontPcs, Range
<1>3. \A i \in 1 .. Len(queue) : queue'[i] = queue[i]
  BY <1>1, <1>2, AppendProperties
<1>4. \A u \in Range(queue) : /\ call'[u].id = call[u].id /\ call'[u].batch = call[u].batch
                              /\ call'[u].sync = call[u].sync
  BY <1>1, <1>2
<1>5. \A v \in Writer : call'[v].pc \in WritePcs => call[v].pc \in WritePcs /\ call'[v].group = call[v].group
  BY <1>1 DEF WritePcs
<1>6. \A v \in Writer : call'[v].pc \in {"sync", "finish"} /\ call'[v].ok =>
          call[v].pc = call'[v].pc /\ call[v].ok /\ disk'.logs[db.logfile] = disk.logs[db.logfile]
  BY <1>1
<1> QED  BY <1>1, <1>3, <1>4, <1>5, <1>6, WrittenKept

\* Until the manifest is written the background thread only adds a table.
BackgroundAdds ==
    /\ disk'.logs = disk.logs /\ disk'.manifests = disk.manifests
    /\ \A n \in DOMAIN disk.tables : n \in DOMAIN disk'.tables /\ disk'.tables[n] = disk.tables[n]
    /\ db'.version = db.version /\ db'.logNumber = db.logNumber /\ db'.imm = db.imm

LEMMA TableAdded ==
    ASSUME DiskTyped, NEW n, NEW ents, n \notin DOMAIN disk.tables,
           disk' = [disk EXCEPT !.tables = With(disk.tables, n, ents)]
    PROVE  /\ disk'.logs = disk.logs /\ disk'.manifests = disk.manifests /\ disk'.current = disk.current
           /\ \A k \in DOMAIN disk.tables : k \in DOMAIN disk'.tables /\ disk'.tables[k] = disk.tables[k]
<1>1. /\ disk'.logs = disk.logs /\ disk'.manifests = disk.manifests /\ disk'.current = disk.current
      /\ disk'.tables = With(disk.tables, n, ents)
  BY DEF DiskTyped
<1>2. PICK T, U : T = disk.tables /\ U = disk'.tables
  OBVIOUS
<1>3. U = With(T, n, ents) /\ n \notin DOMAIN T
  BY <1>1, <1>2
<1>4. \A k \in DOMAIN T : k \in DOMAIN U /\ U[k] = T[k]
  BY <1>3 DEF With
<1> QED  BY <1>1, <1>2, <1>4

LEMMA BackgroundFrame ==
    ASSUME BaseInv, FilesInv, Background
    PROVE  /\ db'.logfile = db.logfile /\ db'.lastSeq = db.lastSeq /\ db'.mem = db.mem
           /\ db'.manifest = db.manifest /\ disk'.current = disk.current
           /\ BackgroundAdds \/ WriteManifest \/ WriteManifestFails \/ InstallVersion
<1>0. DiskTyped /\ WorkInv
  BY FieldsOf DEF FilesInv
<1>1. ASSUME NEW next, NEW pending, NEW error,
             DbIs(next, pending, db.version, db.logNumber, db.imm, error),
             \/ disk' = disk
             \/ \E n, ents : /\ n \notin DOMAIN disk.tables
                             /\ disk' = [disk EXCEPT !.tables = With(disk.tables, n, ents)]
      PROVE  /\ db'.logfile = db.logfile /\ db'.lastSeq = db.lastSeq /\ db'.mem = db.mem
             /\ db'.manifest = db.manifest /\ disk'.current = disk.current /\ BackgroundAdds
  <2>1. /\ db'.logfile = db.logfile /\ db'.lastSeq = db.lastSeq /\ db'.mem = db.mem /\ db'.manifest = db.manifest
        /\ db'.version = db.version /\ db'.logNumber = db.logNumber /\ db'.imm = db.imm
    BY <1>1 DEF DbIs
  <2>2. /\ disk'.logs = disk.logs /\ disk'.manifests = disk.manifests /\ disk'.current = disk.current
        /\ \A k \in DOMAIN disk.tables : k \in DOMAIN disk'.tables /\ disk'.tables[k] = disk.tables[k]
    BY <1>0, <1>1, TableAdded
  <2> QED  BY <2>1, <2>2 DEF BackgroundAdds
<1>2. CASE NothingToDo
  BY <1>1, <1>2, NothingToDoEffect
<1>3. CASE StartFlush
  BY <1>1, <1>3, StartFlushEffect
<1>4. CASE BuildTable
  <2>1. /\ bg.pc = "build"
        /\ DbIs(db.nextFile, db.pending \ {bg.num}, db.version, db.logNumber, db.imm, db.error)
        /\ disk' = disk \/ disk' = [disk EXCEPT !.tables = With(disk.tables, bg.num, db.imm[1])]
    BY <1>4, BuildTableEffect
  <2>2. bg.num \notin DOMAIN disk.tables
    BY <1>0, <2>1 DEF WorkInv
  <2> QED  BY <1>1, <2>1, <2>2
<1>5. CASE BuildTableFails
  BY <1>1, <1>5, BuildTableFailsEffect
<1>6. CASE StartMove
  BY <1>1, <1>6, StartMoveEffect
<1>7. CASE StartCompaction
  BY <1>1, <1>7, StartCompactionEffect
<1>8. CASE OpenOutput
  BY <1>1, <1>8, OpenOutputEffect
<1>9. CASE WriteOutput
  <2> DEFINE ents == UNION {disk.tables[n] : n \in Numbers(bg.inputs)}
  <2>1. PICK k \in Nat : /\ bg.out = {k} /\ ~bg.written
                         /\ disk' = [disk EXCEPT !.tables = With(disk.tables, k, ents)]
                         /\ DbIs(db.nextFile, db.pending, db.version, db.logNumber, db.imm, db.error)
    BY <1>9, WriteOutputEffect
  <2>2. k \notin DOMAIN disk.tables
    BY <1>0, <2>1 DEF WorkInv
  <2> QED  BY <1>1, <2>1, <2>2
<1>10. CASE EndWork
  BY <1>1, <1>10, EndWorkEffect
<1>11. CASE WorkFails
  BY <1>1, <1>11, WorkFailsEffect
<1>12. CASE WriteManifest
  <2>1. DbIs(db.nextFile, db.pending, db.version, db.logNumber, db.imm, db.error)
        /\ \E m : disk' = [disk EXCEPT !.manifests[db.manifest] = m]
    BY <1>12, WriteManifestEffect
  <2>2. disk'.current = disk.current
    BY <1>0, <2>1 DEF DiskTyped
  <2> QED  BY <1>12, <2>1, <2>2 DEF DbIs
<1>13. CASE WriteManifestFails
  <2>1. /\ \E p : DbIs(db.nextFile, p, db.version, db.logNumber, db.imm, TRUE)
        /\ disk' = disk \/ \E m : disk' = [disk EXCEPT !.manifests[db.manifest] = m]
    BY <1>13, WriteManifestFailsEffect
  <2>2. disk'.current = disk.current
    BY <1>0, <2>1 DEF DiskTyped
  <2> QED  BY <1>13, <2>1, <2>2 DEF DbIs
<1>14. CASE InstallVersion
  BY <1>14, InstallVersionEffect DEF DbIs
<1> QED  BY <1>2, <1>3, <1>4, <1>5, <1>6, <1>7, <1>8, <1>9, <1>10, <1>11, <1>12, <1>13, <1>14 DEF Background

\* The logs that are still needed are left alone.
LEMMA BackgroundLogs ==
    ASSUME BaseInv, FilesInv, Background
    PROVE  \A n \in DOMAIN disk.logs : n >= db'.logNumber =>
               n \in DOMAIN disk'.logs /\ disk'.logs[n] = disk.logs[n]
<1>0. DiskTyped
  BY FieldsOf
<1>1. CASE BackgroundAdds
  BY <1>1 DEF BackgroundAdds
<1>2. CASE WriteManifest \/ WriteManifestFails
  <2>1. disk' = disk \/ \E m : disk' = [disk EXCEPT !.manifests[db.manifest] = m]
    BY <1>2, WriteManifestEffect, WriteManifestFailsEffect
  <2> QED  BY <1>0, <2>1 DEF DiskTyped
<1>3. CASE InstallVersion
  <2>1. disk' = disk \/ \E held : FilesLeft(held)
    BY <1>3, InstallVersionEffect
  <2>2. \A held : FilesLeft(held) =>
            \A n \in DOMAIN disk.logs : n >= db'.logNumber =>
                n \in DOMAIN disk'.logs /\ disk'.logs[n] = disk.logs[n]
    BY DEF FilesLeft
  <2> QED  BY <2>1, <2>2
<1> QED  BY <1>1, <1>2, <1>3, BackgroundFrame

LEMMA WrittenOfBackground ==
    ASSUME BaseInv, NumbersInv, NumbersInv', FilesInv, WrittenInv, Background
    PROVE  WrittenInv'
<1>1. /\ db.up = "open" /\ db'.up = "open" /\ queue' = queue /\ call' \in {call, SignalAll(call)}
      /\ behind' = behind /\ call \in [Writer -> {Idle} \cup CallOf] /\ queue \in Seq(Writer)
  BY BackgroundOpen DEF BaseInv, QueueInv, Queued
<1>2. db'.logfile = db.logfile /\ db'.lastSeq = db.lastSeq
  BY BackgroundFrame
<1>3. disk'.logs[db.logfile] = disk.logs[db.logfile]
  <2>1. db.logfile \in DOMAIN disk.logs
    BY <1>1, LogOpen
  <2>2. db'.logNumber <= db'.logfile
    BY <1>1 DEF NumbersInv, LogsNumbered
  <2>3. db'.logNumber \in Int /\ db'.logfile \in Int
    <3>1. BaseInv'
      BY BaseStep DEF Next
    <3>2. db' \in DbOf
      BY <3>1 DEF BaseInv, TypeInv
    <3> QED  BY <3>2 DEF DbOf
  <2>4. db.logfile >= db'.logNumber
    BY <1>2, <2>2, <2>3
  <2> QED  BY <2>1, <2>4, BackgroundLogs
<1>4. ASSUME NEW v \in Writer
      PROVE  /\ v \in Range(queue) => /\ call'[v].id = call[v].id /\ call'[v].batch = call[v].batch
                                      /\ call'[v].sync = call[v].sync
             /\ call'[v].pc \in WritePcs => call'[v] = call[v]
  <2>1. CASE call'[v] = call[v]
    BY <2>1
  <2>2. CASE call'[v] # call[v]
    <3>1. call' = SignalAll(call) /\ call[v].pc \in {"roomwait", "flushwait"}
      BY <1>1, <2>2 DEF SignalAll
    <3>2. PICK pc \in {"room", "flush"} : call'[v] = [call[v] EXCEPT !.pc = pc]
      BY <3>1 DEF SignalAll
    <3>3. call[v] \in CallOf
      BY <1>1, <3>1 DEF Idle
    <3>4. call'[v].pc = pc /\ call'[v].id = call[v].id /\ call'[v].batch = call[v].batch /\ call'[v].sync = call[v].sync
      BY <3>2, <3>3 DEF CallOf
    <3> QED  BY <3>4 DEF WritePcs
  <2> QED  BY <2>1, <2>2
<1>5. \A u \in Range(queue) : /\ call'[u].id = call[u].id /\ call'[u].batch = call[u].batch
                              /\ call'[u].sync = call[u].sync
  <2>1. \A u \in Range(queue) : u \in Writer
    BY <1>1 DEF Range
  <2> QED  BY <1>4, <2>1
<1>6. \A i \in 1 .. Len(queue) : queue'[i] = queue[i]
  BY <1>1
<1>7. \A v \in Writer : call'[v].pc \in WritePcs => call[v].pc \in WritePcs /\ call'[v].group = call[v].group
  BY <1>4
<1>8. \A v \in Writer : call'[v].pc \in {"sync", "finish"} /\ call'[v].ok =>
          call[v].pc = call'[v].pc /\ call[v].ok /\ disk'.logs[db.logfile] = disk.logs[db.logfile]
  BY <1>3, <1>4 DEF WritePcs
<1> QED  BY <1>1, <1>2, <1>5, <1>6, <1>7, <1>8, WrittenKept

LEMMA WrittenSame ==
    ASSUME WrittenInv, UNCHANGED <<disk, db, queue, call, behind>>
    PROVE  WrittenInv'
<1>1. \A w \in Writer : GroupEntries(w)' = GroupEntries(w)
  BY DEF GroupEntries, Batched
<1>2. \A w \in Writer : SyncedForAll(w)' = SyncedForAll(w) /\ Logged(w)' = Logged(w)
  BY <1>1 DEF SyncedForAll, Logged
<1> QED  BY <1>2 DEF WrittenInv

LEMMA WrittenStep ==
    BaseInv /\ BaseInv' /\ NumbersInv /\ NumbersInv' /\ FilesInv /\ WrittenInv /\ [Next]_vars => WrittenInv'
<1> SUFFICES ASSUME BaseInv, BaseInv', NumbersInv, NumbersInv', FilesInv, WrittenInv, [Next]_vars
             PROVE  WrittenInv'
  OBVIOUS
<1>1. CASE \E w \in Writer : Thread(w)
  BY <1>1, WrittenOfThread
<1>2. CASE \E w \in Writer : \E sync, batch \in BOOLEAN : Call(w, sync, batch)
  BY <1>2, WrittenOfCall
<1>3. CASE Background
  BY <1>3, WrittenOfBackground
<1>4. CASE Open
  <2>1. db.up # "open" /\ call' = call
    BY <1>4 DEF Open, NewDB, Recover, RecoverLog, NewManifest, SetCurrent
  <2>2. \A w \in Writer : call'[w].pc = "idle"
    BY <2>1 DEF BaseInv, QueueInv, Idle
  <2>3. \A w \in Writer : call'[w].pc \notin WritePcs
    BY <2>2 DEF WritePcs
  <2> QED  BY <2>3, NobodyWritten
<1>5. CASE PinVersion \/ UnpinVersion \/ UNCHANGED vars
  <2>1. UNCHANGED <<disk, db, queue, call, behind>>
    BY <1>5 DEF PinVersion, UnpinVersion, vars
  <2> QED  BY <2>1, WrittenSame
<1>6. CASE ProcessCrash \/ MachineCrash
  <2>0. db'.up = "down"
    BY <1>6, CrashEffect
  <2>1. \A w \in Writer : call'[w].pc = "idle"
    BY <2>0 DEF BaseInv, QueueInv, Idle
  <2>2. \A w \in Writer : call'[w].pc \notin WritePcs
    BY <2>1 DEF WritePcs
  <2> QED  BY <2>2, NobodyWritten
<1> QED  BY <1>1, <1>2, <1>3, <1>4, <1>5, <1>6 DEF Next

LEMMA InitWritten == Init => WrittenInv
<1> SUFFICES ASSUME Init  PROVE WrittenInv
  OBVIOUS
<1>1. \A w \in Writer : call[w].pc = "idle"
  BY DEF Init, Idle
<1> QED  BY <1>1 DEF WrittenInv, WritePcs

\* The promises: OKs that were given, and those a writer that was written for has
\* yet to give; what is behind a torn record is no promise of theirs.
Told(w)      == call[w].pc = "woken" /\ call[w].done /\ call[w].ok /\ call[w].batch
PromiseOf(w) == [id |-> call[w].id, sync |-> call[w].sync]
Promised     == owed \cup {PromiseOf(w) : w \in {w \in Writer : Told(w)}}

\* What Open makes of a manifest, its tables and the logs, and what crashes leave:
\* a write not to be synced is in the manifest as it is.
Recoverable(o, c, tables, logs) ==
    InTables(o, VersionOf(c), tables) \/ InLogs(o, LastEdit(c).log, logs)
Durable(o, m, tables, logs) ==
    \A c \in Kept(m) : Readable(c) /\ (o.sync \/ c.synced = Len(m.recs)) => Recoverable(o, c, tables, logs)

\* While the database is open, and while it is being opened.
Held(o) ==
    \/ InTables(o, db.version, disk.tables)
    \/ Holds(Frozen, o) /\ InLogs(o, db.logNumber, disk.logs)
    \/ Holds(db.mem, o) /\ InLogs(o, db.logfile, disk.logs)
ReadAgain(o) ==
    \/ InTables(o, db.version, disk.tables)
    \/ db.up = "logs" /\ \E n \in LogsToRecover : InLog(o, disk.logs[n])

PromiseKept(o) ==
    /\ disk.current \notin {0, 1} =>
           Durable(o, disk.manifests[disk.current], disk.tables, disk.logs)
    /\ db.up \in {"logs", "current"} => ReadAgain(o)
    /\ db.up = "open" => Held(o)

PromiseInv ==
    /\ 0 \notin DOMAIN disk.logs
    /\ disk.current \in {0, 1} => Promised = {}
    /\ \A o \in Promised : o.id \notin behind => PromiseKept(o)

LEMMA PromisesKept ==
    ASSUME PromiseInv, 0 \notin DOMAIN disk'.logs, Promised' \subseteq Promised, behind \subseteq behind',
           disk'.current \in {0, 1} => disk.current \in {0, 1},
           \A o \in Promised' : disk.current \notin {0, 1} /\ PromiseKept(o) => PromiseKept(o)'
    PROVE  PromiseInv'
<1>1. disk'.current \in {0, 1} => Promised' = {}
  BY DEF PromiseInv
<1>2. ASSUME NEW o \in Promised', o.id \notin behind'
      PROVE  PromiseKept(o)'
  <2>1. o \in Promised /\ o.id \notin behind
    BY <1>2
  <2>2. disk.current \notin {0, 1} /\ PromiseKept(o)
    BY <2>1 DEF PromiseInv
  <2> QED  BY <1>2, <2>2
<1> QED  BY <1>1, <1>2 DEF PromiseInv

\* Logs that keep a write, from one of them on.
LogsKept(o, from, L, M) ==
    \A n \in DOMAIN L : n >= from => n \in DOMAIN M /\ (InLog(o, L[n]) => InLog(o, M[n]))

LEMMA DurableKept ==
    ASSUME NEW o, NEW m \in ManifestOf, NEW T, NEW L, DOMAIN L \subseteq Nat, Durable(o, m, T, L), NEW U, NEW M,
           \A c \in Kept(m) : Readable(c) =>
               /\ Content(Numbers(VersionOf(c)), T) \subseteq Content(Numbers(VersionOf(c)), U)
               /\ LogsKept(o, LastEdit(c).log, L, M)
    PROVE  Durable(o, m, U, M)
<1> SUFFICES ASSUME NEW c \in Kept(m), Readable(c), o.sync \/ c.synced = Len(m.recs)
             PROVE  Recoverable(o, c, U, M)
  BY DEF Durable
<1>1. Recoverable(o, c, T, L)
  BY DEF Durable
<1>2. CASE InTables(o, VersionOf(c), T)
  <2>1. InTables(o, VersionOf(c), U)
    BY <1>2, InTablesMore
  <2> QED  BY <2>1 DEF Recoverable
<1>3. CASE InLogs(o, LastEdit(c).log, L)
  <2>1. LastEdit(c).log \in Nat
    BY KeptEdit
  <2>2. PICK n \in DOMAIN L : n >= LastEdit(c).log /\ InLog(o, L[n])
    BY <1>3 DEF InLogs
  <2>3. InLogs(o, LastEdit(c).log, M)
    BY <2>2 DEF InLogs, LogsKept
  <2> QED  BY <2>3 DEF Recoverable
<1> QED  BY <1>1, <1>2, <1>3 DEF Recoverable

LEMMA LogsKeptMore ==
    ASSUME NEW o, NEW L, NEW M, DOMAIN L \subseteq Nat, NEW from \in Nat, NEW to \in Nat, to <= from,
           LogsKept(o, to, L, M)
    PROVE  LogsKept(o, from, L, M) /\ (InLogs(o, from, L) => InLogs(o, from, M))
<1>1. \A n \in DOMAIN L : n >= from => n >= to
  OBVIOUS
<1> QED  BY <1>1 DEF LogsKept, InLogs

\* Nothing is lost where tables are added and no log loses the write.
LEMMA DurableMore ==
    ASSUME NEW o, NEW m \in ManifestOf, NEW T, NEW L, DOMAIN L \subseteq Nat, Durable(o, m, T, L), NEW U, NEW M,
           \A n \in DOMAIN T : n \in DOMAIN U /\ U[n] = T[n], LogsKept(o, 0, L, M)
    PROVE  Durable(o, m, U, M)
<1>1. ASSUME NEW c \in Kept(m), Readable(c)
      PROVE  /\ Content(Numbers(VersionOf(c)), T) \subseteq Content(Numbers(VersionOf(c)), U)
             /\ LogsKept(o, LastEdit(c).log, L, M)
  <2>1. LastEdit(c).log \in Nat
    BY <1>1, KeptEdit
  <2>2. LogsKept(o, LastEdit(c).log, L, M)
    BY <2>1, LogsKeptMore
  <2> QED  BY <2>2, ContentMore
<1> QED  BY <1>1, DurableKept

\* Who is promised what by the steps of writers.
LEMMA PromisedMoved ==
    ASSUME NEW w \in Writer, owed' = owed, \A v \in Writer : v # w => call'[v] = call[v], call'[w].pc # "woken"
    PROVE  Promised' \subseteq Promised
<1>1. ASSUME NEW v \in Writer, Told(v)'
      PROVE  Told(v) /\ PromiseOf(v)' = PromiseOf(v)
  <2>1. v # w
    BY <1>1 DEF Told
  <2>2. call'[v] = call[v]
    BY <2>1
  <2> QED  BY <1>1, <2>2 DEF Told, PromiseOf
<1> QED  BY <1>1 DEF Promised

LEMMA PromisedSame ==
    ASSUME UNCHANGED <<call, owed>>
    PROVE  Promised' = Promised
<1>1. UNCHANGED call /\ UNCHANGED owed
  OBVIOUS
<1> QED  BY <1>1 DEF Promised, Told, PromiseOf

LEMMA PromisedSignalled ==
    ASSUME BaseInv, owed' = owed, call' \in {call, SignalAll(call)}
    PROVE  Promised' \subseteq Promised
<1>1. CASE call' = call
  BY <1>1, PromisedSame
<1>2. CASE call' = SignalAll(call)
  <2>1. ASSUME NEW v \in Writer, Told(v)'
        PROVE  Told(v) /\ PromiseOf(v)' = PromiseOf(v)
    <3>1. call'[v] = CASE call[v].pc = "roomwait"  -> [call[v] EXCEPT !.pc = "room"]
                       [] call[v].pc = "flushwait" -> [call[v] EXCEPT !.pc = "flush"]
                       [] OTHER -> call[v]
      BY <1>2 DEF SignalAll
    <3>2. call[v].pc # "idle" => call[v] \in CallOf
      BY WritingOpen
    <3>3. CASE call[v].pc \in {"roomwait", "flushwait"}
      <4>1. call'[v].pc # "woken"
        BY <3>1, <3>2, <3>3 DEF CallOf
      <4> QED  BY <2>1, <4>1 DEF Told
    <3>4. CASE call[v].pc \notin {"roomwait", "flushwait"}
      <4>1. call'[v] = call[v]
        BY <3>1, <3>4
      <4> QED  BY <2>1, <4>1 DEF Told, PromiseOf
    <3> QED  BY <3>3, <3>4
  <2> QED  BY <2>1 DEF Promised
<1> QED  BY <1>1, <1>2

\* What a writer promises that leaves with an OK: its write, and those of its group.
GroupPromises(n) == {PromiseOf(queue[i]) : i \in Batched(n)}

LEMMA PromisedOfLeave ==
    ASSUME BaseInv, NEW w \in Writer, call[w].pc \in FrontPcs, NEW n \in 1 .. Len(queue), NEW ok \in BOOLEAN,
           NEW c \in {call, SignalAll(call)}, Leave(w, n, ok, c)
    PROVE  Promised' \subseteq Promised \cup IF ok THEN GroupPromises(n) ELSE {}
<1>1. HasLeft(w, n, ok, c)
  BY LeaveEffect
<1>2. /\ queue \in Seq(Writer) /\ w = Head(queue) /\ queue # <<>> /\ Queued(queue, call)
  BY FrontWrites DEF BaseInv, QueueInv
<1>3. w = queue[1] /\ 1 \in 1 .. n
  BY <1>2
<1>4. ASSUME NEW v \in Writer
      PROVE  /\ call[v].pc = "idle" => call[v] = Idle
             /\ call[v].pc # "idle" => call[v] \in CallOf
             /\ c[v] = call[v] \/ \/ call[v].pc = "roomwait" /\ c[v] = [call[v] EXCEPT !.pc = "room"]
                                  \/ call[v].pc = "flushwait" /\ c[v] = [call[v] EXCEPT !.pc = "flush"]
  <2>1. call[v] \in {Idle} \cup CallOf
    BY <1>2 DEF Queued
  <2>2. call[v].pc = "idle" => call[v] = Idle
    BY <2>1 DEF CallOf
  <2>3. c = call => c[v] = call[v]
    OBVIOUS
  <2>4. c = SignalAll(call) =>
            \/ c[v] = call[v]
            \/ call[v].pc = "roomwait" /\ c[v] = [call[v] EXCEPT !.pc = "room"]
            \/ call[v].pc = "flushwait" /\ c[v] = [call[v] EXCEPT !.pc = "flush"]
    BY DEF SignalAll
  <2> QED  BY <2>2, <2>3, <2>4, WritingOpen
<1>5. ASSUME NEW v \in Writer, c[v].pc # "idle"
      PROVE  /\ call[v] \in CallOf /\ c[v] \in CallOf
             /\ c[v].id = call[v].id /\ c[v].sync = call[v].sync
             /\ c[v].batch = call[v].batch /\ c[v].done = call[v].done /\ c[v].ok = call[v].ok
             /\ c[v].pc = "woken" => call[v].pc = "woken"
             /\ c[v].pc = "asleep" => call[v].pc = "asleep"
  <2>1. call[v].pc = "roomwait" => call[v].pc # "idle"
    OBVIOUS
  <2>2. call[v].pc = "flushwait" => call[v].pc # "idle"
    OBVIOUS
  <2>3. call[v].pc # "idle" /\ call[v] \in CallOf
    BY <1>4, <1>5, <2>1, <2>2
  <2>4. "room" \in Pcs \ {"idle"} /\ "flush" \in Pcs \ {"idle"}
    BY DEF Pcs
  <2>5. CASE c[v] = call[v]
    BY <2>3, <2>5
  <2>6. CASE \E pc \in {"room", "flush"} : c[v] = [call[v] EXCEPT !.pc = pc]
    BY <2>3, <2>4, <2>6 DEF CallOf
  <2> QED  BY <1>4, <2>5, <2>6
<1>6. owed' \subseteq owed \cup IF ok THEN GroupPromises(n) ELSE {}
  <2>1. owed' = owed \cup IF c[w].batch /\ ok THEN {[id |-> c[w].id, sync |-> c[w].sync]} ELSE {}
    BY <1>1 DEF HasLeft, NowOwed
  <2>2. c[w].id = call[w].id /\ c[w].sync = call[w].sync /\ c[w].batch = call[w].batch
    <3>1. call[w].pc # "idle" /\ call[w] \in CallOf
      BY WritingOpen DEF FrontPcs
    <3>2. c[w].pc # "idle"
      BY <1>4, <3>1 DEF CallOf
    <3> QED  BY <1>5, <3>2
  <2>3. call[w].batch => 1 \in Batched(n)
    BY <1>3 DEF Batched
  <2>4. call[w].batch => PromiseOf(w) \in GroupPromises(n)
    BY <1>3, <2>3 DEF GroupPromises
  <2> QED  BY <2>1, <2>2, <2>4 DEF PromiseOf
<1>7. ASSUME NEW v \in Writer, Told(v)'
      PROVE  PromiseOf(v)' \in Promised \/ (ok /\ PromiseOf(v)' \in GroupPromises(n))
  <2>1. v # w
    <3>1. call'[w] = AfterWrite(c[w], ok)
      BY <1>1 DEF HasLeft
    <3>2. c[w].pc = "idle" \/ c[w] \in CallOf
      BY <1>5
    <3>3. call'[w].pc # "woken"
      <4>1. CASE c[w].batch \/ ~ok
        BY <3>1, <4>1 DEF AfterWrite, Idle
      <4>2. CASE ~(c[w].batch \/ ~ok)
        <5>1. call'[w] = [c[w] EXCEPT !.pc = "flush"]
          BY <3>1, <4>2 DEF AfterWrite
        <5>2. c[w] \in CallOf
          <6>1. call[w].pc # "idle" /\ call[w] \in CallOf
            BY WritingOpen DEF FrontPcs
          <6>2. c[w].pc # "idle"
            BY <1>4, <6>1 DEF CallOf
          <6> QED  BY <1>5, <6>2
        <5> QED  BY <5>1, <5>2 DEF CallOf
      <4> QED  BY <4>1, <4>2
    <3> QED  BY <1>7, <3>3 DEF Told
  <2>2. CASE /\ \E i \in 1 .. n : v = queue[i]
             /\ call'[v] = Signalled([c[v] EXCEPT !.done = TRUE, !.ok = ok])
    <3>1. PICK i \in 1 .. n : v = queue[i]
      BY <2>2
    <3>2. c[v].pc # "idle"
      <4>1. v \in Range(queue)
        BY <1>2, <3>1 DEF Range
      <4>2. WriterOK(queue, v, call[v])
        BY <1>2 DEF Queued
      <4>3. call[v].pc # "idle"
        BY <4>1, <4>2 DEF WriterOK, InQueue, FrontPcs
      <4>4. call[v] \in CallOf
        BY <4>3, <1>4
      <4> QED  BY <1>4, <4>3, <4>4 DEF CallOf
    <3>3. /\ c[v] \in CallOf /\ c[v].id = call[v].id /\ c[v].sync = call[v].sync /\ c[v].batch = call[v].batch
      BY <1>5, <3>2
    <3>4. /\ call'[v].id = c[v].id /\ call'[v].sync = c[v].sync /\ call'[v].batch = c[v].batch
          /\ call'[v].ok = ok
      BY <2>2, <3>3 DEF Signalled, CallOf
    <3>5. ok /\ call[v].batch
      BY <1>7, <3>3, <3>4 DEF Told
    <3>6. i \in Batched(n)
      BY <3>1, <3>5 DEF Batched
    <3>7. PromiseOf(v)' = PromiseOf(v)
      BY <3>3, <3>4 DEF PromiseOf
    <3> QED  BY <3>1, <3>5, <3>6, <3>7 DEF GroupPromises
  <2>3. CASE call'[v] \in {c[v], Signalled(c[v])}
    <3>0. call'[v].pc = "woken" /\ call'[v].done /\ call'[v].ok /\ call'[v].batch
      BY <1>7 DEF Told
    <3>1. c[v].pc # "idle"
      BY <2>3, <3>0 DEF Signalled
    <3>2. /\ call[v] \in CallOf /\ c[v] \in CallOf
          /\ c[v].id = call[v].id /\ c[v].sync = call[v].sync
          /\ c[v].batch = call[v].batch /\ c[v].done = call[v].done /\ c[v].ok = call[v].ok
          /\ c[v].pc = "woken" => call[v].pc = "woken"
          /\ c[v].pc = "asleep" => call[v].pc = "asleep"
      BY <1>5, <3>1
    <3>3. c[v].pc # "asleep"
      <4>1. ASSUME c[v].pc = "asleep"  PROVE FALSE
        <5>1. call'[v].done = c[v].done
          BY <2>3, <3>2 DEF Signalled, CallOf
        <5>2. call[v].done /\ call[v].pc = "asleep"
          BY <3>0, <3>2, <4>1, <5>1
        <5>3. WriterOK(queue, v, call[v])
          BY <1>2 DEF Queued
        <5> QED  BY <5>2, <5>3 DEF WriterOK, InQueue
      <4> QED  BY <4>1
    <3>4. call'[v] = c[v]
      BY <2>3, <3>3 DEF Signalled
    <3>5. Told(v) /\ PromiseOf(v)' = PromiseOf(v)
      BY <3>0, <3>2, <3>4 DEF Told, PromiseOf
    <3> QED  BY <3>5 DEF Promised
  <2> QED  BY <1>1, <2>1, <2>2, <2>3 DEF HasLeft
<1> QED  BY <1>6, <1>7 DEF Promised

\* No step of a writer loses a write: logs are added, written on and synced.
LEMMA LogGrows ==
    ASSUME NEW R, NEW f \in FileOf(R), NEW r \in R, NEW o, InLog(o, f)
    PROVE  InLog(o, Appended(f, r)) /\ InLog(o, Synced(f))
<1> DEFINE a == Len(f.recs)
<1>1. f.recs \in Seq(R) /\ a \in Nat /\ f.synced \in Nat /\ DOMAIN f.recs = 1 .. a
  BY DEF FileOf
<1>2. InLog(o, Appended(f, r))
  <2> DEFINE g == Appended(f, r)
  <2>1. /\ g \in FileOf(R) /\ g.synced = f.synced /\ Len(g.recs) = a + 1
        /\ \A i \in 1 .. a : g.recs[i] = f.recs[i]
    BY AppendedTyped
  <2> HIDE DEF g
  <2>2. DOMAIN g.recs = 1 .. a + 1
    BY <2>1 DEF FileOf
  <2> HIDE DEF a
  <2>3. a + 1 \in Nat /\ a <= a + 1 /\ g.synced \in Nat /\ f.synced <= g.synced
    BY <1>1, <2>1
  <2>4. InLog(o, g)
    BY <1>1, <2>1, <2>2, <2>3, InLogMore
  <2> QED  BY <2>4 DEF g
<1>3. InLog(o, Synced(f))
  <2> DEFINE g == Synced(f)
  <2>1. g.recs = f.recs /\ g.synced = a
    BY SyncedTyped
  <2> HIDE DEF g
  <2>2. PICK i \in Whole(f) : Holds(f.recs[i].ents, o)
    BY DEF InLog
  <2>3. i \in Whole(g) /\ i <= a
    BY <1>1, <2>1, <2>2, WholeRecords DEF Whole
  <2>4. InLog(o, g)
    BY <2>1, <2>2, <2>3 DEF InLog
  <2> QED  BY <2>4 DEF g
<1> QED  BY <1>2, <1>3

LEMMA OneLogGrows ==
    ASSUME BaseInv, NumbersInv, db.up = "open", NEW f, disk' = [disk EXCEPT !.logs[db.logfile] = f], NEW o,
           InLog(o, disk.logs[db.logfile]) => InLog(o, f)
    PROVE  LogsKept(o, 0, disk.logs, disk'.logs)
<1>1. /\ DOMAIN disk'.logs = DOMAIN disk.logs /\ disk'.logs[db.logfile] = f
      /\ \A n \in DOMAIN disk.logs : n # db.logfile => disk'.logs[n] = disk.logs[n]
  BY LogChanged
<1>2. PICK L, M, k : L = disk.logs /\ M = disk'.logs /\ k = db.logfile
  OBVIOUS
<1>3. ASSUME NEW n \in DOMAIN L  PROVE n \in DOMAIN M /\ (InLog(o, L[n]) => InLog(o, M[n]))
  <2>1. CASE n = k
    BY <1>1, <1>2, <2>1
  <2>2. CASE n # k
    <3>1. n \in DOMAIN M /\ M[n] = L[n]
      BY <1>1, <1>2, <1>3, <2>2
    <3> QED  BY <3>1
  <2> QED  BY <2>1, <2>2
<1> QED  BY <1>2, <1>3 DEF LogsKept

LEMMA LogsSameKept == ASSUME NEW o, NEW L, NEW from  PROVE LogsKept(o, from, L, L)
BY DEF LogsKept

LEMMA LogsOfThread ==
    ASSUME BaseInv, NumbersInv, NEW w \in Writer, Thread(w), NEW o
    PROVE  /\ LogsKept(o, 0, disk.logs, disk'.logs)
           /\ 0 \notin DOMAIN disk.logs => 0 \notin DOMAIN disk'.logs
<1>0. /\ ThreadFrame /\ db.up = "open" /\ DiskTyped /\ VersionNumbered /\ LogsNumbered
      /\ db.nextFile \in Nat /\ db.logfile \in Nat /\ db.manifest \in Nat /\ db \in DbOf
  BY ThreadEffect, FieldsOf DEF ThreadFrame, NumbersInv
<1>1. 0 \notin DOMAIN disk.logs => 0 \notin DOMAIN disk'.logs
  <2>0. DOMAIN disk'.logs = DOMAIN disk.logs \/ disk'.logs = With(disk.logs, db.nextFile, File)
    BY <1>0 DEF ThreadFrame
  <2>1. DOMAIN disk'.logs \subseteq DOMAIN disk.logs \cup {db.nextFile}
    BY <2>0 DEF With
  <2>2. db.nextFile # 0
    BY <1>0 DEF VersionNumbered
  <2> QED  BY <2>1, <2>2
<1>2. ASSUME disk' = disk  PROVE LogsKept(o, 0, disk.logs, disk'.logs)
  BY <1>2, LogsSameKept
<1>3. CASE Wake(w) \/ RoomError(w) \/ NewLogFails(w) \/ Delay(w) \/ WaitForRoom(w) \/ TakeRoom(w)
           \/ SyncLogFails(w) \/ WaitForFlush(w) \/ Finish(w)
  BY <1>2, <1>3 DEF Wake, RoomError, NewLogFails, Delay, WaitForRoom, TakeRoom, SyncLogFails, WaitForFlush, Finish
<1>4. CASE SwitchMemTable(w)
  <2>1. disk' = [disk EXCEPT !.logs = With(@, db.nextFile, File)]
    BY <1>4 DEF SwitchMemTable
  <2>2. disk'.logs = With(disk.logs, db.nextFile, File)
    BY <1>0, <2>1 DEF DiskTyped
  <2>3. \A n \in DOMAIN disk.logs : n # db.nextFile
    BY <1>0 DEF LogsNumbered, VersionNumbered, DiskTyped
  <2>4. PICK L, M, k : L = disk.logs /\ M = disk'.logs /\ k = db.nextFile
    OBVIOUS
  <2>5. \A n \in DOMAIN L : n \in DOMAIN M /\ M[n] = L[n]
    BY <2>2, <2>3, <2>4 DEF With
  <2>6. LogsKept(o, 0, L, M)
    BY <2>5 DEF LogsKept
  <2> QED  BY <1>1, <2>4, <2>6
<1>5. LogsKept(o, 0, disk.logs, disk'.logs)
      \/ ~ \E f : /\ disk' = [disk EXCEPT !.logs[db.logfile] = f]
                  /\ InLog(o, disk.logs[db.logfile]) => InLog(o, f)
  BY <1>0, OneLogGrows
<1>6. PICK R : R = [ents : SUBSET Entry] \cup {Torn}
  OBVIOUS
<1>7. PICK f : f = disk.logs[db.logfile]
  OBVIOUS
<1>8. f \in FileOf(R)
  BY <1>0, <1>6, <1>7, LogOpen
<1>9. ASSUME NEW r \in R, disk' = [disk EXCEPT !.logs[db.logfile] = Appended(f, r)]
      PROVE  LogsKept(o, 0, disk.logs, disk'.logs)
  <2>1. InLog(o, f) => InLog(o, Appended(f, r))
    BY <1>8, LogGrows
  <2> QED  BY <1>5, <1>7, <1>9, <2>1
<1>10. CASE AddRecord(w)
  <2>1. PICK r : r = [ents |-> GroupEntries(w)]
    OBVIOUS
  <2>2. call[w].pc \in WritePcs /\ disk' = [disk EXCEPT !.logs[db.logfile] = Appended(f, r)]
    BY <1>7, <1>10, <2>1 DEF AddRecord, WritePcs
  <2>3. r \in R
    BY <1>6, <2>1, <2>2, GroupTyped
  <2> QED  BY <1>9, <2>2, <2>3
<1>11. CASE AddRecordFails(w)
  <2>1. PICK r : r = Torn
    OBVIOUS
  <2>2. disk' = disk \/ disk' = [disk EXCEPT !.logs[db.logfile] = Appended(f, r)]
    BY <1>7, <1>11, <2>1 DEF AddRecordFails
  <2>3. r \in R
    BY <1>6, <2>1
  <2>4. CASE disk' = disk
    BY <1>2, <2>4
  <2>5. CASE disk' = [disk EXCEPT !.logs[db.logfile] = Appended(f, r)]
    BY <1>9, <2>3, <2>5
  <2> QED  BY <2>2, <2>4, <2>5
<1>12. CASE SyncLog(w)
  <2>1. PICK g : g = Synced(f)
    OBVIOUS
  <2>2. disk' = [disk EXCEPT !.logs[db.logfile] = g]
    BY <1>7, <1>12, <2>1 DEF SyncLog
  <2>3. Torn \in R
    BY <1>6
  <2>4. InLog(o, f) => InLog(o, g)
    BY <1>8, <2>1, <2>3, LogGrows
  <2> QED  BY <1>5, <1>7, <2>2, <2>4
<1>13. LogsKept(o, 0, disk.logs, disk'.logs)
  BY <1>3, <1>4, <1>10, <1>11, <1>12 DEF Thread
<1> QED  BY <1>1, <1>13

LEMMA MemOfThread ==
    ASSUME BaseInv, NEW w \in Writer, Thread(w)
    PROVE  db.mem \subseteq db'.mem \/ db'.imm # db.imm
<1>0. db \in DbOf
  BY FieldsOf
<1>1. CASE db' = db
  BY <1>1
<1>2. CASE SwitchMemTable(w)
  <2>1. db.imm = <<>> /\ db' = OverToLog(db)
    BY <1>2 DEF SwitchMemTable, MustWait
  <2>2. OverToLog(db).imm = <<db.mem>>
    BY <1>0 DEF OverToLog, DbOf
  <2>3. <<db.mem>> # <<>>
    OBVIOUS
  <2> QED  BY <2>1, <2>2, <2>3
<1>3. CASE Finish(w)
  <2> DEFINE seq == db.lastSeq + Cardinality(GroupEntries(w))
             mem == db.mem \cup IF call[w].ok THEN GroupEntries(w) ELSE {}
             d   == [db EXCEPT !.lastSeq = seq, !.mem = mem]
  <2>1. db' = d \/ db' = Failed(d)
    BY <1>3 DEF Finish
  <2>2. db.mem \subseteq mem
    OBVIOUS
  <2> HIDE DEF seq, mem
  <2>3. d.mem = mem /\ Failed(d).mem = mem
    BY <1>0 DEF DbOf, Failed
  <2> QED  BY <2>1, <2>2, <2>3
<1>4. db' = db \/ SwitchMemTable(w) \/ Finish(w)
  BY DEF Thread, Wake, RoomError, Delay, WaitForRoom, TakeRoom, NewLogFails,
         AddRecord, AddRecordFails, SyncLog, SyncLogFails, WaitForFlush
<1> QED  BY <1>1, <1>2, <1>3, <1>4

LEMMA CurrentManifest ==
    ASSUME BaseInv, CurrentInv, disk.current \notin {0, 1}
    PROVE  /\ disk.current \in DOMAIN disk.manifests /\ disk.manifests[disk.current] \in ManifestOf
           /\ disk.manifests[disk.current].synced <= Len(disk.manifests[disk.current].recs)
           /\ DOMAIN disk.logs \subseteq Nat
BY FieldsOf DEF CurrentInv, CurrentOpens, Opens, DiskTyped

LEMMA KeptOfThread ==
    ASSUME BaseInv, NumbersInv, CurrentInv, NEW w \in Writer, Thread(w), NEW o, PromiseKept(o),
           disk.current \notin {0, 1}
    PROVE  PromiseKept(o)'
<1>0. /\ ThreadFrame /\ db.up = "open" /\ db'.up = "open" /\ LogsNumbered /\ DiskTyped
      /\ db.logfile \in Nat /\ db.logNumber \in Nat /\ db.nextFile \in Nat
  BY ThreadEffect, FieldsOf DEF ThreadFrame, NumbersInv
<1>1. LogsKept(o, 0, disk.logs, disk'.logs)
  BY LogsOfThread
<1>2. /\ disk'.tables = disk.tables /\ disk'.manifests = disk.manifests /\ disk'.current = disk.current
      /\ db'.version = db.version /\ db'.logNumber = db.logNumber
  BY <1>0 DEF ThreadFrame
<1>3. Durable(o, disk'.manifests[disk'.current], disk'.tables, disk'.logs)
  <2>1. PICK m, T, L, U, M : /\ m = disk.manifests[disk.current] /\ T = disk.tables /\ L = disk.logs
                             /\ U = disk'.tables /\ M = disk'.logs
    OBVIOUS
  <2>2. m \in ManifestOf /\ DOMAIN L \subseteq Nat
    BY <2>1, CurrentManifest
  <2>3. Durable(o, m, T, L) /\ LogsKept(o, 0, L, M) /\ \A n \in DOMAIN T : n \in DOMAIN U /\ U[n] = T[n]
    BY <1>1, <1>2, <2>1 DEF PromiseKept
  <2>4. Durable(o, m, U, M)
    BY <2>2, <2>3, DurableMore
  <2> QED  BY <1>2, <2>1, <2>4
<1>4. Held(o)'
  <2>1. Held(o)
    BY <1>0 DEF PromiseKept
  <2>2. \A n \in Nat : InLogs(o, n, disk.logs) => InLogs(o, n, disk'.logs)
    <3>1. PICK L, M : L = disk.logs /\ M = disk'.logs
      OBVIOUS
    <3>2. DOMAIN L \subseteq Nat /\ LogsKept(o, 0, L, M)
      BY <1>0, <1>1, <3>1 DEF DiskTyped
    <3>3. ASSUME NEW n \in Nat, InLogs(o, n, L)  PROVE InLogs(o, n, M)
      BY <3>2, <3>3, LogsKeptMore
    <3> QED  BY <3>1, <3>3
  <2>3. CASE InTables(o, db.version, disk.tables)
    BY <1>2, <2>3 DEF Held
  <2>4. CASE Holds(Frozen, o) /\ InLogs(o, db.logNumber, disk.logs)
    <3>1. db.imm # <<>>
      BY <2>4 DEF Frozen, Holds
    <3>2. Frozen' = Frozen
      BY <1>0, <3>1 DEF ThreadFrame, Frozen
    <3>3. InLogs(o, db.logNumber, disk'.logs)
      BY <1>0, <2>2, <2>4
    <3> QED  BY <1>2, <2>4, <3>2, <3>3 DEF Held
  <2>5. CASE Holds(db.mem, o) /\ InLogs(o, db.logfile, disk.logs)
    <3>1. InLogs(o, db.logfile, disk'.logs)
      BY <1>0, <2>2, <2>5
    <3>2. CASE db'.logfile = db.logfile /\ db'.imm = db.imm
      <4>1. db.mem \subseteq db'.mem
        BY <3>2, MemOfThread
      <4>2. Holds(db'.mem, o)
        BY <2>5, <4>1 DEF Holds
      <4> QED  BY <3>1, <3>2, <4>2 DEF Held
    <3>3. CASE db'.imm = <<db.mem>>
      <4>1. Frozen' = db.mem
        BY <3>3 DEF Frozen
      <4>2. InLogs(o, db.logNumber, disk'.logs)
        <5>1. \A n \in DOMAIN disk'.logs : n >= db.logfile => n >= db.logNumber
          <6>1. \A n \in DOMAIN disk'.logs : n \in Nat
            <7>1. DiskTyped'
              BY ThreadTyped DEF TypeInv
            <7> QED  BY <7>1 DEF DiskTyped
          <6> QED  BY <1>0, <6>1 DEF LogsNumbered
        <5> QED  BY <3>1, <5>1 DEF InLogs
      <4> QED  BY <1>2, <2>5, <4>1, <4>2 DEF Held
    <3> QED  BY <1>0, <3>2, <3>3 DEF ThreadFrame
  <2> QED  BY <2>1, <2>3, <2>4, <2>5 DEF Held
<1> QED  BY <1>0, <1>3, <1>4 DEF PromiseKept

\* The writes that were waited for are in the log, and will be read from the memtable.
LEMMA GroupKept ==
    ASSUME BaseInv, NumbersInv, CurrentInv, ManifestInv, WrittenInv, NEW w \in Writer, Finish(w),
           call[w].pc = "finish", call[w].ok, NEW o \in GroupPromises(call[w].group), o.id \notin behind
    PROVE  PromiseKept(o)'
<1>0. /\ ThreadFrame /\ db.up = "open" /\ db'.up = "open" /\ LogsNumbered /\ DiskTyped /\ db \in DbOf
      /\ db.logfile \in Nat /\ db.logNumber \in Nat /\ 1 < db.manifest /\ db.manifest \in Nat
  <2>1. Thread(w)
    BY DEF Thread
  <2>2. ThreadFrame /\ db.up = "open"
    BY <2>1, ThreadEffect DEF ThreadFrame
  <2> QED  BY <2>2, FieldsOf DEF ThreadFrame, NumbersInv, VersionNumbered
<1>1. PICK i \in Batched(call[w].group) : o = PromiseOf(queue[i])
  BY DEF GroupPromises
<1>2. \E e \in GroupEntries(w) : e.id = o.id
  <2> DEFINE e == [id |-> call[queue[i]].id, seq |-> db.lastSeq + Cardinality(Batched(i))]
  <2>1. e \in GroupEntries(w)
    BY <1>1 DEF GroupEntries
  <2>2. e.id = call[queue[i]].id
    OBVIOUS
  <2>3. o.id = call[queue[i]].id
    BY <1>1 DEF PromiseOf
  <2> QED  BY <2>1, <2>2, <2>3
<1>3. SyncedForAll(w) /\ Logged(w)
  BY DEF WrittenInv, WritePcs
<1>4. o.sync => call[w].sync
  BY <1>1, <1>3 DEF SyncedForAll, Batched, PromiseOf
<1>5. InLog(o, disk.logs[db.logfile])
  <2>1. PICK f : f = disk.logs[db.logfile]
    OBVIOUS
  <2>2. PICK k \in Whole(f) : (call[w].sync => k <= f.synced) /\ GroupEntries(w) \subseteq f.recs[k].ents
    BY <1>2, <1>3, <2>1 DEF Logged
  <2>3. Holds(f.recs[k].ents, o)
    BY <1>2, <2>2 DEF Holds
  <2> QED  BY <1>4, <2>1, <2>2, <2>3 DEF InLog
<1>6. \A n \in Nat : n <= db.logfile => InLogs(o, n, disk.logs)
  BY <1>0, <1>5 DEF InLogs, LogsNumbered
<1>7. disk' = disk
  BY DEF Finish
<1>8. Held(o)'
  <2> DEFINE seq == db.lastSeq + Cardinality(GroupEntries(w))
             mem == db.mem \cup GroupEntries(w)
  <2>1. db' = [db EXCEPT !.lastSeq = seq, !.mem = mem]
    BY DEF Finish
  <2>2. Holds(mem, o)
    BY <1>2 DEF Holds
  <2> HIDE DEF seq, mem
  <2>3. db'.mem = mem /\ db'.logfile = db.logfile
    BY <1>0, <2>1 DEF DbOf
  <2> QED  BY <1>0, <1>6, <1>7, <2>2, <2>3 DEF Held
<1>9. Durable(o, disk.manifests[disk.current], disk.tables, disk.logs)
  <2>1. disk.current = db.manifest /\ disk.manifests[db.manifest] \in ManifestOf
    BY <1>0, CurrentManifest DEF CurrentInv
  <2>2. ManifestCovers(disk.manifests[db.manifest])
    BY <1>0 DEF ManifestInv
  <2>3. PICK m : m = disk.manifests[db.manifest]
    OBVIOUS
  <2>4. ASSUME NEW c \in Kept(m), Readable(c)  PROVE Recoverable(o, c, disk.tables, disk.logs)
    <3>1. LastEdit(c).log \in Nat /\ LastEdit(c).log <= db.logfile
      BY <2>1, <2>2, <2>3, <2>4, KeptEdit DEF ManifestCovers
    <3> QED  BY <1>6, <3>1 DEF Recoverable
  <2> QED  BY <2>1, <2>3, <2>4 DEF Durable
<1> QED  BY <1>0, <1>7, <1>8, <1>9 DEF PromiseKept

LEMMA PromisedOfThread ==
    ASSUME BaseInv, NEW w \in Writer, Thread(w)
    PROVE  \/ Promised' \subseteq Promised
           \/ /\ Finish(w) /\ call[w].pc = "finish" /\ call[w].ok
              /\ Promised' \subseteq Promised \cup GroupPromises(call[w].group)
<1>1. ASSUME NEW r, call' = [call EXCEPT ![w] = r], r.pc # "woken", owed' = owed
      PROVE  Promised' \subseteq Promised
  <2>1. call'[w] = r /\ \A v \in Writer : v # w => call'[v] = call[v]
    <3>1. call \in [Writer -> {Idle} \cup CallOf]
      BY DEF BaseInv, QueueInv, Queued
    <3> QED  BY <1>1, <3>1
  <2> QED  BY <1>1, <2>1, PromisedMoved
<1>2. ASSUME NEW pc, pc # "woken", call' = [call EXCEPT ![w].pc = pc], call[w] \in CallOf, owed' = owed
      PROVE  Promised' \subseteq Promised
  <2> DEFINE r == [call[w] EXCEPT !.pc = pc]
  <2>1. call' = [call EXCEPT ![w] = r]
    BY <1>2
  <2>2. r.pc # "woken"
    BY <1>2 DEF CallOf
  <2> HIDE DEF r
  <2> QED  BY <1>1, <1>2, <2>1, <2>2
<1>3. ASSUME call[w].pc \in FrontPcs, Leave(w, 1, FALSE, call)
      PROVE  Promised' \subseteq Promised
  <2>1. 1 \in 1 .. Len(queue)
    BY <1>3, FrontWrites
  <2>2. Promised' \subseteq Promised \cup IF FALSE THEN GroupPromises(1) ELSE {}
    BY <1>3, <2>1, PromisedOfLeave
  <2> QED  BY <2>2
<1>4. CASE RoomError(w) \/ NewLogFails(w)
  BY <1>3, <1>4 DEF RoomError, NewLogFails, FrontPcs
<1>5. CASE Wake(w)
  <2>1. call[w].pc = "woken" /\ call[w] \in CallOf
    BY <1>5, WritingOpen DEF Wake
  <2>2. CASE call[w].done
    <3> DEFINE r == AfterWrite(call[w], call[w].ok)
    <3>1. call' = [call EXCEPT ![w] = r] /\ owed' = NowOwed(call[w], call[w].ok)
      BY <1>5, <2>2 DEF Wake
    <3>2. r.pc # "woken"
      BY <2>1 DEF AfterWrite, Idle, CallOf
    <3> HIDE DEF r
    <3>3. call'[w] = r /\ \A v \in Writer : v # w => call'[v] = call[v]
      <4>1. call \in [Writer -> {Idle} \cup CallOf]
        BY DEF BaseInv, QueueInv, Queued
      <4> QED  BY <3>1, <4>1
    <3>4. owed' \subseteq Promised
      <4>1. call[w].batch /\ call[w].ok => Told(w)
        BY <2>1, <2>2 DEF Told
      <4> QED  BY <3>1, <4>1 DEF NowOwed, Promised, PromiseOf
    <3>5. ASSUME NEW v \in Writer, Told(v)'
          PROVE  Told(v) /\ PromiseOf(v)' = PromiseOf(v)
      <4>1. v # w
        BY <3>2, <3>3, <3>5 DEF Told
      <4>2. call'[v] = call[v]
        BY <3>3, <4>1
      <4> QED  BY <3>5, <4>2 DEF Told, PromiseOf
    <3> QED  BY <3>4, <3>5 DEF Promised
  <2>3. CASE ~call[w].done
    <3>1. PICK pc \in {"room", "asleep"} : call' = [call EXCEPT ![w].pc = pc] /\ owed' = owed
      BY <1>5, <2>3 DEF Wake
    <3> QED  BY <1>2, <2>1, <3>1
  <2> QED  BY <2>2, <2>3
<1>6. CASE Delay(w)
  <2> DEFINE r == [call[w] EXCEPT !.delay = FALSE]
  <2>1. call[w].pc = "room" /\ call[w] \in CallOf /\ call' = [call EXCEPT ![w] = r] /\ owed' = owed
    BY <1>6, WritingOpen DEF Delay
  <2>2. r.pc # "woken"
    BY <2>1 DEF CallOf
  <2> HIDE DEF r
  <2> QED  BY <1>1, <2>1, <2>2
<1>7. CASE WaitForRoom(w)
  <2>1. call[w].pc = "room" /\ call[w] \in CallOf /\ call' = [call EXCEPT ![w].pc = "roomwait"] /\ owed' = owed
    BY <1>7, WritingOpen DEF WaitForRoom
  <2> QED  BY <1>2, <2>1
<1>8. ASSUME call[w].pc = "room", call' = [call EXCEPT ![w].pc = "log", ![w].group = GroupSize(w)], owed' = owed
      PROVE  Promised' \subseteq Promised
  <2> DEFINE r == [call[w] EXCEPT !.pc = "log", !.group = GroupSize(w)]
  <2>1. call[w] \in CallOf /\ call \in [Writer -> {Idle} \cup CallOf]
    BY <1>8, WritingOpen DEF BaseInv, QueueInv, Queued
  <2>2. call' = [call EXCEPT ![w] = r]
    BY <1>8, <2>1
  <2>3. r.pc # "woken"
    BY <2>1 DEF CallOf
  <2> HIDE DEF r
  <2> QED  BY <1>1, <1>8, <2>2, <2>3
<1>9. CASE TakeRoom(w)
  <2>1. owed' = owed
    BY <1>9 DEF TakeRoom
  <2> QED  BY <1>8, <1>9, <2>1 DEF TakeRoom
<1>10. CASE SwitchMemTable(w)
  <2>1. CASE call[w].batch
    <3>1. /\ call[w].pc = "room" /\ call' = [call EXCEPT ![w].pc = "log", ![w].group = GroupSize(w)]
          /\ owed' = owed
      BY <1>10, <2>1 DEF SwitchMemTable
    <3> QED  BY <1>8, <3>1
  <2>2. CASE ~call[w].batch
    <3>1. call[w].pc \in FrontPcs /\ Leave(w, 1, TRUE, call)
      BY <1>10, <2>2 DEF SwitchMemTable, FrontPcs
    <3>2. 1 \in 1 .. Len(queue) /\ w = Head(queue) /\ queue # <<>> /\ queue \in Seq(Writer)
      BY <3>1, FrontWrites
    <3>3. Promised' \subseteq Promised \cup GroupPromises(1)
      <4>1. Promised' \subseteq Promised \cup IF TRUE THEN GroupPromises(1) ELSE {}
        BY <3>1, <3>2, PromisedOfLeave
      <4> QED  BY <4>1
    <3>4. Batched(1) = {}
      <4>1. \A i \in 1 .. 1 : queue[i] = w
        BY <3>2
      <4> QED  BY <2>2, <4>1 DEF Batched
    <3>5. GroupPromises(1) = {}
      BY <3>4 DEF GroupPromises
    <3> QED  BY <3>3, <3>5
  <2> QED  BY <2>1, <2>2
<1>11. CASE AddRecord(w)
  <2>1. PICK pc \in {"sync", "finish"} :
            call[w].pc = "log" /\ call' = [call EXCEPT ![w].pc = pc] /\ owed' = owed
    BY <1>11 DEF AddRecord
  <2>2. call[w] \in CallOf
    BY <2>1, WritingOpen
  <2> QED  BY <1>2, <2>1, <2>2
<1>12. CASE SyncLog(w)
  <2>1. call[w].pc = "sync" /\ call' = [call EXCEPT ![w].pc = "finish"] /\ owed' = owed
    BY <1>12 DEF SyncLog
  <2>2. call[w] \in CallOf
    BY <2>1, WritingOpen
  <2> QED  BY <1>2, <2>1, <2>2
<1>13. CASE AddRecordFails(w) \/ SyncLogFails(w)
  <2>1. PICK pc \in {"finish", "syncerror"} :
            /\ call[w].pc \in {"log", "sync"} /\ owed' = owed
            /\ call' = [call EXCEPT ![w].pc = pc, ![w].ok = FALSE]
    BY <1>13 DEF AddRecordFails, SyncLogFails
  <2> DEFINE r == [call[w] EXCEPT !.pc = pc, !.ok = FALSE]
  <2>2. call[w] \in CallOf /\ call \in [Writer -> {Idle} \cup CallOf]
    BY <2>1, WritingOpen DEF BaseInv, QueueInv, Queued
  <2>3. call' = [call EXCEPT ![w] = r]
    BY <2>1, <2>2
  <2>4. r.pc # "woken"
    BY <2>2 DEF CallOf
  <2> HIDE DEF r
  <2> QED  BY <1>1, <2>1, <2>3, <2>4
<1>14. CASE WaitForFlush(w)
  <2>1. call[w].pc = "flush" /\ call[w] \in CallOf /\ owed' = owed
    BY <1>14, WritingOpen DEF WaitForFlush
  <2>2. PICK r \in {Idle, [call[w] EXCEPT !.pc = "flushwait"]} : call' = [call EXCEPT ![w] = r]
    BY <1>14 DEF WaitForFlush
  <2>3. r.pc # "woken"
    BY <2>1, <2>2 DEF CallOf, Idle
  <2> QED  BY <1>1, <2>1, <2>2, <2>3
<1>15. CASE Finish(w)
  <2>1. call[w].pc \in FrontPcs /\ call[w].pc \in WritePcs
    BY <1>15 DEF Finish, FrontPcs, WritePcs
  <2>2. call[w].group \in 1 .. Len(queue) /\ call[w] \in CallOf
    BY <2>1, FrontWrites
  <2>3. CASE call[w].pc = "finish"
    <3>1. Leave(w, call[w].group, call[w].ok, call)
      BY <1>15, <2>3 DEF Finish
    <3>2. call[w].ok \in BOOLEAN
      BY <2>2 DEF CallOf
    <3>3. Promised' \subseteq Promised \cup IF call[w].ok THEN GroupPromises(call[w].group) ELSE {}
      BY <2>1, <2>2, <3>1, <3>2, PromisedOfLeave
    <3> QED  BY <1>15, <2>3, <3>3
  <2>4. CASE call[w].pc # "finish"
    <3>1. Leave(w, call[w].group, FALSE, SignalAll(call))
      BY <1>15, <2>4 DEF Finish
    <3>2. Promised' \subseteq Promised \cup IF FALSE THEN GroupPromises(call[w].group) ELSE {}
      BY <2>1, <2>2, <3>1, PromisedOfLeave
    <3> QED  BY <3>2
  <2> QED  BY <2>3, <2>4
<1> QED  BY <1>4, <1>5, <1>6, <1>7, <1>9, <1>10, <1>11, <1>12, <1>13, <1>14, <1>15 DEF Thread

LEMMA PromiseOfThread ==
    ASSUME BaseInv, NumbersInv, CurrentInv, ManifestInv, WrittenInv, PromiseInv, NEW w \in Writer, Thread(w)
    PROVE  PromiseInv'
<1>1. 0 \notin DOMAIN disk'.logs
  BY LogsOfThread DEF PromiseInv
<1>2. disk'.current = disk.current /\ disk'.current \notin {0, 1} /\ behind \subseteq behind'
  <2>1. behind \subseteq behind'
    BY DEF Thread, Wake, RoomError, Delay, WaitForRoom, TakeRoom, SwitchMemTable, NewLogFails,
           AddRecord, AddRecordFails, SyncLog, SyncLogFails, Finish, WaitForFlush
  <2>2. disk'.current = disk.current /\ db.up = "open"
    BY ThreadEffect DEF ThreadFrame
  <2>3. disk.current = db.manifest /\ 1 < db.manifest
    BY <2>2 DEF CurrentInv, NumbersInv, VersionNumbered
  <2> QED  BY <2>1, <2>2, <2>3
<1>3. \A o : disk.current \notin {0, 1} /\ PromiseKept(o) => PromiseKept(o)'
  BY KeptOfThread
<1>4. CASE Promised' \subseteq Promised
  BY <1>1, <1>2, <1>3, <1>4, PromisesKept
<1>5. CASE /\ Finish(w) /\ call[w].pc = "finish" /\ call[w].ok
           /\ Promised' \subseteq Promised \cup GroupPromises(call[w].group)
  <2>1. ASSUME NEW o \in Promised', o.id \notin behind'
        PROVE  PromiseKept(o)'
    <3>1. o.id \notin behind
      BY <1>2, <2>1
    <3>2. CASE o \in Promised
      BY <1>2, <1>3, <3>1, <3>2 DEF PromiseInv
    <3>3. CASE o \in GroupPromises(call[w].group)
      BY <1>5, <3>1, <3>3, GroupKept
    <3> QED  BY <1>5, <2>1, <3>2, <3>3
  <2> QED  BY <1>1, <1>2, <2>1 DEF PromiseInv
<1> QED  BY <1>4, <1>5, PromisedOfThread

LEMMA KeptSame ==
    ASSUME UNCHANGED <<disk, db>>, NEW o, PromiseKept(o)
    PROVE  PromiseKept(o)'
<1>1. UNCHANGED disk /\ UNCHANGED db
  OBVIOUS
<1>2. Held(o)' <=> Held(o)
  BY <1>1 DEF Held, Frozen
<1>3. ReadAgain(o)' <=> ReadAgain(o)
  BY <1>1 DEF ReadAgain, LogsToRecover
<1> QED  BY <1>1, <1>2, <1>3 DEF PromiseKept

LEMMA PromiseSame ==
    ASSUME PromiseInv, UNCHANGED <<disk, db, behind>>, Promised' \subseteq Promised
    PROVE  PromiseInv'
<1>1. UNCHANGED disk /\ UNCHANGED db /\ UNCHANGED behind
  OBVIOUS
<1>2. \A o : PromiseKept(o) => PromiseKept(o)'
  BY <1>1, KeptSame
<1> QED  BY <1>1, <1>2, PromisesKept DEF PromiseInv

LEMMA PromiseOfCall ==
    ASSUME BaseInv, PromiseInv, NEW w \in Writer, NEW sync \in BOOLEAN, NEW batch \in BOOLEAN, Call(w, sync, batch)
    PROVE  PromiseInv'
<1> DEFINE r == [pc |-> IF queue = <<>> THEN "room" ELSE "asleep", id |-> calls', sync |-> sync,
                 batch |-> batch, delay |-> batch, group |-> 0, done |-> FALSE, ok |-> TRUE]
<1>1. call' = [call EXCEPT ![w] = r] /\ UNCHANGED <<disk, db, owed, behind>>
  BY DEF Call
<1>2. r.pc # "woken"
  OBVIOUS
<1> HIDE DEF r
<1>3. call'[w] = r /\ \A v \in Writer : v # w => call'[v] = call[v]
  <2>1. call \in [Writer -> {Idle} \cup CallOf]
    BY DEF BaseInv, QueueInv, Queued
  <2> QED  BY <1>1, <2>1
<1>4. Promised' \subseteq Promised
  BY <1>1, <1>2, <1>3, PromisedMoved
<1> QED  BY <1>1, <1>4, PromiseSame

\* An edit behind the others: what a crash may leave of the manifest is what it was,
\* or has the version the edit makes.
LEMMA DurableAppended ==
    ASSUME NEW m \in ManifestOf, m.synced <= Len(m.recs), m.recs # <<>>, NEW r \in EditOf \cup {Torn},
           NEW g \in ManifestOf, g.recs = Append(m.recs, r), g.synced \in {m.synced, Len(m.recs) + 1},
           NEW o, NEW T, NEW L, Durable(o, m, T, L),
           \A d \in Kept(m) : Readable(d) /\ r \in EditOf =>
               InTables(o, Applied(VersionOf(d), r), T) \/ InLogs(o, r.log, L)
    PROVE  Durable(o, g, T, L)
<1> SUFFICES ASSUME NEW c \in Kept(g), Readable(c), o.sync \/ c.synced = Len(g.recs)
             PROVE  Recoverable(o, c, T, L)
  BY DEF Durable
<1>1. CASE /\ r \in EditOf /\ LastEdit(c) = r
           /\ \E d \in Kept(m) : /\ Readable(d) /\ d.synced = Len(m.recs)
                                 /\ VersionOf(c) = Applied(VersionOf(d), r)
  <2>1. PICK d \in Kept(m) : Readable(d) /\ VersionOf(c) = Applied(VersionOf(d), r)
    BY <1>1
  <2> QED  BY <1>1, <2>1 DEF Recoverable
<1>2. CASE \E d \in Kept(m) : /\ Readable(d) /\ VersionOf(c) = VersionOf(d) /\ LastEdit(c) = LastEdit(d)
                              /\ c.synced = Len(g.recs) => r = Torn /\ d.synced = Len(m.recs)
  <2>1. PICK d \in Kept(m) : /\ Readable(d) /\ VersionOf(c) = VersionOf(d) /\ LastEdit(c) = LastEdit(d)
                             /\ c.synced = Len(g.recs) => d.synced = Len(m.recs)
    BY <1>2
  <2>2. Recoverable(o, d, T, L)
    BY <2>1 DEF Durable
  <2> QED  BY <2>1, <2>2 DEF Recoverable
<1> QED  BY <1>1, <1>2, KeptOfAppended

LEMMA HoldsMore ==
    ASSUME NEW A, NEW B, A \subseteq B, NEW o, Holds(A, o)
    PROVE  Holds(B, o)
BY DEF Holds

\* A write that is held is in what the edit makes of a version, or in a log that the
\* edit leaves.
LEMMA HeldByEdit ==
    ASSUME BaseInv, NumbersInv, MergeInv, db.up = "open", bg.pc \in {"manifest", "install"}, NEW o, Held(o),
           NEW v, Applied(db.version, bg.edit[1]) \subseteq v
    PROVE  \/ InTables(o, v, disk.tables)
           \/ InLogs(o, bg.edit[1].log, disk.logs)
<1>0. /\ DiskTyped /\ bg.edit[1] \in EditOf /\ bg.edit[1].log \in Nat /\ db.logfile \in Nat
      /\ bg.edit[1].log <= db.logfile
  <2>1. DiskTyped /\ bg.edit[1] \in EditOf /\ db.logfile \in Nat
    BY FieldsOf
  <2>2. bg.edit[1].log <= db.logfile
    BY DEF NumbersInv, EditNumbered
  <2> QED  BY <2>1, <2>2 DEF EditOf
<1>1. PICK e, T, L : e = bg.edit[1] /\ T = disk.tables /\ L = disk.logs
  OBVIOUS
<1>2. e.add \subseteq v
  BY <1>1 DEF Applied
<1>3. Content(Numbers(e.add), T) \subseteq Content(Numbers(v), T)
  BY <1>2, ContentOfVersion
<1>4. CASE e.del = {}
  <2>1. e.log = db.logfile /\ Frozen \subseteq Content(Numbers(e.add), T)
    BY <1>1, <1>4 DEF MergeInv
  <2>2. CASE InTables(o, db.version, T)
    <3>1. db.version \subseteq v
      BY <1>1, <1>4 DEF Applied
    <3>2. Content(Numbers(db.version), T) \subseteq Content(Numbers(v), T)
      BY <3>1, ContentOfVersion
    <3>3. InTables(o, v, T)
      BY <2>2, <3>2, InTablesMore
    <3> QED  BY <1>1, <3>3
  <2>3. CASE Holds(Frozen, o)
    <3>1. Holds(Content(Numbers(v), T), o)
      BY <1>3, <2>1, <2>3, HoldsMore
    <3> QED  BY <1>1, <3>1 DEF InTables
  <2>4. CASE InLogs(o, db.logfile, L)
    BY <1>1, <2>1, <2>4
  <2> QED  BY <1>1, <2>2, <2>3, <2>4 DEF Held
<1>5. CASE e.del # {}
  <2>1. e.log = db.logNumber /\ Content(Numbers(e.del), T) \subseteq Content(Numbers(e.add), T)
    BY <1>1, <1>5 DEF MergeInv
  <2>2. CASE InTables(o, db.version, T)
    <3>1. Content(Numbers(db.version), T) \subseteq Content(Numbers(v), T)
      BY <1>1, <2>1, ContentApplied
    <3>2. InTables(o, v, T)
      BY <2>2, <3>1, InTablesMore
    <3> QED  BY <1>1, <3>2
  <2>3. CASE InLogs(o, db.logNumber, L)
    BY <1>1, <2>1, <2>3
  <2>4. CASE InLogs(o, db.logfile, L)
    <3>1. \A n \in DOMAIN L : n >= db.logfile => n >= e.log
      BY <1>0, <1>1 DEF DiskTyped
    <3>2. InLogs(o, e.log, L)
      BY <2>4, <3>1 DEF InLogs
    <3> QED  BY <1>1, <3>2
  <2> QED  BY <1>1, <2>2, <2>3, <2>4 DEF Held
<1> QED  BY <1>4, <1>5

\* What the background thread does to the manifest.
LEMMA WrittenManifest ==
    ASSUME BaseInv, NumbersInv, FilesInv, CurrentInv, MergeInv, ManifestInv, db.up = "open", bg.pc = "manifest",
           NEW m, m = disk.manifests[db.manifest], NEW r \in {Torn, bg.edit[1]},
           NEW g \in ManifestOf, g.recs = Append(m.recs, r), g.synced \in {m.synced, Len(m.recs) + 1},
           NEW o, Held(o), Durable(o, m, disk.tables, disk.logs)
    PROVE  Durable(o, g, disk.tables, disk.logs)
<1>1. /\ m \in ManifestOf /\ m.synced <= Len(m.recs) /\ m.recs # <<>> /\ ManifestCovers(m)
  <2>1. disk.current = db.manifest /\ 1 < db.manifest /\ DiskTyped /\ db.manifest \in Nat
    BY FieldsOf DEF CurrentInv, NumbersInv, VersionNumbered
  <2>2. m \in ManifestOf /\ Opens(m, DOMAIN disk.tables)
    BY <2>1 DEF CurrentInv, CurrentOpens, DiskTyped
  <2>3. m.synced \in Nat /\ Len(m.recs) \in Nat
    BY <2>2, ManifestAdds
  <2>4. 1 <= Len(m.recs) /\ m.synced <= Len(m.recs)
    BY <2>2, <2>3 DEF Opens
  <2>5. m.recs # <<>>
    BY <2>4
  <2> QED  BY <2>2, <2>4, <2>5 DEF ManifestInv
<1>2. bg.edit[1] \in EditOf
  BY FieldsOf
<1>3. r \in EditOf \cup {Torn} /\ (r \in EditOf => r = bg.edit[1])
  <2>1. ASSUME r = Torn  PROVE r \notin EditOf
    BY <2>1, TornRecords
  <2> QED  BY <1>2, <2>1
<1>4. ASSUME NEW d \in Kept(m), Readable(d), r \in EditOf
      PROVE  InTables(o, Applied(VersionOf(d), r), disk.tables) \/ InLogs(o, r.log, disk.logs)
  <2>1. db.version \subseteq VersionOf(d)
    BY <1>1, <1>4 DEF ManifestCovers, Expected
  <2>2. r = bg.edit[1]
    BY <1>3, <1>4
  <2>3. Applied(db.version, bg.edit[1]) \subseteq Applied(VersionOf(d), r)
    BY <2>1, <2>2 DEF Applied
  <2> QED  BY <2>2, <2>3, HeldByEdit
<1>5. PICK T, L : T = disk.tables /\ L = disk.logs
  OBVIOUS
<1>6. Durable(o, g, T, L)
  <2>1. Durable(o, m, T, L)
    BY <1>5
  <2>2. \A d \in Kept(m) : Readable(d) /\ r \in EditOf =>
            InTables(o, Applied(VersionOf(d), r), T) \/ InLogs(o, r.log, L)
    BY <1>4, <1>5
  <2> QED  BY <1>1, <1>3, <2>1, <2>2, DurableAppended
<1> QED  BY <1>5, <1>6

LEMMA KeptOfWrite ==
    ASSUME BaseInv, NumbersInv, FilesInv, CurrentInv, MergeInv, ManifestInv,
           WriteManifest \/ WriteManifestFails, NEW o, PromiseKept(o), disk.current \notin {0, 1}
    PROVE  PromiseKept(o)'
<1> DEFINE m == disk.manifests[db.manifest]
<1>0. Background
  BY DEF Background
<1>1. /\ db.up = "open" /\ db'.up = "open" /\ bg.pc = "manifest" /\ bg.edit[1] \in EditOf
      /\ db'.version = db.version /\ db'.logNumber = db.logNumber /\ db'.logfile = db.logfile
      /\ db'.imm = db.imm /\ db'.mem = db.mem /\ db'.manifest = db.manifest
  <2>1. CASE WriteManifest
    <3>1. db' = db /\ bg.pc = "manifest" /\ bg.edit[1] \in EditOf
      BY <2>1, WriteManifestEffect
    <3> QED  BY <1>0, <3>1, BackgroundOpen
  <2>2. CASE WriteManifestFails
    BY <2>2, WriteManifestFailsEffect DEF DbIs
  <2> QED  BY <2>1, <2>2
<1>2. disk' = disk \/ \E r \in {Torn, bg.edit[1]}, g \in ManifestOf :
                          /\ g.recs = Append(m.recs, r) /\ g.synced \in {m.synced, Len(m.recs) + 1}
                          /\ disk' = [disk EXCEPT !.manifests[db.manifest] = g]
  <2>0. DiskTyped /\ LogsNumbered
    BY <1>1, FieldsOf DEF NumbersInv
  <2>1. m \in ManifestOf
    BY <2>0 DEF DiskTyped, LogsNumbered
  <2> HIDE DEF m
  <2>2. PICK e : e = bg.edit[1]
    OBVIOUS
  <2>3. e \in EditOf \cup {Torn} /\ Torn \in EditOf \cup {Torn}
    BY <1>1, <2>2
  <2>4. CASE WriteManifest
    <3>1. PICK g : g = Synced(Appended(m, e))
      OBVIOUS
    <3>2. g \in ManifestOf /\ g.recs = Append(m.recs, e) /\ g.synced = Len(m.recs) + 1
      BY <2>1, <2>3, <3>1, AppendedManifest
    <3>3. disk' = [disk EXCEPT !.manifests[db.manifest] = g]
      BY <2>2, <2>4, <3>1, WriteManifestEffect DEF m
    <3> QED  BY <2>2, <3>2, <3>3
  <2>5. CASE WriteManifestFails
    <3>1. disk' = disk \/ \E r \in {Torn, e} : disk' = [disk EXCEPT !.manifests[db.manifest] = Appended(m, r)]
      BY <2>2, <2>5, WriteManifestFailsEffect DEF m
    <3>2. ASSUME NEW r \in {Torn, e}, disk' = [disk EXCEPT !.manifests[db.manifest] = Appended(m, r)]
          PROVE  \E g \in ManifestOf : /\ g.recs = Append(m.recs, r) /\ g.synced \in {m.synced, Len(m.recs) + 1}
                                       /\ disk' = [disk EXCEPT !.manifests[db.manifest] = g]
      <4>1. PICK g : g = Appended(m, r)
        OBVIOUS
      <4>2. r \in EditOf \cup {Torn}
        BY <2>3, <3>2
      <4>3. g \in ManifestOf /\ g.recs = Append(m.recs, r) /\ g.synced = m.synced
        BY <2>1, <4>1, <4>2, AppendedManifest
      <4>4. disk' = [disk EXCEPT !.manifests[db.manifest] = g]
        BY <3>2, <4>1
      <4> QED  BY <4>3, <4>4
    <3> QED  BY <2>2, <3>1, <3>2
  <2> QED  BY <2>4, <2>5
<1>3. CASE disk' = disk
  <2>1. Held(o)' <=> Held(o)
    BY <1>1, <1>3 DEF Held, Frozen
  <2> QED  BY <1>1, <1>3, <2>1 DEF PromiseKept
<1>4. ASSUME NEW r \in {Torn, bg.edit[1]}, NEW g \in ManifestOf,
             g.recs = Append(m.recs, r), g.synced \in {m.synced, Len(m.recs) + 1},
             disk' = [disk EXCEPT !.manifests[db.manifest] = g]
      PROVE  PromiseKept(o)'
  <2>0. DiskTyped /\ db.manifest \in DOMAIN disk.manifests /\ disk.current = db.manifest
    BY <1>1, FieldsOf DEF NumbersInv, LogsNumbered, CurrentInv
  <2>1. /\ disk'.tables = disk.tables /\ disk'.logs = disk.logs /\ disk'.current = disk.current
        /\ disk'.manifests[db.manifest] = g
    BY <1>4, <2>0 DEF DiskTyped
  <2>2. Held(o)' <=> Held(o)
    BY <1>1, <2>1 DEF Held, Frozen
  <2>3. Held(o) /\ Durable(o, m, disk.tables, disk.logs)
    BY <1>1, <2>0 DEF PromiseKept
  <2>4. Durable(o, g, disk.tables, disk.logs)
    BY <1>1, <1>4, <2>3, WrittenManifest
  <2> QED  BY <1>1, <2>0, <2>1, <2>2, <2>3, <2>4 DEF PromiseKept
<1> QED  BY <1>2, <1>3, <1>4

LEMMA KeptOfInstall ==
    ASSUME BaseInv, NumbersInv, FilesInv, FilesInv', CurrentInv, MergeInv, ManifestInv,
           InstallVersion, NEW o, PromiseKept(o), disk.current \notin {0, 1}
    PROVE  PromiseKept(o)'
<1>0. Background
  BY DEF Background
<1>1. PICK held :
        /\ db.up = "open" /\ db'.up = "open" /\ bg.pc = "install" /\ bg.edit[1] \in EditOf
        /\ db'.version = Applied(db.version, bg.edit[1]) /\ db'.logNumber = bg.edit[1].log
        /\ db'.imm = IF IsFlush THEN <<>> ELSE db.imm
        /\ db'.logfile = db.logfile /\ db'.mem = db.mem /\ db'.manifest = db.manifest
        /\ disk'.current = disk.current
        /\ disk' = disk \/ (~db.error /\ FilesLeft(held))
  BY InstallVersionEffect DEF DbIs
<1>2. /\ DiskTyped /\ db.logfile \in Nat /\ db.manifest \in Nat /\ disk.current = db.manifest
      /\ bg.edit[1].log \in Nat /\ bg.edit[1].log <= db.logfile /\ LogsNumbered
  BY <1>1, FieldsOf DEF CurrentInv, NumbersInv, EditNumbered, EditOf
<1>3. \A n \in DOMAIN disk.logs : n >= db'.logNumber => n \in DOMAIN disk'.logs /\ disk'.logs[n] = disk.logs[n]
  BY <1>0, BackgroundLogs
<1>4. ASSUME NEW n \in Nat, db'.logNumber <= n
      PROVE  /\ LogsKept(o, n, disk.logs, disk'.logs)
             /\ InLogs(o, n, disk.logs) => InLogs(o, db'.logNumber, disk'.logs) /\ InLogs(o, n, disk'.logs)
  <2>1. PICK L, M, k : L = disk.logs /\ M = disk'.logs /\ k = db'.logNumber
    OBVIOUS
  <2>2. DOMAIN L \subseteq Nat /\ k \in Nat /\ k <= n /\ \A i \in DOMAIN L : i >= k => i \in DOMAIN M /\ M[i] = L[i]
    BY <1>1, <1>2, <1>3, <1>4, <2>1 DEF DiskTyped
  <2>3. \A i \in DOMAIN L : i >= n => i >= k
    BY <2>2
  <2>4. LogsKept(o, n, L, M)
    BY <2>2, <2>3 DEF LogsKept
  <2>5. InLogs(o, n, L) => InLogs(o, n, M) /\ InLogs(o, k, M)
    BY <2>2, <2>3 DEF InLogs
  <2> QED  BY <2>1, <2>4, <2>5
<1>5. Content(Numbers(db'.version), disk.tables) \subseteq Content(Numbers(db'.version), disk'.tables)
  <2>1. Numbers(db'.version) \subseteq DOMAIN disk'.tables
    BY <1>1 DEF FilesInv, FilesExist
  <2>2. \A n \in DOMAIN disk'.tables : disk'.tables[n] = disk.tables[n]
    BY <1>1 DEF FilesLeft
  <2> QED  BY <2>1, <2>2, ContentMore
<1>6. Held(o)'
  <2>1. Held(o)
    BY <1>1 DEF PromiseKept
  <2>2. InTables(o, db'.version, disk.tables) => InTables(o, db'.version, disk'.tables)
    BY <1>5, InTablesMore
  <2>3. CASE InLogs(o, db.logfile, disk.logs) /\ Holds(db.mem, o)
    BY <1>1, <1>2, <1>4, <2>3 DEF Held
  <2>4. CASE ~IsFlush /\ Holds(Frozen, o) /\ InLogs(o, db.logNumber, disk.logs)
    <3>1. bg.edit[1].log = db.logNumber
      BY <1>1, <2>4 DEF MergeInv, IsFlush
    <3>2. InLogs(o, db'.logNumber, disk'.logs)
      BY <1>1, <1>2, <1>4, <2>4, <3>1
    <3>3. Frozen' = Frozen
      BY <1>1, <2>4 DEF Frozen
    <3> QED  BY <2>4, <3>2, <3>3 DEF Held
  <2>5. CASE IsFlush /\ Holds(Frozen, o)
    <3>1. Frozen \subseteq Content(Numbers(bg.edit[1].add), disk.tables)
      BY <1>1, <2>5 DEF MergeInv, IsFlush
    <3>2. bg.edit[1].add \subseteq db'.version
      BY <1>1 DEF Applied
    <3>3. Content(Numbers(bg.edit[1].add), disk.tables) \subseteq Content(Numbers(db'.version), disk.tables)
      BY <3>2, ContentOfVersion
    <3>4. Holds(Content(Numbers(db'.version), disk.tables), o)
      BY <2>5, <3>1, <3>3, HoldsMore
    <3> QED  BY <2>2, <3>4 DEF InTables, Held
  <2>6. CASE InTables(o, db.version, disk.tables)
    <3>1. Content(Numbers(db.version), disk.tables) \subseteq Content(Numbers(db'.version), disk.tables)
      <4>1. CASE IsFlush
        <5>1. db.version \subseteq db'.version
          BY <1>1, <4>1 DEF Applied, IsFlush
        <5> QED  BY <5>1, ContentOfVersion
      <4>2. CASE ~IsFlush
        <5>1. Content(Numbers(bg.edit[1].del), disk.tables) \subseteq Content(Numbers(bg.edit[1].add), disk.tables)
          BY <1>1, <4>2 DEF MergeInv, IsFlush
        <5>2. Applied(db.version, bg.edit[1]) \subseteq db'.version
          BY <1>1
        <5>3. PICK v, e, u, T : v = db.version /\ e = bg.edit[1] /\ u = db'.version /\ T = disk.tables
          OBVIOUS
        <5>4. Content(Numbers(v), T) \subseteq Content(Numbers(u), T)
          BY <5>1, <5>2, <5>3, ContentApplied
        <5> QED  BY <5>3, <5>4
      <4> QED  BY <4>1, <4>2
    <3>2. InTables(o, db'.version, disk.tables)
      BY <2>6, <3>1, InTablesMore
    <3> QED  BY <2>2, <3>2 DEF Held
  <2> QED  BY <2>1, <2>3, <2>4, <2>5, <2>6 DEF Held
<1>7. Durable(o, disk'.manifests[disk'.current], disk'.tables, disk'.logs)
  <2>1. disk'.manifests[disk'.current] = disk.manifests[disk.current]
    <3>1. db.manifest >= db'.manifest /\ db.manifest \in DOMAIN disk.manifests
      BY <1>1, <1>2 DEF LogsNumbered
    <3> QED  BY <1>1, <1>2, <3>1 DEF FilesLeft
  <2>2. CASE disk' = disk
    BY <1>1, <2>1, <2>2 DEF PromiseKept
  <2>3. CASE ~db.error
    <3>1. PICK m, T, L, U, M : /\ m = disk.manifests[disk.current] /\ T = disk.tables /\ L = disk.logs
                               /\ U = disk'.tables /\ M = disk'.logs
      OBVIOUS
    <3>2. m \in ManifestOf /\ DOMAIN L \subseteq Nat /\ Durable(o, m, T, L)
      BY <3>1, CurrentManifest DEF PromiseKept
    <3>3. m.synced = Len(m.recs) /\ VersionOf(m) = db'.version /\ ManifestCovers(m)
      BY <1>1, <1>2, <2>3, <3>1 DEF CurrentInv, ManifestUpToDate, Expected, ManifestInv
    <3>4. ASSUME NEW c \in Kept(m), Readable(c)
          PROVE  /\ Content(Numbers(VersionOf(c)), T) \subseteq Content(Numbers(VersionOf(c)), U)
                 /\ LogsKept(o, LastEdit(c).log, L, M)
      <4>1. m \in FileOf(EditOf \cup {Torn}) /\ Len(m.recs) \in Nat
        BY <3>2, ManifestAdds DEF ManifestOf, FileOf
      <4>2. c.synced \in m.synced .. Len(m.recs) /\ (c.synced = Len(m.recs) => c.recs = m.recs)
        BY <4>1, KeptRecords
      <4>3. c.recs = m.recs
        BY <3>3, <4>1, <4>2
      <4>4. VersionOf(c) = db'.version
        BY <3>3, <4>3, SameRecords
      <4>5. LastEdit(c).log \in Nat /\ db'.logNumber <= LastEdit(c).log
        BY <1>1, <3>2, <3>3, <3>4, KeptEdit DEF ManifestCovers, LogNeeded
      <4>6. LogsKept(o, LastEdit(c).log, L, M)
        BY <1>4, <3>1, <4>5
      <4> QED  BY <1>5, <3>1, <4>4, <4>6
    <3>5. Durable(o, m, U, M)
      BY <3>2, <3>4, DurableKept
    <3> QED  BY <2>1, <3>1, <3>5
  <2> QED  BY <1>1, <2>2, <2>3
<1> QED  BY <1>1, <1>6, <1>7 DEF PromiseKept

LEMMA PromiseOfBackground ==
    ASSUME BaseInv, NumbersInv, FilesInv, FilesInv', CurrentInv, MergeInv, ManifestInv, PromiseInv, Background
    PROVE  PromiseInv'
<1>0. /\ db.up = "open" /\ db'.up = "open" /\ DiskTyped /\ UNCHANGED <<owed, behind>>
      /\ call' \in {call, SignalAll(call)}
      /\ db'.logfile = db.logfile /\ db'.mem = db.mem /\ disk'.current = disk.current
  BY BackgroundOpen, BackgroundFrame
<1>1. Promised' \subseteq Promised
  BY <1>0, PromisedSignalled
<1>2. 0 \notin DOMAIN disk'.logs
  <2>1. CASE BackgroundAdds
    BY <2>1 DEF BackgroundAdds, PromiseInv
  <2>2. CASE WriteManifest \/ WriteManifestFails
    <3>1. disk' = disk \/ \E k, g : disk' = [disk EXCEPT !.manifests[k] = g]
      BY <2>2, WriteManifestEffect, WriteManifestFailsEffect
    <3>2. disk'.logs = disk.logs
      BY <1>0, <3>1 DEF DiskTyped
    <3> QED  BY <3>2 DEF PromiseInv
  <2>3. CASE InstallVersion
    <3>1. PICK held : disk' = disk \/ FilesLeft(held)
      BY <2>3, InstallVersionEffect
    <3>2. DOMAIN disk'.logs \subseteq DOMAIN disk.logs
      BY <3>1 DEF FilesLeft
    <3> QED  BY <3>2 DEF PromiseInv
  <2> QED  BY <2>1, <2>2, <2>3, BackgroundFrame
<1>3. ASSUME NEW o, PromiseKept(o), disk.current \notin {0, 1}, BackgroundAdds
      PROVE  PromiseKept(o)'
  <2>1. /\ disk'.logs = disk.logs /\ disk'.manifests = disk.manifests
        /\ \A n \in DOMAIN disk.tables : n \in DOMAIN disk'.tables /\ disk'.tables[n] = disk.tables[n]
        /\ db'.version = db.version /\ db'.logNumber = db.logNumber /\ db'.imm = db.imm
    BY <1>3 DEF BackgroundAdds
  <2>2. PICK m, T, L, U : /\ m = disk.manifests[disk.current] /\ T = disk.tables /\ L = disk.logs
                          /\ U = disk'.tables
    OBVIOUS
  <2>3. m \in ManifestOf /\ DOMAIN L \subseteq Nat /\ Durable(o, m, T, L) /\ LogsKept(o, 0, L, L)
    BY <1>3, <2>2, CurrentManifest, LogsSameKept DEF PromiseKept
  <2>4. \A n \in DOMAIN T : n \in DOMAIN U /\ U[n] = T[n]
    BY <2>1, <2>2
  <2>5. Durable(o, m, U, L)
    BY <2>3, <2>4, DurableMore
  <2>6. Content(Numbers(db.version), T) \subseteq Content(Numbers(db.version), U)
    BY <2>4, ContentMore
  <2>7. InTables(o, db.version, T) => InTables(o, db.version, U)
    BY <2>6, InTablesMore
  <2>8. Held(o)
    BY <1>0, <1>3 DEF PromiseKept
  <2>9. Held(o)'
    BY <1>0, <2>1, <2>2, <2>7, <2>8 DEF Held, Frozen
  <2> QED  BY <1>0, <2>1, <2>2, <2>5, <2>9 DEF PromiseKept
<1>4. \A o : disk.current \notin {0, 1} /\ PromiseKept(o) => PromiseKept(o)'
  <2> SUFFICES ASSUME NEW o, PromiseKept(o), disk.current \notin {0, 1}  PROVE PromiseKept(o)'
    OBVIOUS
  <2> QED  BY <1>3, KeptOfWrite, KeptOfInstall, BackgroundFrame
<1> QED  BY <1>0, <1>1, <1>2, <1>4, PromisesKept

\* A manifest that is all synced needs the tables of its version only.
LEMMA DurableFirst ==
    ASSUME NEW m \in ManifestOf, m.synced = Len(m.recs), NEW o, NEW T, InTables(o, VersionOf(m), T), NEW L
    PROVE  Durable(o, m, T, L)
<1> SUFFICES ASSUME NEW c \in Kept(m)  PROVE InTables(o, VersionOf(c), T)
  BY DEF Durable, Recoverable
<1>1. m \in FileOf(EditOf \cup {Torn}) /\ Len(m.recs) \in Nat
  BY ManifestAdds DEF ManifestOf, FileOf
<1>2. c.synced \in m.synced .. Len(m.recs) /\ (c.synced = Len(m.recs) => c.recs = m.recs)
  BY <1>1, KeptRecords
<1>3. VersionOf(c) = VersionOf(m)
  BY <1>1, <1>2, SameRecords
<1> QED  BY <1>3

\* What is read of a manifest as it is.
LEMMA DurableRead ==
    ASSUME NEW m \in ManifestOf, m.synced <= Len(m.recs), Readable(m), NEW o, NEW T, NEW L, Durable(o, m, T, L)
    PROVE  InTables(o, VersionOf(m), T) \/ InLogs(o, LastEdit(m).log, L)
<1>1. m \in FileOf(EditOf \cup {Torn})
  BY DEF ManifestOf, FileOf
<1>2. PICK c \in Kept(m) : c.recs = m.recs /\ c.synced = Len(m.recs)
  BY <1>1, KeptAll
<1>3. VersionOf(c) = VersionOf(m) /\ LastEdit(c) = LastEdit(m) /\ Readable(c)
  BY <1>2, SameRecords
<1>4. Recoverable(o, c, T, L)
  BY <1>2, <1>3 DEF Durable
<1> QED  BY <1>3, <1>4 DEF Recoverable

LEMMA KeptOfRecover ==
    ASSUME BaseInv, CurrentInv, 0 \notin DOMAIN disk.logs, Recover, NEW o, PromiseKept(o),
           disk.current \notin {0, 1}
    PROVE  PromiseKept(o)'
<1> DEFINE m == disk.manifests[disk.current]
<1>1. m \in ManifestOf /\ m.synced <= Len(m.recs) /\ DOMAIN disk.logs \subseteq Nat
  BY CurrentManifest
<1>2. disk' = disk
  BY RecoverEffect
<1>3. CASE db'.up = "corrupt"
  BY <1>2, <1>3 DEF PromiseKept
<1>4. CASE db'.up # "corrupt"
  <2>1. /\ Readable(m) /\ db'.up = "logs" /\ db'.logNumber = LastEdit(m).log /\ db'.logfile = 0
        /\ db'.version = VersionOf(m)
    BY <1>4, RecoverEffect
  <2>2. InTables(o, VersionOf(m), disk.tables) \/ InLogs(o, LastEdit(m).log, disk.logs)
    BY <1>1, <2>1, DurableRead DEF PromiseKept
  <2> HIDE DEF m
  <2>3. CASE InTables(o, VersionOf(m), disk.tables)
    <3>1. ReadAgain(o)'
      BY <1>2, <2>1, <2>3 DEF ReadAgain
    <3> QED  BY <1>2, <2>1, <3>1 DEF PromiseKept
  <2>4. CASE InLogs(o, LastEdit(m).log, disk.logs)
    <3>1. PICK n \in DOMAIN disk.logs : n >= LastEdit(m).log /\ InLog(o, disk.logs[n])
      BY <2>4 DEF InLogs
    <3>2. n > 0
      BY <1>1
    <3>3. n \in LogsToRecover'
      BY <1>2, <2>1, <3>1, <3>2 DEF LogsToRecover
    <3>4. ReadAgain(o)'
      BY <1>2, <2>1, <3>1, <3>3 DEF ReadAgain
    <3> QED  BY <1>2, <2>1, <3>4 DEF PromiseKept
  <2> QED  BY <2>2, <2>3, <2>4
<1> QED  BY <1>3, <1>4

LEMMA KeptOfRecoverLog ==
    ASSUME BaseInv, NumbersInv, CurrentInv, OrderInv, RecoverLog, NEW o, PromiseKept(o),
           disk.current \notin {0, 1}
    PROVE  PromiseKept(o)'
<1>0. DiskTyped /\ db.nextFile \in Nat /\ db.version \in SUBSET Table
  BY FieldsOf
<1>1. PICK n, ents, next, last, version : Recovered(n, ents, next, last, version)
  BY LogRecovered
<1>2. /\ db.up = "logs" /\ db'.up = "logs" /\ db'.logNumber = db.logNumber /\ db'.logfile = n /\ db'.version = version
      /\ disk'.current = disk.current /\ disk'.logs = disk.logs /\ disk'.manifests = disk.manifests
      /\ disk'.tables = IF ents = {} THEN disk.tables ELSE With(disk.tables, db.nextFile, ents)
  BY <1>1, RecoverLogEffect
<1>3. /\ ents = Entries(disk.logs[n]) /\ n \in LogsToRecover /\ (\A k \in LogsToRecover : n <= k) /\ n \in Nat
      /\ version = db.version \cup IF ents = {} THEN {} ELSE {<<db.nextFile, 0>>}
  BY <1>1 DEF Recovered
<1>4. \A k \in DOMAIN disk.tables : k < db.nextFile => k \in DOMAIN disk'.tables /\ disk'.tables[k] = disk.tables[k]
  <2>1. CASE ents = {}
    BY <1>2, <2>1
  <2>2. CASE ents # {}
    <3>1. PICK T, U, x : T = disk.tables /\ U = With(disk.tables, db.nextFile, ents) /\ x = db.nextFile
      OBVIOUS
    <3>2. /\ DOMAIN U = DOMAIN T \cup {x} /\ \A k \in DOMAIN T : k # x => U[k] = T[k]
      BY <3>1 DEF With
    <3>3. disk'.tables = U
      BY <1>2, <2>2, <3>1
    <3>4. \A k : k < x => k # x
      BY <1>0, <3>1
    <3> QED  BY <3>1, <3>2, <3>3, <3>4
  <2> QED  BY <2>1, <2>2
<1>5. Durable(o, disk.manifests[disk.current], disk'.tables, disk.logs)
  <2>1. PICK m, T, L, U, b : /\ m = disk.manifests[disk.current] /\ T = disk.tables /\ L = disk.logs
                             /\ U = disk'.tables /\ b = db.nextFile
    OBVIOUS
  <2>2. /\ m \in ManifestOf /\ DOMAIN L \subseteq Nat /\ Durable(o, m, T, L) /\ AddsBelow(m, b)
    BY <1>2, <2>1, CurrentManifest DEF PromiseKept, OrderInv
  <2>3. ASSUME NEW c \in Kept(m), Readable(c)
        PROVE  /\ Content(Numbers(VersionOf(c)), T) \subseteq Content(Numbers(VersionOf(c)), U)
               /\ LogsKept(o, LastEdit(c).log, L, L)
    <3>1. \A k \in Numbers(VersionOf(c)) : k < b
      BY <2>2, <2>3, KeptBelow
    <3>2. \A k \in Numbers(VersionOf(c)) \cap DOMAIN T : k \in DOMAIN U /\ U[k] = T[k]
      BY <1>4, <2>1, <3>1
    <3> QED  BY <3>2, ContentMore, LogsSameKept
  <2>4. Durable(o, m, U, L)
    BY <2>2, <2>3, DurableKept
  <2> QED  BY <2>1, <2>4
<1>6. ReadAgain(o)'
  <2>1. CASE InTables(o, db.version, disk.tables)
    <3>1. \A k \in Numbers(db.version) : k < db.nextFile
      BY <1>2 DEF NumbersInv, VersionNumbered
    <3>2. Content(Numbers(db.version), disk.tables) \subseteq Content(Numbers(db.version), disk'.tables)
      BY <1>4, <3>1, ContentMore
    <3>3. db.version \subseteq version
      BY <1>3
    <3>4. Content(Numbers(db.version), disk'.tables) \subseteq Content(Numbers(version), disk'.tables)
      BY <3>3, ContentOfVersion
    <3>5. InTables(o, version, disk'.tables)
      <4>1. Content(Numbers(db.version), disk.tables) \subseteq Content(Numbers(version), disk'.tables)
        BY <3>2, <3>4
      <4> QED  BY <2>1, <4>1, InTablesMore
    <3> QED  BY <1>2, <3>5 DEF ReadAgain
  <2>2. ASSUME NEW k \in LogsToRecover, InLog(o, disk.logs[k])  PROVE ReadAgain(o)'
    <3>1. CASE k = n
      <4>1. Holds(ents, o)
        BY <1>3, <2>2, <3>1, InLogEntries
      <4>2. ents # {} /\ <<db.nextFile, 0>> \in version
        BY <1>3, <4>1 DEF Holds
      <4>3. db.nextFile \in Numbers(version)
        <5>1. <<db.nextFile, 0>>[1] = db.nextFile
          OBVIOUS
        <5> QED  BY <4>2, <5>1 DEF Numbers
      <4>4. db.nextFile \in DOMAIN disk'.tables /\ disk'.tables[db.nextFile] = ents
        BY <1>2, <4>2 DEF With
      <4>5. ents \subseteq Content(Numbers(version), disk'.tables)
        BY <4>3, <4>4 DEF Content
      <4>6. Holds(Content(Numbers(version), disk'.tables), o)
        BY <4>1, <4>5, HoldsMore
      <4> QED  BY <1>2, <4>6 DEF ReadAgain, InTables
    <3>2. CASE k # n
      <4>1. n <= k /\ k \in Nat /\ k \in DOMAIN disk.logs /\ k >= db.logNumber
        BY <1>0, <1>3, <2>2 DEF LogsToRecover, DiskTyped
      <4>2. k > n
        BY <1>3, <3>2, <4>1
      <4>3. k \in LogsToRecover'
        BY <1>2, <4>1, <4>2 DEF LogsToRecover
      <4> QED  BY <1>2, <2>2, <4>3 DEF ReadAgain
    <3> QED  BY <3>1, <3>2
  <2>3. ReadAgain(o)
    BY <1>2 DEF PromiseKept
  <2> QED  BY <2>1, <2>2, <2>3 DEF ReadAgain
<1> QED  BY <1>2, <1>5, <1>6 DEF PromiseKept

LEMMA KeptOfNewManifest ==
    ASSUME BaseInv, NumbersInv, CurrentInv, NewManifest, NEW o, PromiseKept(o), disk.current \notin {0, 1}
    PROVE  PromiseKept(o)'
<1> DEFINE log == db.nextFile
           e   == Edit(log, log + 1, db.lastSeq, db.version, {})
           f   == Synced(Appended(File, e))
<1>1. /\ db.up = "logs" /\ db'.up = "current" /\ db'.manifest = db.manifest /\ db'.version = db.version
      /\ LogsToRecover = {} /\ disk'.current = disk.current /\ disk'.tables = disk.tables
      /\ disk'.logs = With(disk.logs, log, File) /\ disk'.manifests = With(disk.manifests, db.manifest, f)
      /\ e \in EditOf /\ f \in ManifestOf /\ f.recs = <<e>> /\ f.synced = 1
  BY NewManifestEffect
<1>2. e.add = db.version
  BY NumbersOfEdit
<1> HIDE DEF f, e, log
<1>3. InTables(o, db.version, disk.tables)
  BY <1>1 DEF PromiseKept, ReadAgain
<1>4. /\ DiskTyped /\ log \in Nat /\ db.logNumber \in Nat /\ db.logfile \in Nat
      /\ db.logNumber < log /\ db.logfile < log
  BY <1>1, FieldsOf DEF NumbersInv, VersionNumbered, log
<1>5. LogsKept(o, 0, disk.logs, disk'.logs)
  <2>1. \A n \in DOMAIN disk.logs : n # log
    <3>1. \A n \in DOMAIN disk.logs : n < db.logNumber \/ n <= db.logfile
      BY <1>1, <1>4 DEF LogsToRecover, DiskTyped
    <3> QED  BY <1>4, <3>1 DEF DiskTyped
  <2>2. PICK L, M : L = disk.logs /\ M = disk'.logs
    OBVIOUS
  <2>3. \A n \in DOMAIN L : n \in DOMAIN M /\ M[n] = L[n]
    BY <1>1, <2>1, <2>2 DEF With
  <2>4. LogsKept(o, 0, L, M)
    BY <2>3 DEF LogsKept
  <2> QED  BY <2>2, <2>4
<1>6. Durable(o, disk'.manifests[disk.current], disk.tables, disk'.logs)
  <2>1. CASE disk.current = db.manifest
    <3>1. disk'.manifests[disk.current] = f
      BY <1>1, <2>1 DEF With
    <3>2. VersionOf(f) = db.version /\ Len(f.recs) = 1
      BY <1>1, <1>2, VersionFirst
    <3>3. PICK T, M : T = disk.tables /\ M = disk'.logs
      OBVIOUS
    <3>4. Durable(o, f, T, M)
      BY <1>1, <1>3, <3>2, <3>3, DurableFirst
    <3> QED  BY <3>1, <3>3, <3>4
  <2>2. CASE disk.current # db.manifest
    <3>1. disk'.manifests[disk.current] = disk.manifests[disk.current]
      <4>1. disk.current \in DOMAIN disk.manifests
        BY CurrentManifest
      <4> QED  BY <1>1, <2>2, <4>1 DEF With
    <3>2. PICK m, T, L, M : /\ m = disk.manifests[disk.current] /\ T = disk.tables /\ L = disk.logs
                            /\ M = disk'.logs
      OBVIOUS
    <3>3. m \in ManifestOf /\ DOMAIN L \subseteq Nat /\ Durable(o, m, T, L) /\ LogsKept(o, 0, L, M)
      BY <1>5, <3>2, CurrentManifest DEF PromiseKept
    <3>4. Durable(o, m, T, M)
      BY <3>3, DurableMore
    <3> QED  BY <3>1, <3>2, <3>4
  <2> QED  BY <2>1, <2>2
<1>7. ReadAgain(o)'
  BY <1>1, <1>3 DEF ReadAgain
<1> QED  BY <1>1, <1>6, <1>7 DEF PromiseKept

LEMMA KeptOfSetCurrent ==
    ASSUME BaseInv, NumbersInv, FilesInv, CurrentInv, SetCurrent, NEW o, PromiseKept(o)
    PROVE  PromiseKept(o)'
<1>1. /\ db.up = "current" /\ db'.up = "open" /\ bg = BgOff
      /\ db'.manifest = db.manifest /\ db'.version = db.version
      /\ disk'.current = db.manifest /\ FilesLeft({})
      /\ DOMAIN disk'.tables = DOMAIN disk.tables \cap Numbers(db.version)
  BY SetCurrentEffect
<1>2. InTables(o, db.version, disk'.tables)
  <2>1. InTables(o, db.version, disk.tables)
    BY <1>1 DEF PromiseKept, ReadAgain
  <2>2. \A n \in Numbers(db.version) \cap DOMAIN disk.tables :
            n \in DOMAIN disk'.tables /\ disk'.tables[n] = disk.tables[n]
    BY <1>1 DEF FilesLeft
  <2>3. Content(Numbers(db.version), disk.tables) \subseteq Content(Numbers(db.version), disk'.tables)
    BY <2>2, ContentMore
  <2> QED  BY <2>1, <2>3, InTablesMore
<1>3. /\ disk'.manifests[db.manifest] = disk.manifests[db.manifest]
      /\ disk.manifests[db.manifest] \in ManifestOf
      /\ disk.manifests[db.manifest].synced = Len(disk.manifests[db.manifest].recs)
      /\ VersionOf(disk.manifests[db.manifest]) = db.version
  <2>1. DiskTyped /\ LogsNumbered /\ ManifestUpToDate /\ db.manifest \in Nat
    BY <1>1, FieldsOf DEF NumbersInv, CurrentInv
  <2>2. Expected = db.version
    BY <1>1 DEF Expected, BgOff
  <2>3. db.manifest >= db'.manifest
    BY <1>1, <2>1
  <2> QED  BY <1>1, <2>1, <2>2, <2>3 DEF FilesLeft, LogsNumbered, DiskTyped, ManifestUpToDate
<1>4. Durable(o, disk'.manifests[disk'.current], disk'.tables, disk'.logs)
  <2>1. PICK m, U, M : m = disk.manifests[db.manifest] /\ U = disk'.tables /\ M = disk'.logs
    OBVIOUS
  <2>2. Durable(o, m, U, M)
    BY <1>2, <1>3, <2>1, DurableFirst
  <2> QED  BY <1>1, <1>3, <2>1, <2>2
<1>5. Held(o)'
  BY <1>1, <1>2 DEF Held
<1> QED  BY <1>1, <1>4, <1>5 DEF PromiseKept

LEMMA PromiseOfOpen ==
    ASSUME BaseInv, NumbersInv, FilesInv, CurrentInv, SeqInv, PromiseInv, Open
    PROVE  PromiseInv'
<1>1. UNCHANGED <<call, owed, behind>>
  BY DEF Open, NewDB, Recover, RecoverLog, NewManifest, SetCurrent, OpenStep
<1>2. Promised' = Promised /\ behind' = behind
  BY <1>1, PromisedSame
<1>3. ASSUME 0 \notin DOMAIN disk'.logs, disk'.current \in {0, 1} => disk.current \in {0, 1},
             \A o : disk.current \notin {0, 1} /\ PromiseKept(o) => PromiseKept(o)'
      PROVE  PromiseInv'
  BY <1>2, <1>3, PromisesKept
<1>4. 0 \notin DOMAIN disk.logs
  BY DEF PromiseInv
<1>5. CASE NewDB
  <2>1. disk.current = 0 /\ disk'.logs = disk.logs
    BY <1>5, NewDBEffect
  <2> QED  BY <1>3, <1>4, <2>1
<1>6. CASE Recover
  <2>1. disk' = disk
    BY <1>6, RecoverEffect
  <2> QED  BY <1>3, <1>4, <1>6, <2>1, KeptOfRecover
<1>7. CASE RecoverLog
  <2>1. PICK n, ents, next, last, version : Recovered(n, ents, next, last, version)
    BY <1>7, LogRecovered
  <2>2. disk'.logs = disk.logs /\ disk'.current = disk.current
    BY <1>7, <2>1, RecoverLogEffect
  <2> QED  BY <1>3, <1>4, <1>7, <2>2, KeptOfRecoverLog DEF SeqInv
<1>8. CASE NewManifest
  <2>1. disk'.logs = With(disk.logs, db.nextFile, File) /\ disk'.current = disk.current /\ db.up = "logs"
    BY <1>8, NewManifestEffect
  <2>2. db.nextFile # 0
    BY <2>1, FieldsOf DEF NumbersInv, VersionNumbered
  <2>3. 0 \notin DOMAIN disk'.logs
    BY <1>4, <2>1, <2>2 DEF With
  <2> QED  BY <1>3, <1>8, <2>1, <2>3, KeptOfNewManifest
<1>9. CASE SetCurrent
  <2>1. db.up = "current" /\ disk'.current = db.manifest /\ FilesLeft({})
    BY <1>9, SetCurrentEffect
  <2>2. 0 \notin DOMAIN disk'.logs
    BY <1>4, <2>1 DEF FilesLeft
  <2>3. disk'.current \notin {0, 1}
    BY <2>1, FieldsOf DEF NumbersInv, VersionNumbered
  <2> QED  BY <1>3, <1>9, <2>2, <2>3, KeptOfSetCurrent
<1> QED  BY <1>5, <1>6, <1>7, <1>8, <1>9 DEF Open

\* A crash of the machine leaves of the logs what was synced, and of the manifest
\* what might have been left of it before.
LEMMA PromiseOfCrash ==
    ASSUME BaseInv, BaseInv', CurrentInv, PromiseInv, ProcessCrash \/ MachineCrash
    PROVE  PromiseInv'
<1>1. /\ db'.up = "down"
      /\ disk'.current = disk.current /\ disk'.tables = disk.tables
      /\ DOMAIN disk'.logs = DOMAIN disk.logs /\ DOMAIN disk'.manifests = DOMAIN disk.manifests
      /\ \/ disk'.logs = disk.logs /\ disk'.manifests = disk.manifests /\ owed' = owed
         \/ /\ owed' = {o \in owed : o.sync}
            /\ \A n \in DOMAIN disk.logs :
                  \E k \in disk.logs[n].synced .. Len(disk.logs[n].recs) :
                      disk'.logs[n] = Cut(disk.logs[n], k)
            /\ \A n \in DOMAIN disk.manifests :
                  \E k \in disk.manifests[n].synced .. Len(disk.manifests[n].recs) :
                      disk'.manifests[n] = Cut(disk.manifests[n], k)
  BY CrashEffect
<1>2. behind' = behind
  BY DEF ProcessCrash, MachineCrash, Crash
<1>3. Promised' = owed'
  <2>1. \A w \in Writer : call'[w].pc = "idle"
    BY <1>1 DEF BaseInv, QueueInv, Idle
  <2>2. \A w \in Writer : ~Told(w)'
    BY <2>1 DEF Told
  <2> QED  BY <2>2 DEF Promised
<1>4. Promised' \subseteq Promised
  BY <1>1, <1>3 DEF Promised
<1>5. ASSUME NEW o \in Promised', PromiseKept(o), disk.current \notin {0, 1}
      PROVE  PromiseKept(o)'
  <2>1. CASE disk'.logs = disk.logs /\ disk'.manifests = disk.manifests
    BY <1>1, <1>5, <2>1 DEF PromiseKept
  <2>2. CASE /\ owed' = {p \in owed : p.sync}
             /\ \A n \in DOMAIN disk.logs :
                   \E k \in disk.logs[n].synced .. Len(disk.logs[n].recs) :
                       disk'.logs[n] = Cut(disk.logs[n], k)
             /\ \A n \in DOMAIN disk.manifests :
                   \E k \in disk.manifests[n].synced .. Len(disk.manifests[n].recs) :
                       disk'.manifests[n] = Cut(disk.manifests[n], k)
    <3>1. o.sync
      BY <1>3, <1>5, <2>2
    <3>2. PICK m, d, T, L, M : /\ m = disk.manifests[disk.current] /\ d = disk'.manifests[disk.current]
                               /\ T = disk.tables /\ L = disk.logs /\ M = disk'.logs
      OBVIOUS
    <3>3. m \in ManifestOf /\ DOMAIN L \subseteq Nat /\ Durable(o, m, T, L)
      BY <1>5, <3>2, CurrentManifest DEF PromiseKept
    <3>4. d \in Kept(m)
      <4>1. disk.current \in DOMAIN disk.manifests
        BY <1>5, CurrentManifest
      <4> QED  BY <2>2, <3>2, <4>1 DEF Kept
    <3>5. DOMAIN M = DOMAIN L /\ \A n \in DOMAIN L : InLog(o, L[n]) => InLog(o, M[n])
      <4>1. DOMAIN M = DOMAIN L
        BY <1>1, <3>2
      <4>2. ASSUME NEW n \in DOMAIN L, InLog(o, L[n])  PROVE InLog(o, M[n])
        <5>1. L[n] \in LogOf
          BY <3>2, <4>2, FieldsOf DEF DiskTyped
        <5>2. PICK f : f = L[n]
          OBVIOUS
        <5>3. PICK k \in f.synced .. Len(f.recs) : M[n] = Cut(f, k)
          BY <2>2, <3>2, <4>2, <5>2
        <5>4. InLog(o, Cut(f, k))
          BY <3>1, <4>2, <5>1, <5>2, InLogCut
        <5> QED  BY <5>3, <5>4
      <4> QED  BY <4>1, <4>2
    <3>6. ASSUME NEW c \in Kept(d), Readable(c)  PROVE Recoverable(o, c, T, M)
      <4>1. m \in FileOf(EditOf \cup {Torn})
        BY <3>3 DEF ManifestOf, FileOf
      <4>2. c.recs = d.recs
        BY <3>4, <3>6, <4>1, KeptTwice
      <4>3. VersionOf(c) = VersionOf(d) /\ LastEdit(c) = LastEdit(d) /\ Readable(d)
        BY <3>6, <4>2, SameRecords
      <4>4. Recoverable(o, d, T, L)
        BY <3>1, <3>3, <3>4, <4>3 DEF Durable
      <4>5. InLogs(o, LastEdit(d).log, L) => InLogs(o, LastEdit(d).log, M)
        BY <3>5 DEF InLogs
      <4> QED  BY <4>3, <4>4, <4>5 DEF Recoverable
    <3>7. Durable(o, d, T, M)
      BY <3>6 DEF Durable
    <3> QED  BY <1>1, <3>2, <3>7 DEF PromiseKept
  <2> QED  BY <1>1, <2>1, <2>2
<1>6. 0 \notin DOMAIN disk'.logs
  BY <1>1 DEF PromiseInv
<1> QED  BY <1>1, <1>2, <1>4, <1>5, <1>6, PromisesKept

LEMMA InitPromise == Init => MergeInv /\ ManifestInv /\ PromiseInv
<1> SUFFICES ASSUME Init  PROVE MergeInv /\ ManifestInv /\ PromiseInv
  OBVIOUS
<1>1. /\ bg.pc = "off" /\ bg.written = FALSE /\ bg.inWork = FALSE
      /\ db.up = "down" /\ disk.logs = <<>> /\ disk.current = 0 /\ owed = {}
  BY DEF Init, BgOff, Closed
<1>2. Promised = {}
  <2>1. \A w \in Writer : call[w].pc = "idle"
    BY DEF Init, Idle
  <2> QED  BY <1>1, <2>1 DEF Promised, Told
<1>3. 0 \notin DOMAIN disk.logs
  BY <1>1
<1> QED  BY <1>1, <1>2, <1>3 DEF MergeInv, ManifestInv, PromiseInv

LEMMA PromiseStep ==
    /\ BaseInv /\ BaseInv' /\ NumbersInv /\ FilesInv /\ FilesInv' /\ CurrentInv /\ SeqInv
    /\ MergeInv /\ ManifestInv /\ WrittenInv /\ PromiseInv /\ [Next]_vars
    => PromiseInv'
<1> SUFFICES ASSUME BaseInv, BaseInv', NumbersInv, FilesInv, FilesInv', CurrentInv, SeqInv,
                    MergeInv, ManifestInv, WrittenInv, PromiseInv, [Next]_vars
             PROVE  PromiseInv'
  OBVIOUS
<1>1. CASE \E w \in Writer : Thread(w)
  BY <1>1, PromiseOfThread
<1>2. CASE \E w \in Writer : \E sync, batch \in BOOLEAN : Call(w, sync, batch)
  BY <1>2, PromiseOfCall
<1>3. CASE Background
  BY <1>3, PromiseOfBackground
<1>4. CASE Open
  BY <1>4, PromiseOfOpen
<1>5. CASE PinVersion \/ UnpinVersion \/ UNCHANGED vars
  <2>1. UNCHANGED disk /\ UNCHANGED db /\ UNCHANGED behind /\ UNCHANGED call /\ UNCHANGED owed
    BY <1>5 DEF PinVersion, UnpinVersion, vars
  <2>2. Promised' \subseteq Promised
    BY <2>1, PromisedSame
  <2> QED  BY <2>1, <2>2, PromiseSame
<1>6. CASE ProcessCrash \/ MachineCrash
  BY <1>6, PromiseOfCrash
<1> QED  BY <1>1, <1>2, <1>3, <1>4, <1>5, <1>6 DEF Next

\* What is held can be read.
LEMMA HeldVisible ==
    ASSUME BaseInv, NEW o, Held(o)
    PROVE  o.id \in {e.id : e \in Visible}
<1>1. CASE InTables(o, db.version, disk.tables)
  <2>1. PICK e \in Content(Numbers(db.version), disk.tables) : e.id = o.id
    BY <1>1 DEF InTables, Holds
  <2>2. e \in Visible
    BY <2>1 DEF Content, Visible
  <2> QED  BY <2>1, <2>2
<1>2. CASE Holds(Frozen, o)
  <2>1. PICK e \in Frozen : e.id = o.id
    BY <1>2 DEF Holds
  <2>2. e \in UNION Range(db.imm)
    <3>1. db.imm \in ImmOf /\ db.imm # <<>>
      BY <2>1, FieldsOf DEF Frozen
    <3>2. PICK m : db.imm = <<m>>
      BY <3>1 DEF ImmOf
    <3>3. Range(<<m>>) = {m} /\ <<m>>[1] = m
      BY DEF Range
    <3> QED  BY <2>1, <3>1, <3>2, <3>3 DEF Frozen
  <2> QED  BY <2>1, <2>2 DEF Visible
<1>3. CASE Holds(db.mem, o)
  BY <1>3 DEF Holds, Visible
<1> QED  BY <1>1, <1>2, <1>3 DEF Held

\* Every write that has returned OK, and is not behind a torn record of a log, can be
\* read whenever the database is open: while the memtable that has it is written to,
\* frozen, written out and merged, after a process has crashed and DB::Open has read
\* the logs again, and after the machine has, if it was to be synced (DBImpl::Write,
\* DBImpl::Recover; options.h, WriteOptions::sync).
THEOREM LevelDBWritesSurvive == Spec => []WritesSurvive
<1>1. Init => /\ BaseInv /\ NumbersInv /\ FilesInv /\ CurrentInv /\ SeqInv
              /\ MergeInv /\ ManifestInv /\ WrittenInv /\ PromiseInv
  BY InitBase, InitNumbers, InitFiles, InitCurrent, InitSeq, InitWritten, InitPromise
<1>2. /\ BaseInv /\ NumbersInv /\ FilesInv /\ CurrentInv /\ SeqInv
      /\ MergeInv /\ ManifestInv /\ WrittenInv /\ PromiseInv /\ [Next]_vars
      => (/\ BaseInv /\ NumbersInv /\ FilesInv /\ CurrentInv /\ SeqInv
          /\ MergeInv /\ ManifestInv /\ WrittenInv /\ PromiseInv)'
  <2> SUFFICES ASSUME BaseInv, NumbersInv, FilesInv, CurrentInv, SeqInv,
                      MergeInv, ManifestInv, WrittenInv, PromiseInv, [Next]_vars
               PROVE  (/\ BaseInv /\ NumbersInv /\ FilesInv /\ CurrentInv /\ SeqInv
                       /\ MergeInv /\ ManifestInv /\ WrittenInv /\ PromiseInv)'
    OBVIOUS
  <2>1. BaseInv'
    BY BaseStep
  <2>2. NumbersInv' /\ FilesInv' /\ CurrentInv' /\ SeqInv'
    BY <2>1, NumbersStep, FilesStep, CurrentStep, SeqStep
  <2>3. MergeInv' /\ ManifestInv' /\ WrittenInv' /\ PromiseInv'
    BY <2>1, <2>2, MergeStep, ManifestStep, WrittenStep, PromiseStep
  <2> QED  BY <2>1, <2>2, <2>3
<1>3. BaseInv /\ PromiseInv => WritesSurvive
  <2> SUFFICES ASSUME BaseInv, PromiseInv, db.up = "open", NEW o \in owed, o.id \notin behind
               PROVE  o.id \in {e.id : e \in Visible}
    BY DEF WritesSurvive
  <2>1. Held(o)
    BY DEF PromiseInv, Promised, PromiseKept
  <2> QED  BY <2>1, HeldVisible
<1> QED  BY <1>1, <1>2, <1>3, PTL DEF Spec
=============================================================================
