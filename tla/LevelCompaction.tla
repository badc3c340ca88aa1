--------------------------- MODULE LevelCompaction ---------------------------
(***************************************************************************)
(* LevelDB's tree of table files (db/version_set.cc) and the background    *)
(* thread that rearranges it (db/db_impl.cc) while users write, read and   *)
(* hold snapshots.  A file is the set of its entries, its size their       *)
(* number.  A compaction is two steps, as the mutex is released in between:*)
(* its inputs, the version and the oldest snapshot are taken in the first, *)
(* its outputs installed in the second, and writes, snapshots and flushes  *)
(* of the memtable happen in the meantime.  Logs, the manifest and crashes *)
(* are in module LevelDB.                                                  *)
(***************************************************************************)
EXTENDS CompactionRules, Integers, SequencesExt

CONSTANTS
    MaxKey,             \* user keys are 1 .. MaxKey
    MaxSeq,             \* bound: how many writes there are
    NumLevels,          \* config::kNumLevels
    MaxMemCompactLevel, \* config::kMaxMemCompactLevel
    L0Trigger,          \* config::kL0_CompactionTrigger
    LevelEntries,       \* the limit of level 1, for MaxBytesForLevel
    MaxFileEntries,     \* options.max_file_size
    OverlapFactor,      \* the 10 of MaxGrandParentOverlapBytes
    ExpandFactor,       \* the 25 of ExpandedCompactionByteSizeLimit
    MaxSnapshots,       \* bound: snapshots held at a time
    MaxManual,          \* bound: ranges the user asks to compact
    ManualKeys          \* bound: the keys such a range starts and ends with

ASSUME LevelAssumption ==
    /\ MaxKey \in Nat \ {0} /\ ManualKeys \subseteq 1 .. MaxKey
    /\ MaxSeq \in Nat /\ MaxSnapshots \in Nat /\ MaxManual \in Nat
    /\ NumLevels \in Nat /\ NumLevels > 2 /\ MaxMemCompactLevel \in 0 .. NumLevels - 1
    /\ {L0Trigger, LevelEntries, MaxFileEntries, OverlapFactor, ExpandFactor} \subseteq Nat \ {0}

VARIABLES
    mem, imm,        \* the memtables; imm is {} when there is none
    files,           \* the files of the current version, per level
    nextFile,        \* next_file_number_
    seekFile,        \* file_to_compact_ of the current version, <<>> for NULL
    compactPointer,  \* where the next compaction of a level starts, <<>> for empty
    snapshots,       \* snapshots_, oldest first
    comp,            \* the compaction under way, <<>> for none
    manual,          \* manual_compaction_, <<>> for NULL
    written,         \* history: every entry written
    spoilt,          \* history: how the levels lost their order, see below
    manuals          \* counts the manual compactions

vars == <<mem, imm, files, nextFile, seekFile, compactPointer, snapshots, comp,
          manual, written, spoilt, manuals>>

Key   == 1 .. MaxKey
Level == 0 .. NumLevels - 1
LastSequence == Cardinality(written)

-----------------------------------------------------------------------------
(* Files.                                                                  *)

First(ents) == CHOOSE e \in ents : \A f \in ents : f = e \/ Before(e, f)
Final(ents) == CHOOSE e \in ents : \A f \in ents : f = e \/ Before(f, e)
Lo(f) == First(f.ents).key
Hi(f) == Final(f.ents).key
Contents(fs) == UNION {f.ents : f \in fs}
Size(fs)     == Cardinality(Contents(fs))

\* A finite set in order: an element comes after those that are before it.
Sorted(S, op(_, _)) ==
    [i \in 1 .. Cardinality(S) |-> CHOOSE x \in S : Cardinality({y \in S : op(y, x)}) = i - 1]

\* The order of the files of a level in a version: BySmallestKey.
InOrder(fs) ==
    Sorted(fs, LAMBDA f, g : Before(First(f.ents), First(g.ents))
                             \/ (First(f.ents) = First(g.ents) /\ f.num < g.num))

MaxGrandParentOverlap == OverlapFactor * MaxFileEntries
ExpandedLimit         == ExpandFactor * MaxFileEntries

Touches(f, lo, hi) == Hi(f) >= lo /\ Lo(f) <= hi
OverlapInLevel(level, lo, hi) == \E f \in files[level] : Touches(f, lo, hi)

\* GetOverlappingInputs; level-0 files may overlap each other, so there a file
\* that is taken widens the range and the search starts again.
Overlapping(level, lo, hi) ==
    LET touched(r) == {f \in files[level] : Touches(f, r[1], r[2])}
        widened[n \in 0 .. Cardinality(files[level])] ==
            IF n = 0 \/ level > 0 THEN <<lo, hi>>
            ELSE LET r == widened[n - 1]
                 IN  <<Min({r[1]} \cup {Lo(f) : f \in touched(r)}),
                       Max({r[2]} \cup {Hi(f) : f \in touched(r)})>>
    IN  touched(widened[Cardinality(files[level])])

\* PickLevelForMemTableOutput: as deep as nothing above and beside it overlaps.
PickLevel(lo, hi) ==
    LET free(l) == /\ ~OverlapInLevel(l, lo, hi)
                   /\ l + 1 < NumLevels =>
                        Size(Overlapping(l + 1, lo, hi)) <= MaxGrandParentOverlap
    IN  IF OverlapInLevel(0, lo, hi) THEN 0
        ELSE Max({l \in 0 .. MaxMemCompactLevel : \A m \in 1 .. l : free(m)})

-----------------------------------------------------------------------------
(* Reading.                                                                *)

\* The files of a level that Version::Get may read: of level 0 those that overlap
\* the key; below at most one, the first whose largest entry is not before the key
\* looked for (FindFile).
LevelFiles(level, k, s) ==
    LET reach == {f \in files[level] : ~Before(Final(f.ents), [key |-> k, seq |-> s])}
        first == {f \in reach : \A g \in reach : f = g \/ Before(Final(f.ents), Final(g.ents))}
    IN  IF level = 0 THEN {f \in files[0] : Touches(f, k, k)} ELSE {f \in first : Lo(f) <= k}

\* Those files with their levels, in the order Version::Get reads them: NewestFirst
\* in level 0.
Candidates(k, s) ==
    Sorted(UNION {{l} \X LevelFiles(l, k, s) : l \in Level},
           LAMBDA a, b : a[1] < b[1] \/ (a[1] = b[1] /\ a[2].num > b[2].num))

FilesRead(k, s) ==
    LET c    == Candidates(k, s)
        hits == {i \in DOMAIN c : Answer(c[i][2].ents, k, s) # {}}
    IN  IF hits = {} THEN c ELSE SubSeq(c, 1, Min(hits))

\* DBImpl::Get: the memtables, then the files level by level; the first entry
\* of the key ends the search.
Get(k, s) ==
    LET tables == FilesRead(k, s)
        found  == IF Answer(mem, k, s) # {} THEN mem
                  ELSE IF Answer(imm, k, s) # {} THEN imm
                  ELSE IF tables # <<>> THEN Last(tables)[2].ents ELSE {}
    IN  Reads(found, k, s)

\* The sequence numbers somebody may read at: the snapshots held, and now.
Readable == {LastSequence} \cup Range(snapshots)

\* A DBIter over the merging iterator: it meets every entry, in their order.
Scan(k, s) == Reads(mem \cup imm \cup UNION {Contents(files[l]) : l \in Level}, k, s)

-----------------------------------------------------------------------------
(* Writes, reads and snapshots.                                            *)

Init ==
    /\ mem = {} /\ imm = {} /\ files = [l \in Level |-> {}] /\ nextFile = 1
    /\ seekFile = <<>> /\ compactPointer = [l \in Level |-> <<>>]
    /\ snapshots = <<>> /\ comp = <<>> /\ manual = <<>>
    /\ written = {} /\ spoilt = {} /\ manuals = 0

\* A Put or a Delete, in the memtable once it is logged.
Write(k, del) ==
    /\ LastSequence < MaxSeq
    /\ LET e == [key |-> k, seq |-> LastSequence + 1, del |-> del]
       IN  mem' = mem \cup {e} /\ written' = written \cup {e}
    /\ UNCHANGED <<imm, files, nextFile, seekFile, compactPointer, snapshots, comp,
                   manual, spoilt, manuals>>

\* MakeRoomForWrite finds the memtable full, or is forced.
SwitchMemTable ==
    /\ mem # {} /\ imm = {}
    /\ imm' = mem /\ mem' = {}
    /\ UNCHANGED <<files, nextFile, seekFile, compactPointer, snapshots, comp, manual,
                   written, spoilt, manuals>>

GetSnapshot ==
    /\ Len(snapshots) < MaxSnapshots
    /\ snapshots' = Append(snapshots, LastSequence)
    /\ UNCHANGED <<mem, imm, files, nextFile, seekFile, compactPointer, comp, manual,
                   written, spoilt, manuals>>

ReleaseSnapshot(i) ==
    /\ i \in DOMAIN snapshots
    /\ snapshots' = RemoveAt(snapshots, i)
    /\ UNCHANGED <<mem, imm, files, nextFile, seekFile, compactPointer, comp, manual,
                   written, spoilt, manuals>>

\* manual_compaction_ points to the request; between two parts of its range it
\* does not, until the waiting user sets it again.
ManualDue == manual # <<>> /\ manual[1].set

\* Mutated form: only a flush wakes the waiting user.
SetManualByFlush ==
    /\ manual # <<>> /\ ~manual[1].set /\ imm # {}
    /\ manual' = <<[manual[1] EXCEPT !.set = TRUE]>>
    /\ UNCHANGED <<mem, imm, files, nextFile, seekFile, compactPointer, snapshots, comp,
                   written, spoilt, manuals>>

\* TEST_CompactRange, woken by the end of a part: it asks for the rest.
SetManual ==
    /\ manual # <<>> /\ ~manual[1].set
    /\ manual' = <<[manual[1] EXCEPT !.set = TRUE]>>
    /\ UNCHANGED <<mem, imm, files, nextFile, seekFile, compactPointer, snapshots, comp,
                   written, spoilt, manuals>>

\* UpdateStats, after a Get that had to read two files or when an iterator samples
\* a key that two files cover: the first is charged, and once its allowed seeks
\* are used up (any time) it is due.
ChargeSeek(k, s) ==
    /\ \/ s \in Readable /\ Answer(mem \cup imm, k, s) = {} /\ Len(FilesRead(k, s)) > 1
       \/ (\E e \in written : e.key = k /\ e.seq = s) /\ Len(Candidates(k, s)) > 1
    /\ seekFile = <<>>
    /\ seekFile' = Candidates(k, s)[1]
    /\ UNCHANGED <<mem, imm, files, nextFile, compactPointer, snapshots, comp, manual,
                   written, spoilt, manuals>>

\* CompactRange and TEST_CompactRange ask for a range of a level above the
\* deepest one that has data of it.
RequestCompaction(level, lo, hi) ==
    /\ manual = <<>> /\ manuals < MaxManual /\ lo <= hi
    /\ \/ level = 0
       \/ \E m \in level + 1 .. NumLevels - 1 : OverlapInLevel(m, lo, hi)
    /\ manual' = <<[level |-> level, begin |-> lo, end |-> hi, set |-> TRUE]>>
    /\ manuals' = manuals + 1
    /\ UNCHANGED <<mem, imm, files, nextFile, seekFile, compactPointer, snapshots, comp,
                   written, spoilt>>

-----------------------------------------------------------------------------
(* Versions.                                                               *)

Disjoint(f, g) == Before(Final(f.ents), First(g.ents)) \/ Before(Final(g.ents), First(f.ents))
SharesKey(f, g) == {e.key : e \in f.ents} \cap {e.key : e \in g.ents} # {}

\* Two things no code prevents.  MaybeAddFile asserts that the files of a level
\* below 0 do not overlap; nothing says that they share no user key.
Flaws(fs) ==
    LET pairs == UNION {{{f, g} : f, g \in fs[l]} : l \in Level \ {0}}
    IN  {"overlap" : p \in {q \in pairs : \E f, g \in q : f # g /\ ~Disjoint(f, g)}}
        \cup {"split" : p \in {q \in pairs : \E f, g \in q : f # g /\ SharesKey(f, g)}}

\* LogAndApply: the edit is applied to the current version (Builder), whose
\* successor has no file due for its seeks.
Install(fs) ==
    /\ files' = fs
    /\ spoilt' = spoilt \cup Flaws(fs)
    /\ seekFile' = <<>>

\* Mutated form: the number of the table is not taken.
CompactMemTableUnnumbered ==
    /\ imm # {}
    /\ LET f     == [num |-> nextFile, ents |-> imm]
           level == PickLevel(Lo(f), Hi(f))
       IN  Install([files EXCEPT ![level] = @ \cup {f}])
    /\ imm' = {}
    /\ UNCHANGED <<mem, nextFile, compactPointer, snapshots, comp, manual, written, manuals>>

\* CompactMemTable, by the background thread between two compactions or within
\* one.
CompactMemTable ==
    /\ imm # {}
    /\ LET f     == [num |-> nextFile, ents |-> imm]
           level == PickLevel(Lo(f), Hi(f))
       IN  Install([files EXCEPT ![level] = @ \cup {f}])
    /\ imm' = {} /\ nextFile' = nextFile + 1
    /\ UNCHANGED <<mem, compactPointer, snapshots, comp, manual, written, manuals>>

\* MaxBytesForLevel.
MaxEntries[l \in 1 .. NumLevels - 1] == IF l = 1 THEN LevelEntries ELSE 10 * MaxEntries[l - 1]

\* Finalize: a level's files, or entries, to its limit; the last level has none.
Score(l) == IF l = 0 THEN <<Cardinality(files[0]), L0Trigger>>
                     ELSE <<Size(files[l]), MaxEntries[l]>>
Higher(a, b) == a[1] * b[2] > b[1] * a[2]
CompactionLevel ==
    CHOOSE l \in 0 .. NumLevels - 2 :
        \A m \in 0 .. NumLevels - 2 : /\ ~Higher(Score(m), Score(l))
                                      /\ m < l => Higher(Score(l), Score(m))

SizeDue == ~Higher(<<1, 1>>, Score(CompactionLevel))
NeedsCompaction == SizeDue \/ seekFile # <<>>

\* SetupOtherInputs: what a compaction of the files in0 of a level reads.  The
\* files of the next level it overlaps; more files of its own level, if that
\* takes in none of the next.
LoOf(fs) == Min({Lo(f) : f \in fs})
HiOf(fs) == Max({Hi(f) : f \in fs})
Within(level, fs) == Overlapping(level, LoOf(fs), HiOf(fs))

Inputs(level, in0, in1) ==
    [level |-> level, in0 |-> in0, in1 |-> in1,
     grandparents |-> IF level + 2 < NumLevels THEN Within(level + 2, in0 \cup in1) ELSE {}]

Grown(level, in0, in1, expanded0, expanded1) ==
    IF /\ in1 # {}
       /\ Cardinality(expanded0) > Cardinality(in0)
       /\ Size(in1) + Size(expanded0) < ExpandedLimit
       /\ Cardinality(expanded1) = Cardinality(in1)
    THEN Inputs(level, expanded0, expanded1)
    ELSE Inputs(level, in0, in1)

Setup(level, in0) ==
    LET beside(fs)    == Within(level + 1, fs)
        grow(in1, e0) == Grown(level, in0, in1, e0, beside(e0))
        with(in1)     == grow(in1, Within(level, in0 \cup in1))
    IN  with(beside(in0))

\* Mutated form: the newest snapshot.
CompactionForNewest(c, isManual) ==
    [c |-> c, base |-> files, isManual |-> isManual, smallest |-> LastSequence]

\* What DoCompactionWork needs once the mutex is released.
Compaction(c, isManual) ==
    [c |-> c, base |-> files, isManual |-> isManual,
     smallest |-> IF snapshots = <<>> THEN LastSequence ELSE Head(snapshots)]

PointAfter(c) ==
    compactPointer' = [compactPointer EXCEPT ![c.level] = <<Final(Contents(c.in0))>>]

\* PickCompaction: by size the first file after the level's pointer, else the file
\* that used up its seeks; at level 0 with all the files that overlap it.
FileAfterPointer(l) ==
    LET fs    == InOrder(files[l])
        after == {i \in DOMAIN fs : \/ compactPointer[l] = <<>>
                                    \/ Before(compactPointer[l][1], Final(fs[i].ents))}
    IN  IF after = {} THEN fs[1] ELSE fs[Min(after)]

PickedAt(l, f) == Setup(l, IF l > 0 THEN {f} ELSE Within(0, {f}))
PickedBySize(l) == PickedAt(l, FileAfterPointer(l))
Picked == IF SizeDue THEN PickedBySize(CompactionLevel) ELSE PickedAt(seekFile[1], seekFile[2])

IsTrivialMove(c) ==
    /\ Cardinality(c.in0) = 1 /\ c.in1 = {}
    /\ Size(c.grandparents) <= MaxGrandParentOverlap

\* BackgroundCompaction when there is no memtable to flush and no manual
\* compaction: the file is moved down as it is,
MoveFile ==
    /\ comp = <<>> /\ imm = {} /\ ~ManualDue
    /\ NeedsCompaction
    /\ \E c \in {Picked} :
           /\ IsTrivialMove(c)
           /\ Install([files EXCEPT ![c.level] = @ \ c.in0, ![c.level + 1] = @ \cup c.in0])
           /\ PointAfter(c)
    /\ UNCHANGED <<mem, imm, nextFile, snapshots, comp, manual, written, manuals>>

\* or its compaction starts.
StartCompaction ==
    /\ comp = <<>> /\ imm = {} /\ ~ManualDue
    /\ NeedsCompaction
    /\ \E c \in {Picked} :
           /\ ~IsTrivialMove(c)
           /\ comp' = <<Compaction(c, FALSE)>> /\ PointAfter(c)
    /\ UNCHANGED <<mem, imm, files, nextFile, seekFile, snapshots, manual, written,
                   spoilt, manuals>>

\* VersionSet::CompactRange: below level 0 no more files of the range than reach
\* the size of one.
RangeInputs(m) ==
    LET fs   == InOrder(Overlapping(m.level, m.begin, m.end))
        full == {i \in DOMAIN fs : Size(Range(SubSeq(fs, 1, i))) >= MaxFileEntries}
    IN  IF m.level = 0 \/ full = {} THEN Range(fs) ELSE Range(SubSeq(fs, 1, Min(full)))

\* Nothing is left of the range: the user's call returns.
ManualDone ==
    /\ comp = <<>> /\ imm = {} /\ ManualDue
    /\ RangeInputs(manual[1]) = {}
    /\ manual' = <<>>
    /\ UNCHANGED <<mem, imm, files, nextFile, seekFile, compactPointer, snapshots, comp,
                   written, spoilt, manuals>>

StartManual ==
    /\ comp = <<>> /\ imm = {} /\ ManualDue
    /\ \E in0 \in {RangeInputs(manual[1])} :
           /\ in0 # {}
           /\ \E c \in {Setup(manual[1].level, in0)} :
                  comp' = <<Compaction(c, TRUE)>> /\ PointAfter(c)
    /\ UNCHANGED <<mem, imm, files, nextFile, seekFile, snapshots, manual, written,
                   spoilt, manuals>>

\* IsBaseLevelForKey looks at the version the compaction started from.
DeeperKeys(w) ==
    {k \in Key : \E l \in w.c.level + 2 .. NumLevels - 1 :
                    \E f \in w.base[l] : Touches(f, k, k)}

\* ShouldStopBefore: the output overlaps too much of the level after the next.
ShouldStopBefore(w, out, e) ==
    LET g       == InOrder(w.c.grandparents)
        passed  == {i \in DOMAIN g : Before(Final(g[i].ents), e)}
        counted == IF out.seen THEN Contents({g[i] : i \in passed \ out.passed}) ELSE {}
        overlap == out.overlapped + Cardinality(counted)
        stop    == overlap > MaxGrandParentOverlap
    IN  [out EXCEPT !.passed = passed, !.seen = TRUE,
                    !.overlapped = IF stop THEN 0 ELSE overlap,
                    !.done = IF stop /\ out.cur # {} THEN Append(@, out.cur) ELSE @,
                    !.cur  = IF stop THEN {} ELSE @]

\* An entry that is kept is added to the output file, which is closed when it is
\* big enough.
AddEntry(out, e) ==
    IF Cardinality(out.cur) + 1 < MaxFileEntries
    THEN [out EXCEPT !.cur = @ \cup {e}]
    ELSE [out EXCEPT !.cur = {}, !.done = Append(@, out.cur \cup {e})]

Step(w, kept, out, e) ==
    LET p == ShouldStopBefore(w, out, e)
    IN  IF e \in kept THEN AddEntry(p, e) ELSE p

Input(w) == Contents(w.c.in0 \cup w.c.in1)
KeptOf(w) == Kept(Input(w), w.smallest, DeeperKeys(w))
NoOutput == [done |-> <<>>, cur |-> {}, passed |-> {}, seen |-> FALSE, overlapped |-> 0]

\* The loop of DoCompactionWork: the entries of the input in order.
Outputs(w) ==
    LET kept == KeptOf(w)
        end  == FoldLeft(LAMBDA out, e : Step(w, kept, out, e), NoOutput, Sorted(Input(w), Before))
    IN  IF end.cur = {} THEN end.done ELSE Append(end.done, end.cur)

\* InstallCompactionResults; of a manual compaction the rest of its range is
\* left to be asked for again.
FinishCompaction ==
    /\ comp # <<>>
    /\ \E w \in Range(comp), out \in {Outputs(comp[1])} :
       LET l   == w.c.level
           new == {[num |-> nextFile + i - 1, ents |-> out[i]] : i \in DOMAIN out}
       IN  /\ Install([files EXCEPT ![l] = @ \ w.c.in0, ![l + 1] = (@ \ w.c.in1) \cup new])
           /\ nextFile' = nextFile + Len(out)
           /\ manual' = IF ~w.isManual THEN manual
                        ELSE <<[manual[1] EXCEPT !.set = FALSE,
                                                 !.begin = Hi(Last(InOrder(w.c.in0)))]>>
    /\ comp' = <<>>
    /\ UNCHANGED <<mem, imm, compactPointer, snapshots, written, manuals>>

Background ==
    CompactMemTable \/ MoveFile \/ StartCompaction \/ StartManual \/ ManualDone \/ FinishCompaction

User ==
    \/ \E k \in Key, del \in BOOLEAN : Write(k, del)
    \/ \E i \in 1 .. MaxSnapshots : ReleaseSnapshot(i)
    \/ SwitchMemTable \/ GetSnapshot
    \/ \E k \in Key, s \in 0 .. MaxSeq : ChargeSeek(k, s)
    \/ \E l \in 0 .. NumLevels - 2, lo, hi \in ManualKeys : RequestCompaction(l, lo, hi)

Next == User \/ SetManual \/ Background

Spec == Init /\ [][Next]_vars

\* The behaviours as long as the levels are in order.
OrderlyNext == spoilt = {} /\ Next
OrderlySpec == Init /\ [][OrderlyNext]_vars

\* The background thread is scheduled as long as it has something to do
\* (MaybeScheduleCompaction), and a user who waits for a manual compaction sets it
\* again once it is cleared.  Written out, as what a step of the thread shows of
\* itself is cheaper to test than Background.
BackgroundDue  == imm # {} \/ comp # <<>> \/ ManualDue \/ NeedsCompaction
BackgroundStep == \/ imm # {} /\ imm' = {}
                  \/ comp' # comp \/ files' # files
                  \/ ManualDue /\ ~ManualDue'
Fairness ==
    /\ []<>(spoilt # {} \/ ~BackgroundDue) \/ []<><<BackgroundStep>>_vars
    /\ WF_vars(spoilt = {} /\ SetManual)
FairSpec == OrderlySpec /\ Fairness

-----------------------------------------------------------------------------
(* What must hold.                                                         *)

File == [num : Nat, ents : SUBSET Entries(Key)]
LevelTypeOK ==
    /\ mem \subseteq written /\ imm \subseteq written /\ written \subseteq Entries(Key)
    /\ files \in [Level -> SUBSET File]
    /\ \A l \in Level : \A f \in files[l] : f.ents # {} /\ f.num < nextFile
    /\ \A l, m \in Level : \A f \in files[l], g \in files[m] :
            f.num = g.num => f = g /\ l = m
    /\ spoilt \subseteq {"overlap", "split"}
    /\ comp # <<>> /\ comp[1].isManual => ManualDue

\* Every reader, by key or with an iterator that merges all levels, sees exactly the
\* newest write of each key that its snapshot covers, whatever was flushed,
\* compacted or dropped meanwhile: db.h:94 "Iterators created with this handle will
\* all observe a stable snapshot".
SnapshotsStable ==
    spoilt = {} => \A s \in Readable, k \in Key :
                      /\ Get(k, s) = Reads(written, k, s)
                      /\ Scan(k, s) = Reads(written, k, s)

Settled == imm = {} /\ comp = <<>> /\ manual = <<>> /\ ~NeedsCompaction

\* Compactions come to an end: with no more writes the levels are within their
\* limits, no file is due for its seeks, and a manual compaction has returned.
LevelsSettle == <>[](spoilt # {} \/ Settled)

\* version_set.cc:346: "We can search level-by-level since entries never hop across
\* levels.  Therefore we are guaranteed that if we find data in an smaller level,
\* later levels are irrelevant."
EntriesNeverHop ==
    \A l, m \in Level : l < m =>
        \A e \in Contents(files[l]), f \in Contents(files[m]) :
            e.key = f.key => e.seq > f.seq
=============================================================================
