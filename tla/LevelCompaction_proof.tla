------------------------ MODULE LevelCompaction_proof ------------------------
(***************************************************************************)
(* Proofs about LevelCompaction, for every number of keys, writes, levels, *)
(* snapshots and manual compactions and every limit on files and levels:   *)
(* what a compaction may forget, that the levels stay well formed, and     *)
(* that every reader sees the newest write its snapshot covers.            *)
(***************************************************************************)
EXTENDS LevelCompaction, FiniteSetTheorems, SequenceTheorems, WellFoundedInduction, TLAPS

\* Among finitely old writes there is a newest: a set of sequence numbers up to s
\* has a largest one.
LEMMA NewestExists ==
    ASSUME NEW s \in Nat, NEW S \in SUBSET (0 .. s), S # {}
    PROVE  \E m \in S : \A n \in S : n <= m
<1> DEFINE D == {d \in 0 .. s : s - d \in S}
<1>1. D \in SUBSET Nat
    OBVIOUS
<1>2. D # {}
    <2>1. PICK n \in S : TRUE
        OBVIOUS
    <2>2. n \in 0 .. s /\ s - n \in 0 .. s /\ s - (s - n) = n
        BY <2>1
    <2> QED  BY <2>1, <2>2
<1>3. PICK d \in D : \A c \in D : d <= c
    <2> DEFINE Less == {p \in Nat \X Nat : p[1] < p[2]}
    <2>1. IsWellFoundedOn(Less, Nat)
        BY NatLessThanWellFounded DEF OpToRel
    <2>2. PICK d \in D : \A c \in D : <<c, d>> \notin Less
        <3> HIDE DEF D, Less
        <3> QED  BY <2>1, <1>1, <1>2, WFMin
    <2>3. ASSUME NEW c \in D PROVE d <= c
        <3>1. d \in Nat /\ c \in Nat
            BY <2>3, <1>1
        <3>2. <<c, d>> \notin Less
            BY <2>2, <2>3
        <3>3. ~ (c < d)
            BY <3>1, <3>2
        <3> HIDE DEF D
        <3> QED  BY <3>1, <3>3
    <2> HIDE DEF D
    <2> QED  BY <2>3
<1>4. s - d \in S
    BY <1>3
<1>5. ASSUME NEW n \in S PROVE n <= s - d
    <2>1. n \in 0 .. s /\ s - n \in 0 .. s /\ s - (s - n) = n
        BY <1>5
    <2>2. s - n \in D
        BY <2>1, <1>5
    <2>3. d <= s - n
        BY <1>3, <2>2
    <2> QED  BY <2>1, <2>3, <1>3
<1> QED  BY <1>4, <1>5

\* Entries as the rules look at them, and what IsBaseLevelForKey and the order of the
\* levels are for: no older entry of a key whose deletion is dropped is left.
Typed(S) == \A e \in S : e.seq \in Nat /\ e.del \in BOOLEAN

NoOlderLeft(input, rest, smallest, deeper) ==
    \A e \in input, r \in rest :
        ObsoleteMarker(e, smallest, deeper) /\ r.key = e.key => r.seq > e.seq

LEMMA KeptReads ==
    ASSUME NEW input, NEW rest, Typed(input \cup rest), NEW smallest \in Nat, NEW deeper,
           NoOlderLeft(input, rest, smallest, deeper), NEW k, NEW s \in Nat, s >= smallest
    PROVE  Reads(Kept(input, smallest, deeper) \cup rest, k, s) = Reads(input \cup rest, k, s)
<1> DEFINE before == input \cup rest
           kept   == Kept(input, smallest, deeper)
           after  == kept \cup rest
<1>1. kept \subseteq input
    BY DEF Kept
<1>2. \A e \in before : e.seq \in Nat /\ e.del \in BOOLEAN
    BY DEF Typed
<1>3. ASSUME NEW x \in Reads(before, k, s) PROVE x \in Reads(after, k, s)
    <2>1. x \in before /\ x.key = k /\ x.seq <= s /\ ~x.del
        BY <1>3 DEF Reads, Answer
    <2>2. \A f \in before : f.key = k /\ f.seq <= s => f.seq <= x.seq
        BY <1>3 DEF Reads, Answer
    <2>3. CASE x \in input
        <3>1. ~Hidden(x, input, smallest)
            <4> SUFFICES ASSUME NEW n \in input, n.key = x.key, n.seq > x.seq,
                                n.seq <= smallest
                         PROVE  FALSE
                BY DEF Hidden
            <4>1. n.key = k /\ n.seq <= s
                BY <2>1, <1>2
            <4> QED  BY <4>1, <2>1, <2>2, <1>2
        <3>2. ~ObsoleteMarker(x, smallest, deeper)
            BY <2>1 DEF ObsoleteMarker
        <3>3. x \in after
            BY <2>3, <3>1, <3>2 DEF Kept
        <3> QED  BY <3>3, <2>1, <2>2, <1>1 DEF Reads, Answer
    <2>4. CASE x \in rest
        BY <2>4, <2>1, <2>2, <1>1 DEF Reads, Answer
    <2> QED  BY <2>1, <2>3, <2>4
<1>4. ASSUME NEW x \in Reads(after, k, s) PROVE x \in Reads(before, k, s)
    <2>1. x \in after /\ x \in before /\ x.key = k /\ x.seq <= s /\ ~x.del
        BY <1>4, <1>1 DEF Reads, Answer
    <2>2. \A f \in after : f.key = k /\ f.seq <= s => f.seq <= x.seq
        BY <1>4 DEF Reads, Answer
    <2> DEFINE newer == {f \in before : f.key = k /\ f.seq <= s /\ f.seq > x.seq}
               numbers == {f.seq : f \in newer}
    <2>3. newer = {}
        <3> SUFFICES ASSUME newer # {} PROVE FALSE
            OBVIOUS
        <3>1. numbers \in SUBSET (0 .. s) /\ numbers # {}
            BY <1>2
        <3>2. PICK m \in numbers : \A n \in numbers : n <= m
            <4> HIDE DEF numbers
            <4> QED  BY <3>1, NewestExists
        <3>3. PICK y \in newer : y.seq = m
            BY <3>2
        <3>4. y \in before /\ y.key = k /\ y.seq <= s /\ y.seq > x.seq
            BY <3>3
        <3>5. \A f \in before : f.key = k /\ f.seq <= s /\ f.seq > x.seq => f.seq <= y.seq
            BY <3>2, <3>3
        <3>6. y \notin after
            BY <3>4, <2>2, <2>1, <1>2
        <3>7. y \in input /\ (Hidden(y, input, smallest) \/ ObsoleteMarker(y, smallest, deeper))
            BY <3>4, <3>6 DEF Kept
        <3>8. CASE Hidden(y, input, smallest)
            <4>1. PICK n \in input : n.key = y.key /\ n.seq > y.seq /\ n.seq <= smallest
                BY <3>8 DEF Hidden
            <4>2. n \in before /\ n.key = k /\ n.seq <= s /\ n.seq > x.seq
                BY <4>1, <3>4, <2>1, <1>2
            <4> QED  BY <4>1, <4>2, <3>4, <3>5, <1>2
        <3>9. CASE ObsoleteMarker(y, smallest, deeper)
            <4>1. x \notin rest
                BY <3>9, <3>7, <3>4, <2>1, <1>2 DEF NoOlderLeft
            <4>2. x \in kept
                BY <4>1, <2>1
            <4>3. y.seq <= smallest
                BY <3>9 DEF ObsoleteMarker
            <4>4. Hidden(x, input, smallest)
                BY <4>3, <3>4, <3>7, <2>1 DEF Hidden
            <4> QED  BY <4>2, <4>4 DEF Kept
        <3> QED  BY <3>7, <3>8, <3>9
    <2>4. \A f \in before : f.key = k /\ f.seq <= s => f.seq <= x.seq
        BY <2>3, <2>1, <1>2
    <2> QED  BY <2>1, <2>4 DEF Reads, Answer
<1> QED  BY <1>3, <1>4

\* DoCompactionWork drops an entry that a newer one hides from every snapshot, and
\* a deletion of a key that no deeper file has; whoever reads at the oldest
\* snapshot or later is told the same as before.  What the compaction does not
\* read (rest) may hold anything, but no older entry of a key whose deletion is
\* dropped: that is what IsBaseLevelForKey and the order of the levels are for.
THEOREM CompactionKeepsReads ==
    ASSUME NEW Keys, NEW input \in SUBSET Entries(Keys), NEW rest \in SUBSET Entries(Keys),
           NEW smallest \in Nat, NEW deeper,
           \A e \in input, r \in rest :
               ObsoleteMarker(e, smallest, deeper) /\ r.key = e.key => r.seq > e.seq,
           NEW k, NEW s \in Nat, s >= smallest
    PROVE  Reads(Kept(input, smallest, deeper) \cup rest, k, s) = Reads(input \cup rest, k, s)
<1>1. Typed(input \cup rest)
    BY DEF Typed, Entries
<1>2. NoOlderLeft(input, rest, smallest, deeper)
    BY DEF NoOlderLeft
<1> QED  BY <1>1, <1>2, KeptReads

-----------------------------------------------------------------------------
(* Numbers, entries and sets in order.                                     *)

LEMMA LeastExists ==
    ASSUME NEW S \in SUBSET Nat, S # {}
    PROVE  \E m \in S : \A x \in S : m <= x
<1>1. PICK m \in S : \A k \in S : ~ (<<k, m>> \in OpToRel(<, Nat))
    BY NatLessThanWellFounded, WFMin
<1>2. \A x \in S : m <= x
    <2>1. ASSUME NEW x \in S  PROVE ~ (x < m)
        BY <1>1, <2>1 DEF OpToRel
    <2> QED  BY <2>1
<1> QED  BY <1>2

\* What is true of 0, and of i if it is of i - 1, is true up to n.
LEMMA Climb ==
    ASSUME NEW n \in Nat, NEW S, 0 \in S, \A i \in 1 .. n : i - 1 \in S => i \in S
    PROVE  \A i \in 0 .. n : i \in S
<1> DEFINE bad == {i \in 0 .. n : i \notin S}
<1> SUFFICES ASSUME bad # {}  PROVE FALSE
    OBVIOUS
<1>1. PICK m \in bad : \A x \in bad : m <= x
    <2>1. bad \in SUBSET Nat
        OBVIOUS
    <2> HIDE DEF bad
    <2> QED  BY <2>1, LeastExists
<1>2. m # 0 /\ m \in 1 .. n /\ m - 1 \in 0 .. n
    OBVIOUS
<1>3. m - 1 \in S
    BY <1>1, <1>2
<1> QED  BY <1>2, <1>3

LEMMA MinMax ==
    ASSUME NEW n \in Nat, NEW S \in SUBSET (0 .. n), S # {}
    PROVE  /\ Min(S) \in S /\ \A x \in S : Min(S) <= x
           /\ Max(S) \in S /\ \A x \in S : Max(S) >= x
<1>1. \E m \in S : \A x \in S : m <= x
    <2> S \in SUBSET Nat
        OBVIOUS
    <2> QED  BY LeastExists
<1>2. \E m \in S : \A x \in S : m >= x
    BY NewestExists
<1>3. Min(S) \in S /\ \A x \in S : Min(S) <= x
    BY <1>1 DEF Min
<1>4. Max(S) \in S /\ \A x \in S : Max(S) >= x
    BY <1>2 DEF Max
<1> QED  BY <1>3, <1>4

\* What every write has of its own: its sequence number.
HistoryOK ==
    /\ IsFiniteSet(written) /\ written \subseteq Entries(Key)
    /\ \A e \in written : e.seq \in 1 .. LastSequence
    /\ \A e, f \in written : e.seq = f.seq => e = f

\* The entries of a file are ordered by key and then by age, so there is a
\* smallest and a largest one.
LEMMA FirstAndFinal ==
    ASSUME LevelAssumption, HistoryOK, NEW S \in SUBSET written, S # {}
    PROVE  /\ First(S) \in S /\ \A f \in S : First(S) = f \/ Before(First(S), f)
           /\ Final(S) \in S /\ \A f \in S : Final(S) = f \/ Before(f, Final(S))
<1> USE DEF HistoryOK
<1>1. LastSequence \in Nat /\ MaxKey \in Nat
    BY FS_CardinalityType DEF LastSequence, LevelAssumption
<1>2. \A e \in S : e.key \in 1 .. MaxKey /\ e.seq \in 1 .. LastSequence
    BY DEF Entries, Key
<1> DEFINE keys == {e.key : e \in S}
<1>3. keys \in SUBSET (0 .. MaxKey) /\ keys # {}
    BY <1>1, <1>2
<1>4. /\ Min(keys) \in keys /\ \A k \in keys : Min(keys) <= k
      /\ Max(keys) \in keys /\ \A k \in keys : Max(keys) >= k
    <2> HIDE DEF keys
    <2> QED  BY <1>1, <1>3, MinMax
<1> DEFINE seqs(k) == {q \in 1 .. LastSequence : \E e \in S : e.key = k /\ e.seq = q}
<1>5. ASSUME NEW k \in keys
      PROVE  /\ Min(seqs(k)) \in seqs(k) /\ \A q \in seqs(k) : Min(seqs(k)) <= q
             /\ Max(seqs(k)) \in seqs(k) /\ \A q \in seqs(k) : Max(seqs(k)) >= q
    <2>1. seqs(k) \in SUBSET (0 .. LastSequence) /\ seqs(k) # {}
        BY <1>1, <1>2, <1>5
    <2> HIDE DEF seqs
    <2> QED  BY <1>1, <2>1, MinMax
<1>6. \E e \in S : \A f \in S : e = f \/ Before(e, f)
    <2>1. PICK e \in S : e.key = Min(keys) /\ e.seq = Max(seqs(Min(keys)))
        BY <1>4, <1>5
    <2>2. ASSUME NEW f \in S, f # e  PROVE Before(e, f)
        <3>1. CASE f.key = e.key
            <4>1. f.seq \in seqs(Min(keys)) /\ f.seq # e.seq
                BY <1>2, <2>1, <2>2, <3>1
            <4>2. \A q \in seqs(Min(keys)) : Max(seqs(Min(keys))) >= q
                <5> HIDE DEF seqs, keys
                <5> QED  BY <1>4, <1>5
            <4>3. f.seq <= e.seq
                <5> HIDE DEF seqs, keys
                <5> QED  BY <2>1, <4>1, <4>2
            <4> QED  BY <1>1, <1>2, <3>1, <4>1, <4>3 DEF Before
        <3>2. CASE f.key # e.key
            <4>1. f.key \in keys
                OBVIOUS
            <4>2. e.key <= f.key
                BY <1>4, <2>1, <4>1
            <4> QED  BY <1>1, <1>2, <3>2, <4>2 DEF Before
        <3> QED  BY <3>1, <3>2
    <2> QED  BY <2>2
<1>7. \E e \in S : \A f \in S : e = f \/ Before(f, e)
    <2>1. PICK e \in S : e.key = Max(keys) /\ e.seq = Min(seqs(Max(keys)))
        BY <1>4, <1>5
    <2>2. ASSUME NEW f \in S, f # e  PROVE Before(f, e)
        <3>1. CASE f.key = e.key
            <4>1. f.seq \in seqs(Max(keys)) /\ f.seq # e.seq
                BY <1>2, <2>1, <2>2, <3>1
            <4>2. \A q \in seqs(Max(keys)) : Min(seqs(Max(keys))) <= q
                <5> HIDE DEF seqs, keys
                <5> QED  BY <1>4, <1>5
            <4>3. f.seq >= e.seq
                <5> HIDE DEF seqs, keys
                <5> QED  BY <2>1, <4>1, <4>2
            <4> QED  BY <1>1, <1>2, <3>1, <4>1, <4>3 DEF Before
        <3>2. CASE f.key # e.key
            <4>1. f.key \in keys
                OBVIOUS
            <4>2. e.key >= f.key
                BY <1>4, <2>1, <4>1
            <4> QED  BY <1>1, <1>2, <3>2, <4>2 DEF Before
        <3> QED  BY <3>1, <3>2
    <2> QED  BY <2>2
<1>8. First(S) \in S /\ \A f \in S : f = First(S) \/ Before(First(S), f)
    BY <1>6 DEF First
<1>9. Final(S) \in S /\ \A f \in S : f = Final(S) \/ Before(f, Final(S))
    BY <1>7 DEF Final
<1> QED  BY <1>8, <1>9

\* The keys of a file lie between its smallest and its largest one.
LEMMA FileRange ==
    ASSUME LevelAssumption, HistoryOK, NEW f, f.ents \in SUBSET written, f.ents # {}
    PROVE  /\ Lo(f) \in Key /\ Hi(f) \in Key /\ Lo(f) <= Hi(f)
           /\ \A e \in f.ents : Lo(f) <= e.key /\ e.key <= Hi(f)
<1>1. MaxKey \in Nat /\ \A e \in f.ents : e.key \in 1 .. MaxKey
    BY DEF LevelAssumption, HistoryOK, Entries, Key
<1>2. /\ First(f.ents) \in f.ents
      /\ \A e \in f.ents : First(f.ents) = e \/ Before(First(f.ents), e)
      /\ Final(f.ents) \in f.ents
      /\ \A e \in f.ents : Final(f.ents) = e \/ Before(e, Final(f.ents))
    BY FirstAndFinal
<1>3. Lo(f) \in Key /\ Hi(f) \in Key
    BY <1>1, <1>2 DEF Lo, Hi, Key
<1>4. ASSUME NEW e \in f.ents  PROVE Lo(f) <= e.key /\ e.key <= Hi(f)
    BY <1>1, <1>2 DEF Lo, Hi, Before
<1> QED  BY <1>1, <1>2, <1>3, <1>4 DEF Key

\* The elements of a finite set, each with as many others before it as its place
\* says: Sorted is such an enumeration if before is an order.
LEMMA RankEnumerates ==
    ASSUME NEW S, IsFiniteSet(S), NEW before \in [S -> SUBSET S],
           \A x \in S : x \notin before[x],
           \A x, y \in S : x # y => \/ x \in before[y] /\ before[x] \subseteq before[y]
                                    \/ y \in before[x] /\ before[y] \subseteq before[x]
    PROVE  /\ Cardinality(S) \in Nat
           /\ \A i \in 1 .. Cardinality(S) : \E x \in S : Cardinality(before[x]) = i - 1
           /\ \A x \in S : Cardinality(before[x]) \in 0 .. Cardinality(S) - 1
           /\ \A x, y \in S : Cardinality(before[x]) = Cardinality(before[y]) => x = y
           /\ \A x, y \in S : Cardinality(before[x]) < Cardinality(before[y]) => x \in before[y]
<1> DEFINE n == Cardinality(S)
           rank == [x \in S |-> Cardinality(before[x]) + 1]
<1>1. n \in Nat
    BY FS_CardinalityType
<1>2. ASSUME NEW x \in S
      PROVE  IsFiniteSet(before[x]) /\ Cardinality(before[x]) \in Nat /\ Cardinality(before[x]) < n
    <2>1. before[x] \in SUBSET S /\ before[x] # S
        OBVIOUS
    <2>2. IsFiniteSet(before[x]) /\ Cardinality(before[x]) <= n /\ Cardinality(before[x]) # n
        BY <2>1, FS_Subset
    <2>3. Cardinality(before[x]) \in Nat
        BY <2>2, FS_CardinalityType
    <2> QED  BY <1>1, <2>2, <2>3
<1>3. ASSUME NEW x \in S, NEW y \in S, x \in before[y], before[x] \subseteq before[y]
      PROVE  Cardinality(before[x]) < Cardinality(before[y])
    <2>1. before[x] # before[y]
        BY <1>3
    <2>2. Cardinality(before[x]) <= Cardinality(before[y]) /\ Cardinality(before[x]) # Cardinality(before[y])
        BY <1>2, <1>3, <2>1, FS_Subset
    <2> QED  BY <1>2, <2>2
<1>4. \A x, y \in S : Cardinality(before[x]) = Cardinality(before[y]) => x = y
    BY <1>2, <1>3
<1>5. \A x, y \in S : Cardinality(before[x]) < Cardinality(before[y]) => x \in before[y]
    <2> SUFFICES ASSUME NEW x \in S, NEW y \in S, Cardinality(before[x]) < Cardinality(before[y]),
                        x \notin before[y]
                 PROVE  FALSE
        OBVIOUS
    <2>1. x # y
        BY <1>2
    <2>2. y \in before[x] /\ before[y] \subseteq before[x]
        BY <2>1
    <2> QED  BY <1>2, <1>3, <2>2
<1>6. rank \in Injection(S, 1 .. n)
    BY <1>1, <1>2, <1>4 DEF Injection, IsInjective
<1>7. IsFiniteSet(1 .. n) /\ Cardinality(1 .. n) = n
    BY <1>1, FS_Interval
<1>8. rank \in Surjection(S, 1 .. n)
    <2> HIDE DEF rank
    <2> QED  BY <1>6, <1>7, FS_Injection
<1>9. \A i \in 1 .. n : \E x \in S : Cardinality(before[x]) = i - 1
    <2> SUFFICES ASSUME NEW i \in 1 .. n PROVE \E x \in S : Cardinality(before[x]) = i - 1
        OBVIOUS
    <2>1. PICK x \in S : rank[x] = i
        BY <1>8 DEF Surjection
    <2> QED  BY <1>1, <1>2, <2>1
<1> QED  BY <1>1, <1>2, <1>4, <1>5, <1>9

\* InternalKeyComparator is an order of the entries.
LEMMA BeforeOrders ==
    ASSUME LevelAssumption, HistoryOK, NEW a \in written, NEW b \in written
    PROVE  /\ ~Before(a, a)
           /\ a = b \/ Before(a, b) \/ Before(b, a)
           /\ \A c \in written : Before(a, b) /\ Before(b, c) => Before(a, c)
<1>1. \A e \in written : e.key \in Int /\ e.seq \in Int
    BY DEF LevelAssumption, HistoryOK, Entries, Key
<1>2. a.seq = b.seq => a = b
    BY DEF HistoryOK
<1> QED  BY <1>1, <1>2 DEF Before

\* A set of files as a version has them.
FilesOK(fs) ==
    /\ IsFiniteSet(fs)
    /\ \A f \in fs : f.num \in Nat /\ f.ents \in SUBSET written /\ f.ents # {}
    /\ \A f, g \in fs : f.num = g.num => f = g

LEMMA FilesInOrder ==
    ASSUME LevelAssumption, HistoryOK, NEW fs, FilesOK(fs)
    PROVE  /\ Cardinality(fs) \in Nat
           /\ InOrder(fs) = [i \in 1 .. Cardinality(fs) |-> InOrder(fs)[i]]
           /\ \A i \in 1 .. Cardinality(fs) : InOrder(fs)[i] \in fs
           /\ \A f \in fs : \E i \in 1 .. Cardinality(fs) : InOrder(fs)[i] = f
<1> DEFINE less(f, g) == Before(First(f.ents), First(g.ents))
                         \/ (First(f.ents) = First(g.ents) /\ f.num < g.num)
           before == [g \in fs |-> {f \in fs : less(f, g)}]
           q == InOrder(fs)
           n == Cardinality(fs)
<1>1. \A f \in fs : First(f.ents) \in written /\ f.num \in Nat
    BY FirstAndFinal DEF FilesOK
<1>2. ASSUME NEW f \in fs, NEW g \in fs
      PROVE  /\ ~less(f, f)
             /\ f = g \/ less(f, g) \/ less(g, f)
             /\ \A h \in fs : less(f, g) /\ less(g, h) => less(f, h)
    <2>1. ~less(f, f)
        BY <1>1, BeforeOrders
    <2>2. f = g \/ less(f, g) \/ less(g, f)
        <3>1. f.num # g.num \/ f = g
            BY DEF FilesOK
        <3> QED  BY <1>1, <3>1, BeforeOrders
    <2>3. ASSUME NEW h \in fs, less(f, g), less(g, h)  PROVE less(f, h)
        <3> DEFINE a == First(f.ents)
                   b == First(g.ents)
                   c == First(h.ents)
        <3>1. a \in written /\ b \in written /\ c \in written
            BY <1>1
        <3>2. Before(a, b) /\ Before(b, c) => Before(a, c)
            BY <3>1, BeforeOrders
        <3> HIDE DEF a, b, c
        <3>3. (Before(a, b) \/ (a = b /\ f.num < g.num)) /\ (Before(b, c) \/ (b = c /\ g.num < h.num))
            BY <2>3 DEF a, b, c
        <3>4. Before(a, c) \/ (a = c /\ f.num < h.num)
            BY <1>1, <3>2, <3>3
        <3> QED  BY <3>4 DEF a, b, c
    <2> QED  BY <2>1, <2>2, <2>3
<1>3. q = [i \in 1 .. n |-> CHOOSE x \in fs : Cardinality({y \in fs : less(y, x)}) = i - 1]
    BY DEF InOrder, Sorted
<1>4. /\ n \in Nat
      /\ \A i \in 1 .. n : \E x \in fs : Cardinality(before[x]) = i - 1
      /\ \A x \in fs : Cardinality(before[x]) \in 0 .. n - 1
      /\ \A x, y \in fs : Cardinality(before[x]) = Cardinality(before[y]) => x = y
    <2> HIDE DEF less
    <2>1. before \in [fs -> SUBSET fs]
        OBVIOUS
    <2>2. \A x \in fs : x \notin before[x]
        BY <1>2
    <2>3. \A x, y \in fs : x # y => \/ x \in before[y] /\ before[x] \subseteq before[y]
                                    \/ y \in before[x] /\ before[y] \subseteq before[x]
        BY <1>2
    <2> HIDE DEF before
    <2> QED  BY <2>1, <2>2, <2>3, RankEnumerates DEF FilesOK
<1>5. \A x \in fs : before[x] = {y \in fs : less(y, x)}
    OBVIOUS
<1>6. ASSUME NEW i \in 1 .. n  PROVE q[i] \in fs /\ Cardinality(before[q[i]]) = i - 1
    <2>1. q[i] = CHOOSE x \in fs : Cardinality({y \in fs : less(y, x)}) = i - 1
        BY <1>3
    <2>2. \E x \in fs : Cardinality({y \in fs : less(y, x)}) = i - 1
        BY <1>4, <1>5
    <2>3. q[i] \in fs /\ Cardinality({y \in fs : less(y, q[i])}) = i - 1
        <3> HIDE DEF q, less
        <3> QED  BY <2>1, <2>2
    <2> QED  BY <1>5, <2>3
<1>7. ASSUME NEW f \in fs  PROVE \E i \in 1 .. n : q[i] = f
    <2> DEFINE i == Cardinality(before[f]) + 1
    <2>1. i \in 1 .. n
        BY <1>4
    <2>2. q[i] \in fs /\ Cardinality(before[q[i]]) = i - 1
        BY <1>6, <2>1
    <2>3. Cardinality(before[f]) = i - 1
        BY <2>1, <2>2, <1>4
    <2> HIDE DEF i, q, before
    <2> QED  BY <1>4, <2>1, <2>2, <2>3
<1>8. q = [i \in 1 .. n |-> q[i]]
    BY <1>3
<1> QED  BY <1>4, <1>6, <1>7, <1>8

LEMMA EntriesInOrder ==
    ASSUME LevelAssumption, HistoryOK, NEW S \in SUBSET written
    PROVE  /\ Cardinality(S) \in Nat
           /\ DOMAIN Sorted(S, Before) = 1 .. Cardinality(S)
           /\ \A i \in 1 .. Cardinality(S) : Sorted(S, Before)[i] \in S
           /\ \A e \in S : \E i \in 1 .. Cardinality(S) : Sorted(S, Before)[i] = e
<1> DEFINE before == [g \in S |-> {f \in S : Before(f, g)}]
           q == Sorted(S, Before)
           n == Cardinality(S)
<1>1. q = [i \in 1 .. n |-> CHOOSE x \in S : Cardinality({y \in S : Before(y, x)}) = i - 1]
    BY DEF Sorted
<1>2. /\ n \in Nat
      /\ \A i \in 1 .. n : \E x \in S : Cardinality(before[x]) = i - 1
      /\ \A x \in S : Cardinality(before[x]) \in 0 .. n - 1
      /\ \A x, y \in S : Cardinality(before[x]) = Cardinality(before[y]) => x = y
    <2>1. before \in [S -> SUBSET S]
        OBVIOUS
    <2>2. \A x \in S : x \notin before[x]
        BY BeforeOrders
    <2>3. \A x, y \in S : x # y => \/ x \in before[y] /\ before[x] \subseteq before[y]
                                   \/ y \in before[x] /\ before[y] \subseteq before[x]
        <3> SUFFICES ASSUME NEW x \in S, NEW y \in S, x # y
                     PROVE \/ x \in before[y] /\ before[x] \subseteq before[y]
                           \/ y \in before[x] /\ before[y] \subseteq before[x]
            OBVIOUS
        <3>1. \A c \in S : Before(c, x) /\ Before(x, y) => Before(c, y)
            BY BeforeOrders
        <3>2. \A c \in S : Before(c, y) /\ Before(y, x) => Before(c, x)
            BY BeforeOrders
        <3>3. Before(x, y) \/ Before(y, x)
            BY BeforeOrders
        <3> QED  BY <3>1, <3>2, <3>3
    <2>4. IsFiniteSet(S)
        BY FS_Subset DEF HistoryOK
    <2> HIDE DEF before
    <2> QED  BY <2>1, <2>2, <2>3, <2>4, RankEnumerates
<1>3. \A x \in S : before[x] = {y \in S : Before(y, x)}
    OBVIOUS
<1>4. ASSUME NEW i \in 1 .. n  PROVE q[i] \in S /\ Cardinality(before[q[i]]) = i - 1
    <2>1. q[i] = CHOOSE x \in S : Cardinality({y \in S : Before(y, x)}) = i - 1
        BY <1>1
    <2>2. \E x \in S : Cardinality({y \in S : Before(y, x)}) = i - 1
        BY <1>2, <1>3
    <2>3. q[i] \in S /\ Cardinality({y \in S : Before(y, q[i])}) = i - 1
        <3> HIDE DEF q
        <3> QED  BY <2>1, <2>2
    <2> QED  BY <1>3, <2>3
<1>5. ASSUME NEW e \in S  PROVE \E i \in 1 .. n : q[i] = e
    <2> DEFINE i == Cardinality(before[e]) + 1
    <2>1. i \in 1 .. n
        BY <1>2
    <2>2. q[i] \in S /\ Cardinality(before[q[i]]) = i - 1
        BY <1>4, <2>1
    <2>3. Cardinality(before[e]) = i - 1
        BY <2>1, <2>2, <1>2
    <2> HIDE DEF i, q, before
    <2> QED  BY <1>2, <2>1, <2>2, <2>3
<1> QED  BY <1>1, <1>2, <1>4, <1>5

-----------------------------------------------------------------------------
(* Overlapping files.                                                      *)

IsRun(f, n, base, step) == f[0] = base /\ \A i \in 1 .. n : f[i] = step[f[i - 1]]

LEMMA Recurs ==
    ASSUME NEW n \in Nat, NEW X, NEW base \in X, NEW step \in [X -> X]
    PROVE  \E f \in [0 .. n -> X] : IsRun(f, n, base, step)
<1> DEFINE Runs(f, m) == f[0] = base /\ \A i \in 1 .. m : f[i] = step[f[i - 1]]
           some == {m \in 0 .. n : \E f \in [0 .. m -> X] : Runs(f, m)}
<1>1. 0 \in some
    <2> DEFINE f == [i \in 0 .. 0 |-> base]
    <2>1. f \in [0 .. 0 -> X] /\ Runs(f, 0)
        OBVIOUS
    <2> HIDE DEF f, Runs
    <2> QED  BY <2>1
<1>2. ASSUME NEW m \in 1 .. n, m - 1 \in some  PROVE m \in some
    <2>1. PICK f \in [0 .. m - 1 -> X] : Runs(f, m - 1)
        BY <1>2
    <2> DEFINE g == [i \in 0 .. m |-> IF i = m THEN step[f[m - 1]] ELSE f[i]]
    <2>2. f[m - 1] \in X
        OBVIOUS
    <2>3. g \in [0 .. m -> X]
        BY <2>2
    <2>4. ASSUME NEW i \in 1 .. m  PROVE g[i] = step[g[i - 1]]
        <3>1. i - 1 \in 0 .. m - 1 /\ g[i - 1] = f[i - 1]
            OBVIOUS
        <3>2. CASE i = m
            BY <3>1, <3>2
        <3>3. CASE i # m
            <4>1. i \in 1 .. m - 1
                BY <3>3
            <4> QED  BY <2>1, <3>1, <3>3, <4>1
        <3> QED  BY <3>2, <3>3
    <2>5. g[0] = base
        BY <2>1
    <2>6. Runs(g, m)
        BY <2>4, <2>5
    <2> HIDE DEF g, Runs
    <2> QED  BY <2>3, <2>6
<1>3. n \in some
    <2> HIDE DEF some
    <2> QED  BY <1>1, <1>2, Climb
<1> QED  BY <1>3 DEF IsRun

LevelsOK == \A l \in Level : FilesOK(files[l])

\* No key is in the range of both files.
Apart(f, g) == Hi(f) < Lo(g) \/ Lo(f) > Hi(g)

LEMMA RangesOf ==
    ASSUME LevelAssumption, HistoryOK, LevelsOK, NEW l \in Level, NEW f \in files[l]
    PROVE  /\ Lo(f) \in Key /\ Hi(f) \in Key /\ Lo(f) <= Hi(f)
           /\ Lo(f) \in Nat /\ Hi(f) \in Nat
           /\ \A e \in f.ents : Lo(f) <= e.key /\ e.key <= Hi(f) /\ e.key \in Nat
<1>1. f.ents \in SUBSET written /\ f.ents # {}
    BY DEF LevelsOK, FilesOK
<1>2. MaxKey \in Nat /\ \A e \in f.ents : e.key \in Nat
    BY <1>1 DEF LevelAssumption, HistoryOK, Entries, Key
<1> QED  BY <1>1, <1>2, FileRange DEF Key

\* GetOverlappingInputs misses no file that overlaps the range, and of level 0 what it
\* leaves out overlaps none of what it takes.
LEMMA OverlappingFiles ==
    ASSUME LevelAssumption, HistoryOK, LevelsOK, NEW level \in Level,
           NEW lo \in Key, NEW hi \in Key
    PROVE  /\ Overlapping(level, lo, hi) \subseteq files[level]
           /\ \A f \in files[level] : Touches(f, lo, hi) => f \in Overlapping(level, lo, hi)
           /\ level = 0 => \A f \in files[level] \ Overlapping(level, lo, hi),
                              g \in Overlapping(level, lo, hi) : Apart(f, g)
<1> DEFINE N == Cardinality(files[level])
           touched(r) == {f \in files[level] : Touches(f, r[1], r[2])}
           wider(r) == <<Min({r[1]} \cup {Lo(f) : f \in touched(r)}),
                         Max({r[2]} \cup {Hi(f) : f \in touched(r)})>>
           Widens(w) == w = [n \in 0 .. N |-> IF n = 0 \/ level > 0 THEN <<lo, hi>>
                                              ELSE wider(w[n - 1])]
           w == CHOOSE w : Widens(w)
<1>1. N \in Nat /\ IsFiniteSet(files[level]) /\ MaxKey \in Nat /\ level \in Nat
    BY FS_CardinalityType DEF LevelsOK, FilesOK, LevelAssumption, Level
<1>2. Overlapping(level, lo, hi) = touched(w[N])
    BY DEF Overlapping
<1>3. \A f \in files[level] : Lo(f) \in Key /\ Hi(f) \in Key /\ Lo(f) <= Hi(f)
    BY RangesOf
<1>4. CASE level > 0
    <2>1. Widens([n \in 0 .. N |-> <<lo, hi>>])
        <3> HIDE DEF wider, touched
        <3> QED  BY <1>4
    <2>2. Widens(w)
        <3> HIDE DEF Widens
        <3> QED  BY <2>1
    <2>3. w[N] = <<lo, hi>>
        <3> HIDE DEF w, wider, touched
        <3> QED  BY <1>1, <1>4, <2>2
    <2> HIDE DEF w
    <2> QED  BY <1>1, <1>2, <1>4, <2>3
<1>5. CASE level = 0
    <2> DEFINE X == Key \X Key
               step == [r \in X |-> wider(r)]
    <2>1. ASSUME NEW r \in X
          PROVE  /\ wider(r) \in X
                 /\ wider(r)[1] <= r[1] /\ wider(r)[2] >= r[2]
                 /\ \A f \in touched(r) : Lo(f) >= wider(r)[1] /\ Hi(f) <= wider(r)[2]
                 /\ \A q \in X : q[1] <= r[1] /\ (\A f \in touched(r) : Lo(f) >= q[1])
                                   => q[1] <= wider(r)[1]
                 /\ \A q \in X : q[2] >= r[2] /\ (\A f \in touched(r) : Hi(f) <= q[2])
                                   => q[2] >= wider(r)[2]
        <3> DEFINE A == {r[1]} \cup {Lo(f) : f \in touched(r)}
                   B == {r[2]} \cup {Hi(f) : f \in touched(r)}
        <3>1. r[1] \in Key /\ r[2] \in Key
            OBVIOUS
        <3>2. A \in SUBSET Key /\ A # {} /\ B \in SUBSET Key /\ B # {}
            BY <1>3, <3>1
        <3>3. A \in SUBSET (0 .. MaxKey) /\ B \in SUBSET (0 .. MaxKey)
            BY <1>1, <3>2 DEF Key
        <3>4. Min(A) \in A /\ (\A x \in A : Min(A) <= x) /\ Max(B) \in B /\ (\A x \in B : Max(B) >= x)
            <4> HIDE DEF A, B
            <4> QED  BY <1>1, <3>2, <3>3, MinMax
        <3>5. r[1] \in A /\ r[2] \in B /\ \A f \in touched(r) : Lo(f) \in A /\ Hi(f) \in B
            OBVIOUS
        <3>6. \A x \in A : x = r[1] \/ \E f \in touched(r) : x = Lo(f)
            OBVIOUS
        <3>7. \A x \in B : x = r[2] \/ \E f \in touched(r) : x = Hi(f)
            OBVIOUS
        <3>8. wider(r) = <<Min(A), Max(B)>>
            OBVIOUS
        <3>9. Min(A) \in Key /\ Max(B) \in Key
            <4> HIDE DEF A, B
            <4> QED  BY <3>2, <3>4
        <3> HIDE DEF A, B, wider, touched
        <3> QED  BY <3>4, <3>5, <3>6, <3>7, <3>8, <3>9
    <2>2. \E f \in [0 .. N -> X] : f[0] = <<lo, hi>> /\ \A i \in 1 .. N : f[i] = step[f[i - 1]]
        <3>1. step \in [X -> X]
            BY <2>1
        <3>2. PICK b \in X : b = <<lo, hi>>
            OBVIOUS
        <3>3. N \in Nat
            BY <1>1
        <3> HIDE DEF step, X, N
        <3>4. \E f \in [0 .. N -> X] : IsRun(f, N, b, step)
            BY <3>1, <3>3, Recurs
        <3> QED  BY <3>2, <3>4 DEF IsRun
    <2>3. \E f : Widens(f)
        <3>1. PICK f \in [0 .. N -> X] : f[0] = <<lo, hi>> /\ \A i \in 1 .. N : f[i] = step[f[i - 1]]
            BY <2>2
        <3>2. ASSUME NEW n \in 0 .. N
              PROVE  f[n] = IF n = 0 \/ level > 0 THEN <<lo, hi>> ELSE wider(f[n - 1])
            <4>1. CASE n = 0
                BY <3>1, <4>1
            <4>2. CASE n # 0
                <5>1. n \in 1 .. N /\ n - 1 \in 0 .. N
                    BY <1>1, <4>2
                <5>2. f[n - 1] \in X
                    BY <5>1
                <5>3. f[n] = wider(f[n - 1])
                    <6> HIDE DEF wider, X
                    <6> QED  BY <3>1, <5>1, <5>2
                <5> HIDE DEF wider
                <5> QED  BY <1>5, <4>2, <5>3
            <4> QED  BY <4>1, <4>2
        <3>3. f = [n \in 0 .. N |-> f[n]]
            OBVIOUS
        <3> HIDE DEF wider
        <3>4. f = [n \in 0 .. N |-> IF n = 0 \/ level > 0 THEN <<lo, hi>> ELSE wider(f[n - 1])]
            BY <3>2, <3>3
        <3> QED  BY <3>4
    <2>4. Widens(w)
        <3> HIDE DEF Widens
        <3> QED  BY <2>3
    <2> HIDE DEF w
    <2>5. w[0] = <<lo, hi>> /\ \A n \in 1 .. N : w[n] = wider(w[n - 1])
        <3>1. \A n \in 0 .. N : w[n] = IF n = 0 \/ level > 0 THEN <<lo, hi>> ELSE wider(w[n - 1])
            <4> HIDE DEF wider
            <4> QED  BY <2>4
        <3> HIDE DEF wider, Widens
        <3> QED  BY <1>1, <1>5, <3>1
    <2> HIDE DEF Widens
    <2>6. \A n \in 0 .. N : w[n] \in X
        <3> DEFINE S == {n \in 0 .. N : w[n] \in X}
        <3>1. 0 \in S
            <4>1. <<lo, hi>> \in X
                OBVIOUS
            <4> HIDE DEF wider, X
            <4> QED  BY <1>1, <2>5, <4>1
        <3>2. ASSUME NEW i \in 1 .. N, i - 1 \in S  PROVE i \in S
            <4> HIDE DEF wider, X
            <4> QED  BY <2>1, <2>5, <3>2
        <3>3. \A i \in 0 .. N : i \in S
            <4> HIDE DEF S
            <4> QED  BY <1>1, <3>1, <3>2, Climb
        <3> QED  BY <3>3
    <2>7. ASSUME NEW r \in X  PROVE touched(r) \subseteq touched(wider(r))
        <3>1. PICK q \in X : q = wider(r)
            BY <2>1
        <3>2. q[1] <= r[1] /\ q[2] >= r[2]
            <4> HIDE DEF wider, X
            <4> QED  BY <2>1, <3>1
        <3>3. touched(r) \subseteq touched(q)
            BY <1>1, <1>3, <3>2 DEF Touches, Key
        <3> HIDE DEF wider, touched
        <3> QED  BY <3>1, <3>3
    <2>8. ASSUME NEW r \in X, touched(wider(r)) = touched(r)
          PROVE  touched(wider(wider(r))) = touched(wider(r))
        <3>1. PICK q \in X : q = wider(r)
            BY <2>1
        <3>2. PICK p \in X : p = wider(q)
            BY <2>1
        <3>3. \A f \in touched(q) : Lo(f) >= q[1] /\ Hi(f) <= q[2]
            <4> HIDE DEF wider, touched, X
            <4> QED  BY <2>1, <2>8, <3>1
        <3>4. q[1] \in Nat /\ q[2] \in Nat /\ p[1] \in Nat /\ p[2] \in Nat
            BY <1>1 DEF Key
        <3>5. p[1] <= q[1] /\ p[2] >= q[2] /\ q[1] <= p[1] /\ q[2] >= p[2]
            <4> HIDE DEF wider, touched, X
            <4> QED  BY <2>1, <3>2, <3>3, <3>4
        <3>6. p = q
            <4>1. p = <<p[1], p[2]>> /\ q = <<q[1], q[2]>>
                OBVIOUS
            <4> QED  BY <3>4, <3>5, <4>1
        <3> HIDE DEF wider, touched
        <3> QED  BY <3>1, <3>2, <3>6
    <2>9. ASSUME NEW r \in X
          PROVE  IsFiniteSet(touched(r)) /\ Cardinality(touched(r)) \in Nat
        <3>1. touched(r) \in SUBSET files[level]
            OBVIOUS
        <3> HIDE DEF touched
        <3> QED  BY <1>1, <3>1, FS_Subset, FS_CardinalityType
    <2>10. touched(wider(w[N])) = touched(w[N])
        <3> DEFINE closed(r) == touched(wider(r)) = touched(r)
                   S == {n \in 0 .. N : closed(w[n]) \/ Cardinality(touched(w[n])) >= n}
        <3>1. 0 \in S
            <4>1. Cardinality(touched(w[0])) \in Nat
                <5> HIDE DEF touched, X
                <5> QED  BY <1>1, <2>6, <2>9
            <4> HIDE DEF touched, closed
            <4> QED  BY <1>1, <4>1
        <3>2. ASSUME NEW i \in 1 .. N, i - 1 \in S  PROVE i \in S
            <4>1. i - 1 \in 0 .. N /\ i \in 0 .. N
                BY <1>1
            <4>2. PICK r \in X : r = w[i - 1]
                BY <2>6, <4>1
            <4>3. w[i] = wider(r)
                <5> HIDE DEF wider, X
                <5> QED  BY <2>5, <4>2
            <4>4. PICK q \in X : q = w[i]
                BY <2>6, <4>1
            <4>5. CASE closed(r)
                <5>1. closed(q)
                    <6> HIDE DEF wider, touched, X
                    <6> QED  BY <2>8, <4>3, <4>4, <4>5
                <5> HIDE DEF closed, touched
                <5> QED  BY <4>1, <4>4, <5>1
            <4>6. CASE ~closed(r)
                <5>1. touched(r) \subseteq touched(q) /\ touched(r) # touched(q)
                    <6> HIDE DEF wider, touched, X
                    <6> QED  BY <2>7, <4>3, <4>4, <4>6
                <5>2. Cardinality(touched(r)) >= i - 1
                    <6> HIDE DEF touched
                    <6> QED  BY <3>2, <4>2, <4>6
                <5>3. /\ IsFiniteSet(touched(q)) /\ Cardinality(touched(q)) \in Nat
                      /\ Cardinality(touched(r)) \in Nat
                    <6> HIDE DEF touched, X
                    <6> QED  BY <2>9
                <5>4. Cardinality(touched(r)) <= Cardinality(touched(q))
                      /\ Cardinality(touched(r)) # Cardinality(touched(q))
                    <6> HIDE DEF touched
                    <6> QED  BY <5>1, <5>3, FS_Subset
                <5>5. Cardinality(touched(q)) >= i
                    <6> HIDE DEF touched
                    <6> QED  BY <5>2, <5>3, <5>4
                <5> HIDE DEF closed, touched
                <5> QED  BY <4>1, <4>4, <5>5
            <4> QED  BY <4>5, <4>6
        <3>3. N \in S
            <4> HIDE DEF S
            <4> QED  BY <1>1, <3>1, <3>2, Climb
        <3>4. PICK r \in X : r = w[N]
            BY <1>1, <2>6
        <3>5. closed(r) \/ Cardinality(touched(r)) >= N
            <4> HIDE DEF closed, touched
            <4> QED  BY <3>3, <3>4
        <3>6. ASSUME Cardinality(touched(r)) >= N  PROVE closed(r)
            <4>1. touched(r) \in SUBSET files[level] /\ touched(wider(r)) \in SUBSET files[level]
                <5> HIDE DEF wider
                <5> QED  OBVIOUS
            <4>2. touched(r) = files[level]
                <5>1. Cardinality(touched(r)) \in Nat
                    <6> HIDE DEF touched, X
                    <6> QED  BY <2>9
                <5> HIDE DEF touched
                <5>2. Cardinality(touched(r)) <= N
                    BY <1>1, <4>1, FS_Subset
                <5>3. Cardinality(touched(r)) = N
                    BY <1>1, <3>6, <5>1, <5>2
                <5> QED  BY <1>1, <4>1, <5>3, FS_Subset
            <4>3. touched(r) \subseteq touched(wider(r))
                <5> HIDE DEF touched, wider, X
                <5> QED  BY <2>7
            <4> HIDE DEF touched, wider
            <4> QED  BY <4>1, <4>2, <4>3
        <3> HIDE DEF touched, wider
        <3> QED  BY <3>4, <3>5, <3>6
    <2>11. PICK r \in X : r = w[N]
        BY <1>1, <2>6
    <2>12. PICK q \in X : q = wider(r)
        BY <2>1
    <2>13. touched(q) = touched(r) /\ \A f \in touched(r) : Lo(f) >= q[1] /\ Hi(f) <= q[2]
        <3> HIDE DEF touched, wider, X
        <3> QED  BY <2>1, <2>10, <2>11, <2>12
    <2>14. Overlapping(level, lo, hi) = touched(r)
        <3> HIDE DEF touched
        <3> QED  BY <1>2, <2>11
    <2>15. ASSUME NEW f \in files[level] \ touched(r), NEW g \in touched(r)  PROVE Apart(f, g)
        <3>1. ~Touches(f, q[1], q[2])
            BY <2>13, <2>15
        <3>2. q[1] \in Nat /\ q[2] \in Nat /\ Lo(f) \in Nat /\ Hi(f) \in Nat
              /\ Lo(g) \in Nat /\ Hi(g) \in Nat
            BY <1>1, <1>3 DEF Key
        <3>3. Lo(g) >= q[1] /\ Hi(g) <= q[2]
            BY <2>13
        <3> QED  BY <3>1, <3>2, <3>3 DEF Touches, Apart
    <2>16. \A n \in 0 .. N : w[n][1] <= lo /\ w[n][2] >= hi
        <3> DEFINE S == {n \in 0 .. N : w[n][1] <= lo /\ w[n][2] >= hi}
        <3>1. 0 \in S
            BY <1>1, <2>5 DEF Key
        <3>2. ASSUME NEW i \in 1 .. N, i - 1 \in S  PROVE i \in S
            <4>1. i - 1 \in 0 .. N /\ i \in 0 .. N
                BY <1>1
            <4>2. PICK p \in X : p = w[i - 1]
                BY <2>6, <4>1
            <4>3. PICK v \in X : v = w[i]
                BY <2>6, <4>1
            <4>4. v[1] <= p[1] /\ v[2] >= p[2]
                <5> HIDE DEF wider, X
                <5> QED  BY <2>1, <2>5, <4>2, <4>3
            <4>5. p[1] \in Nat /\ p[2] \in Nat /\ v[1] \in Nat /\ v[2] \in Nat /\ lo \in Nat /\ hi \in Nat
                BY <1>1 DEF Key
            <4> QED  BY <3>2, <4>1, <4>2, <4>3, <4>4, <4>5
        <3>3. \A i \in 0 .. N : i \in S
            <4> HIDE DEF S
            <4> QED  BY <1>1, <3>1, <3>2, Climb
        <3> QED  BY <3>3
    <2>17. ASSUME NEW f \in files[level], Touches(f, lo, hi)  PROVE f \in touched(r)
        <3>1. r[1] <= lo /\ r[2] >= hi
            BY <1>1, <2>11, <2>16
        <3>2. r[1] \in Nat /\ r[2] \in Nat /\ lo \in Nat /\ hi \in Nat /\ Lo(f) \in Nat /\ Hi(f) \in Nat
            BY <1>1, <1>3 DEF Key
        <3> QED  BY <2>17, <3>1, <3>2 DEF Touches
    <2>18. touched(r) \subseteq files[level]
        OBVIOUS
    <2> HIDE DEF touched
    <2> QED  BY <2>14, <2>15, <2>17, <2>18
<1>6. level > 0 \/ level = 0
    BY <1>1
<1> QED  BY <1>4, <1>5, <1>6

\* PickLevelForMemTableOutput chooses level 0, or one such that nothing there and
\* above overlaps the memtable.
LEMMA PickedLevel ==
    ASSUME LevelAssumption, NEW lo, NEW hi
    PROVE  /\ PickLevel(lo, hi) \in Level
           /\ \/ PickLevel(lo, hi) = 0
              \/ \A m \in 0 .. PickLevel(lo, hi) : ~OverlapInLevel(m, lo, hi)
<1> DEFINE free(l) == /\ ~OverlapInLevel(l, lo, hi)
                      /\ l + 1 < NumLevels =>
                           Size(Overlapping(l + 1, lo, hi)) <= MaxGrandParentOverlap
           S == {l \in 0 .. MaxMemCompactLevel : \A m \in 1 .. l : free(m)}
<1>1. MaxMemCompactLevel \in Nat /\ NumLevels \in Nat /\ MaxMemCompactLevel <= NumLevels - 1
    BY DEF LevelAssumption
<1>2. CASE OverlapInLevel(0, lo, hi)
    BY <1>1, <1>2 DEF PickLevel, Level
<1>3. CASE ~OverlapInLevel(0, lo, hi)
    <2>1. PickLevel(lo, hi) = Max(S)
        BY <1>3 DEF PickLevel
    <2>2. 0 \in S /\ S \in SUBSET (0 .. MaxMemCompactLevel)
        <3> HIDE DEF free
        <3> QED  BY <1>1
    <2>3. Max(S) \in S
        <3> HIDE DEF S
        <3> QED  BY <1>1, <2>2, MinMax
    <2>4. \A m \in 1 .. Max(S) : ~OverlapInLevel(m, lo, hi)
        BY <2>3
    <2>5. Max(S) \in 0 .. MaxMemCompactLevel
        BY <2>2, <2>3
    <2> HIDE DEF S
    <2> QED  BY <1>1, <1>3, <2>1, <2>4, <2>5 DEF Level
<1> QED  BY <1>2, <1>3

LEMMA WithinFiles ==
    ASSUME LevelAssumption, HistoryOK, LevelsOK, NEW level \in Level, NEW fs, fs # {},
           \A f \in fs : \E l \in Level : f \in files[l]
    PROVE  /\ Within(level, fs) \subseteq files[level]
           /\ \A f \in files[level], g \in fs : ~Apart(f, g) => f \in Within(level, fs)
           /\ level = 0 => \A f \in files[level] \ Within(level, fs), g \in Within(level, fs) :
                               Apart(f, g)
<1> DEFINE A == {Lo(f) : f \in fs}
           B == {Hi(f) : f \in fs}
<1>1. \A f \in fs : Lo(f) \in Key /\ Hi(f) \in Key
    BY RangesOf
<1>2. A \in SUBSET Key /\ B \in SUBSET Key /\ A # {} /\ B # {}
    BY <1>1
<1>3. MaxKey \in Nat /\ Key \in SUBSET (0 .. MaxKey)
    BY DEF LevelAssumption, Key
<1>4. Min(A) \in A /\ (\A x \in A : Min(A) <= x) /\ Max(B) \in B /\ (\A x \in B : Max(B) >= x)
    <2> HIDE DEF A, B
    <2> QED  BY <1>2, <1>3, MinMax
<1>5. PICK lo \in Key, hi \in Key : lo = LoOf(fs) /\ hi = HiOf(fs)
    <2>1. LoOf(fs) = Min(A) /\ HiOf(fs) = Max(B)
        BY DEF LoOf, HiOf
    <2> HIDE DEF A, B
    <2> QED  BY <1>2, <1>4, <2>1
<1>6. \A g \in fs : lo <= Lo(g) /\ Hi(g) <= hi
    BY <1>4, <1>5 DEF LoOf, HiOf
<1>7. Within(level, fs) = Overlapping(level, lo, hi)
    BY <1>5 DEF Within
<1>8. ASSUME NEW f \in files[level], NEW g \in fs, ~Apart(f, g)
      PROVE  f \in Within(level, fs)
    <2>1. Lo(f) \in Nat /\ Hi(f) \in Nat
        BY RangesOf
    <2>2. Lo(g) \in Nat /\ Hi(g) \in Nat
        BY RangesOf
    <2>3. lo \in Nat /\ hi \in Nat
        BY <1>3
    <2>4. Touches(f, lo, hi)
        BY <1>6, <1>8, <2>1, <2>2, <2>3 DEF Touches, Apart
    <2> QED  BY <1>7, <2>4, OverlappingFiles
<1> QED  BY <1>7, <1>8, OverlappingFiles

\* What a compaction of a level is given to read: the files of the next level that
\* overlap what it reads of its own; at level 0 nothing that is left overlaps them.
ChoiceOK(c, l) ==
    /\ c.level = l /\ c.in0 \subseteq files[l] /\ c.in0 # {} /\ c.in1 \subseteq files[l + 1]
    /\ l = 0 => \A f \in files[l] \ c.in0, g \in c.in0 : Apart(f, g)
    /\ \A f \in files[l + 1] \ c.in1, g \in c.in0 : Apart(f, g)

Deepest == NumLevels - 2

LEMMA LevelNumbers ==
    ASSUME LevelAssumption
    PROVE  /\ NumLevels \in Nat /\ Deepest \in Nat /\ Deepest > 0 /\ 0 \in Level
           /\ \A l \in Level : l \in Nat /\ l <= Deepest + 1
           /\ \A l \in 0 .. Deepest : l \in Nat /\ l \in Level /\ l + 1 \in Level
BY DEF LevelAssumption, Level, Deepest

LEMMA SetupChoice ==
    ASSUME LevelAssumption, HistoryOK, LevelsOK, NEW level \in 0 .. Deepest,
           NEW in0 \in SUBSET files[level], in0 # {},
           level = 0 => \A f \in files[level] \ in0, g \in in0 : Apart(f, g)
    PROVE  ChoiceOK(Setup(level, in0), level)
<1>1. level \in Level /\ level + 1 \in Level
    BY LevelNumbers
<1> DEFINE in1 == Within(level + 1, in0)
           e0  == Within(level, in0 \cup in1)
           e1  == Within(level + 1, e0)
<1>2. Setup(level, in0) = Grown(level, in0, in1, e0, e1)
    BY DEF Setup
<1>3. /\ in1 \subseteq files[level + 1]
      /\ \A f \in files[level + 1] \ in1, g \in in0 : Apart(f, g)
    BY <1>1, WithinFiles
<1>4. /\ e0 \subseteq files[level]
      /\ level = 0 => \A f \in files[level] \ e0, g \in e0 : Apart(f, g)
    <2>1. in0 \cup in1 # {} /\ \A f \in in0 \cup in1 : \E l \in Level : f \in files[l]
        BY <1>1, <1>3
    <2> HIDE DEF in1
    <2> QED  BY <1>1, <2>1, WithinFiles
<1>5. CASE Setup(level, in0) = Inputs(level, in0, in1)
    <2> HIDE DEF in1
    <2> QED  BY <1>3, <1>5 DEF ChoiceOK, Inputs
<1>6. CASE Setup(level, in0) = Inputs(level, e0, e1) /\ Cardinality(e0) > Cardinality(in0)
    <2>1. e0 # {}
        <3>1. IsFiniteSet(in0)
            BY <1>1, FS_Subset DEF LevelsOK, FilesOK
        <3>2. Cardinality(in0) \in Nat
            BY <3>1, FS_CardinalityType
        <3>3. Cardinality({}) = 0
            BY FS_EmptySet
        <3> HIDE DEF e0
        <3> QED  BY <1>6, <3>2, <3>3
    <2>2. /\ e1 \subseteq files[level + 1]
          /\ \A f \in files[level + 1] \ e1, g \in e0 : Apart(f, g)
        <3>1. \A f \in e0 : \E l \in Level : f \in files[l]
            BY <1>1, <1>4
        <3> HIDE DEF e0
        <3> QED  BY <1>1, <2>1, <3>1, WithinFiles
    <2> HIDE DEF e0, e1
    <2> QED  BY <1>4, <1>6, <2>1, <2>2 DEF ChoiceOK, Inputs
<1> HIDE DEF in1, e0, e1
<1> QED  BY <1>2, <1>5, <1>6 DEF Grown

LEMMA LimitsPositive ==
    ASSUME LevelAssumption
    PROVE  \A l \in 1 .. NumLevels - 1 : MaxEntries[l] \in Nat \ {0}
<1> DEFINE X == Nat \ {0}
           step == [x \in X |-> 10 * x]
           Is(f) == f = [l \in 1 .. NumLevels - 1 |-> IF l = 1 THEN LevelEntries ELSE 10 * f[l - 1]]
<1>1. NumLevels \in Nat /\ NumLevels - 2 \in Nat /\ LevelEntries \in X
    BY DEF LevelAssumption
<1>2. \E r \in [0 .. NumLevels - 2 -> X] : IsRun(r, NumLevels - 2, LevelEntries, step)
    <2>1. step \in [X -> X]
        OBVIOUS
    <2> HIDE DEF step, X
    <2> QED  BY <1>1, <2>1, Recurs
<1>3. PICK r \in [0 .. NumLevels - 2 -> X] :
          r[0] = LevelEntries /\ \A i \in 1 .. NumLevels - 2 : r[i] = step[r[i - 1]]
    BY <1>2 DEF IsRun
<1> DEFINE g == [l \in 1 .. NumLevels - 1 |-> r[l - 1]]
<1>4. ASSUME NEW l \in 1 .. NumLevels - 1
      PROVE  g[l] = IF l = 1 THEN LevelEntries ELSE 10 * g[l - 1]
    <2>1. CASE l = 1
        BY <1>3, <2>1
    <2>2. CASE l # 1
        <3>1. l - 1 \in 1 .. NumLevels - 2 /\ l - 2 \in 0 .. NumLevels - 2 /\ l - 1 \in 1 .. NumLevels - 1
              /\ (l - 1) - 1 = l - 2
            BY <1>1, <2>2
        <3>2. r[l - 1] = step[r[l - 2]] /\ r[l - 2] \in X
            BY <1>3, <3>1
        <3>3. g[l - 1] = r[l - 2]
            BY <3>1
        <3> QED  BY <2>2, <3>1, <3>2, <3>3
    <2> QED  BY <2>1, <2>2
<1>5. Is(g)
    <2>1. g = [l \in 1 .. NumLevels - 1 |-> g[l]]
        OBVIOUS
    <2> HIDE DEF g
    <2> QED  BY <1>4, <2>1
<1>6. Is(MaxEntries)
    <2>1. \E f : Is(f)
        <3> HIDE DEF Is, g
        <3> QED  BY <1>5
    <2>2. MaxEntries = CHOOSE f : Is(f)
        BY DEF MaxEntries
    <2> HIDE DEF Is
    <2> QED  BY <2>1, <2>2
<1> DEFINE S == {i \in 0 .. NumLevels - 2 : MaxEntries[i + 1] \in X}
<1>7. \A l \in 1 .. NumLevels - 1 :
          MaxEntries[l] = IF l = 1 THEN LevelEntries ELSE 10 * MaxEntries[l - 1]
    BY <1>6
<1> HIDE DEF Is
<1>8. 0 \in S
    BY <1>1, <1>7
<1>9. ASSUME NEW i \in 1 .. NumLevels - 2, i - 1 \in S  PROVE i \in S
    <2>1. i + 1 \in 1 .. NumLevels - 1 /\ i + 1 # 1 /\ (i + 1) - 1 = i /\ (i - 1) + 1 = i /\ i \in 0 .. NumLevels - 2
        BY <1>1
    <2>2. MaxEntries[i] \in X
        BY <1>9, <2>1
    <2>3. MaxEntries[i + 1] = 10 * MaxEntries[i]
        BY <1>7, <2>1
    <2> QED  BY <2>1, <2>2, <2>3
<1>10. \A i \in 0 .. NumLevels - 2 : i \in S
    <2> HIDE DEF S
    <2> QED  BY <1>1, <1>8, <1>9, Climb
<1>11. ASSUME NEW l \in 1 .. NumLevels - 1  PROVE MaxEntries[l] \in X
    <2>1. l - 1 \in 0 .. NumLevels - 2 /\ (l - 1) + 1 = l
        BY <1>1
    <2>2. l - 1 \in S
        BY <1>10, <2>1
    <2> QED  BY <2>1, <2>2
<1> QED  BY <1>11

-----------------------------------------------------------------------------
(* The choice of a compaction.                                             *)

LEMMA Cancels ==
    ASSUME NEW x \in Nat, NEW y \in Nat, NEW z \in Nat \ {0}, x * z > y * z
    PROVE  x > y
<1> SUFFICES ASSUME x <= y  PROVE FALSE
    OBVIOUS
<1>1. PICK d \in Nat : y = x + d
    <2> y - x \in Nat /\ y = x + (y - x)
        OBVIOUS
    <2> QED  OBVIOUS
<1>2. y * z = x * z + d * z /\ d * z \in Nat /\ x * z \in Nat
    BY <1>1
<1> QED  BY <1>2

LEMMA Scales ==
    ASSUME NEW x \in Nat, NEW y \in Nat, NEW z \in Nat
    PROVE  /\ x <= y => x * z <= y * z
           /\ x < y /\ z # 0 => x * z < y * z
<1>1. ASSUME x <= y  PROVE x * z <= y * z
    <2>1. PICK d \in Nat : y = x + d
        <3> y - x \in Nat /\ y = x + (y - x)
            BY <1>1
        <3> QED  OBVIOUS
    <2>2. y * z = x * z + d * z /\ d * z \in Nat /\ x * z \in Nat
        BY <2>1
    <2> QED  BY <2>2
<1>2. ASSUME x < y, z # 0  PROVE x * z < y * z
    <2>1. PICK d \in Nat : y = x + 1 + d
        <3> y - x - 1 \in Nat /\ y = x + 1 + (y - x - 1)
            BY <1>2
        <3> QED  OBVIOUS
    <2>2. y * z = x * z + z + d * z /\ d * z \in Nat /\ x * z \in Nat
        BY <2>1
    <2> QED  BY <1>2, <2>2
<1> QED  BY <1>1, <1>2

\* Shares are ordered: if a is of b more than c of d, and e of f not more than c of
\* d, then a of b is more than e of f.
LEMMA SharesOrdered ==
    ASSUME NEW a \in Nat, NEW b \in Nat \ {0}, NEW c \in Nat, NEW d \in Nat \ {0},
           NEW e \in Nat, NEW f \in Nat \ {0},
           a * d > c * b, e * d <= c * f
    PROVE  a * f > e * b
<1>1. (c * b) * f < (a * d) * f
    <2> a * d \in Nat /\ c * b \in Nat
        OBVIOUS
    <2> QED  BY Scales
<1>2. (e * d) * b <= (c * f) * b
    <2> e * d \in Nat /\ c * f \in Nat
        OBVIOUS
    <2> QED  BY Scales
<1>3. (c * b) * f = (c * f) * b /\ (a * d) * f = (a * f) * d /\ (e * d) * b = (e * b) * d
    OBVIOUS
<1>4. a * f \in Nat /\ e * b \in Nat /\ (a * f) * d \in Nat /\ (e * b) * d \in Nat
      /\ (c * f) * b \in Nat
    OBVIOUS
<1>5. (a * f) * d > (e * b) * d
    BY <1>1, <1>2, <1>3, <1>4
<1> QED  BY <1>4, <1>5, Cancels

\* Among levels 0 to n there is a first one with the highest score.
LEMMA HighestExists ==
    ASSUME NEW n \in Nat, NEW a \in [0 .. n -> Nat], NEW b \in [0 .. n -> Nat \ {0}]
    PROVE  \E l \in 0 .. n : \A m \in 0 .. n : /\ ~(a[m] * b[l] > a[l] * b[m])
                                               /\ m < l => a[l] * b[m] > a[m] * b[l]
<1> DEFINE best(l, k) == \A m \in 0 .. k : /\ ~(a[m] * b[l] > a[l] * b[m])
                                           /\ m < l => a[l] * b[m] > a[m] * b[l]
           S == {k \in 0 .. n : \E l \in 0 .. k : best(l, k)}
<1>1. \A l \in 0 .. n, m \in 0 .. n : a[l] * b[m] \in Nat
    OBVIOUS
<1>2. 0 \in S
    <2>1. best(0, 0)
        BY <1>1
    <2> HIDE DEF best
    <2> QED  BY <2>1
<1>3. ASSUME NEW k \in 1 .. n, k - 1 \in S  PROVE k \in S
    <2>1. PICK l \in 0 .. k - 1 : best(l, k - 1)
        BY <1>3
    <2>2. l \in 0 .. n /\ k \in 0 .. n /\ l < k /\ l \in 0 .. k /\ k \in 0 .. k
        OBVIOUS
    <2>3. \A m \in 0 .. k : m = k \/ m \in 0 .. k - 1
        OBVIOUS
    <2>4. CASE a[k] * b[l] > a[l] * b[k]
        <3>1. ASSUME NEW m \in 0 .. k - 1  PROVE a[k] * b[m] > a[m] * b[k]
            <4>1. m \in 0 .. n
                OBVIOUS
            <4>2. ~(a[m] * b[l] > a[l] * b[m])
                BY <2>1
            <4>3. a[m] * b[l] <= a[l] * b[m]
                <5>1. a[m] * b[l] \in Nat /\ a[l] * b[m] \in Nat
                    BY <1>1, <2>2, <4>1
                <5> QED  BY <4>2, <5>1
            <4>4. a[k] \in Nat /\ a[l] \in Nat /\ a[m] \in Nat
                  /\ b[k] \in Nat \ {0} /\ b[l] \in Nat \ {0} /\ b[m] \in Nat \ {0}
                BY <2>2, <4>1
            <4> QED  BY <2>4, <4>3, <4>4, SharesOrdered
        <3>2. ASSUME NEW m \in 0 .. k
              PROVE  ~(a[m] * b[k] > a[k] * b[m]) /\ (m < k => a[k] * b[m] > a[m] * b[k])
            <4>1. CASE m = k
                BY <1>1, <2>2, <4>1
            <4>2. CASE m \in 0 .. k - 1
                <5>1. a[k] * b[m] > a[m] * b[k]
                    BY <3>1, <4>2
                <5>2. a[k] * b[m] \in Nat /\ a[m] * b[k] \in Nat
                    BY <1>1, <2>2
                <5> QED  BY <5>1, <5>2
            <4> QED  BY <2>3, <4>1, <4>2
        <3>3. best(k, k)
            BY <3>2
        <3> HIDE DEF best
        <3> QED  BY <2>2, <3>3
    <2>5. CASE ~(a[k] * b[l] > a[l] * b[k])
        <3>1. best(l, k)
            BY <2>1, <2>2, <2>3, <2>5
        <3> HIDE DEF best
        <3> QED  BY <2>2, <3>1
    <2> QED  BY <2>4, <2>5
<1>4. n \in S
    <2>1. \A i \in 0 .. n : i \in S
        <3> HIDE DEF S
        <3> QED  BY <1>2, <1>3, Climb
    <2> HIDE DEF S
    <2> QED  BY <2>1
<1>5. PICK l \in 0 .. n : best(l, n)
    <2> HIDE DEF best
    <2> QED  BY <1>4
<1> QED  BY <1>5

LEMMA SizesOK ==
    ASSUME LevelAssumption, HistoryOK, LevelsOK, NEW l \in Level
    PROVE  /\ Cardinality(files[l]) \in Nat /\ Size(files[l]) \in Nat
           /\ Size(files[l]) > 0 => files[l] # {}
           /\ Cardinality(files[l]) > 0 => files[l] # {}
<1>1. Contents(files[l]) \in SUBSET written
    BY DEF Contents, LevelsOK, FilesOK
<1>2. IsFiniteSet(Contents(files[l])) /\ IsFiniteSet(files[l])
    BY <1>1, FS_Subset DEF HistoryOK, LevelsOK, FilesOK
<1>3. files[l] = {} => Contents(files[l]) = {}
    BY DEF Contents
<1>4. Cardinality({}) = 0
    BY FS_EmptySet
<1>5. Cardinality(files[l]) \in Nat /\ Cardinality(Contents(files[l])) \in Nat
    BY <1>2, FS_CardinalityType
<1> QED  BY <1>3, <1>4, <1>5 DEF Size

\* A compaction by size is of a level that has files, and not of the last one.
LEMMA LevelDue ==
    ASSUME LevelAssumption, HistoryOK, LevelsOK
    PROVE  CompactionLevel \in 0 .. Deepest /\ (SizeDue => files[CompactionLevel] # {})
<1> DEFINE n == Deepest
           a == [l \in 0 .. n |-> IF l = 0 THEN Cardinality(files[0]) ELSE Size(files[l])]
           b == [l \in 0 .. n |-> IF l = 0 THEN L0Trigger ELSE MaxEntries[l]]
<1>1. n \in Nat /\ L0Trigger \in Nat \ {0}
    BY LevelNumbers DEF LevelAssumption
<1>2. a \in [0 .. n -> Nat]
    <2> SUFFICES ASSUME NEW l \in 0 .. n
                 PROVE (IF l = 0 THEN Cardinality(files[0]) ELSE Size(files[l])) \in Nat
        OBVIOUS
    <2>1. l \in Level /\ 0 \in Level
        BY LevelNumbers
    <2> QED  BY <2>1, SizesOK
<1>3. b \in [0 .. n -> Nat \ {0}]
    <2> SUFFICES ASSUME NEW l \in 0 .. n
                 PROVE (IF l = 0 THEN L0Trigger ELSE MaxEntries[l]) \in Nat \ {0}
        OBVIOUS
    <2>1. l = 0 \/ l \in 1 .. NumLevels - 1
        BY LevelNumbers DEF Deepest
    <2> QED  BY <1>1, <2>1, LimitsPositive
<1>4. \A l \in 0 .. n : Score(l) = <<a[l], b[l]>>
    BY DEF Score
<1> HIDE DEF a, b
<1>5. \A l, m \in 0 .. n : Higher(Score(m), Score(l)) <=> a[m] * b[l] > a[l] * b[m]
    BY <1>4 DEF Higher
<1>6. \E l \in 0 .. n : \A m \in 0 .. n : /\ ~Higher(Score(m), Score(l))
                                          /\ m < l => Higher(Score(l), Score(m))
    <2>1. PICK l \in 0 .. n : \A m \in 0 .. n : /\ ~(a[m] * b[l] > a[l] * b[m])
                                                /\ m < l => a[l] * b[m] > a[m] * b[l]
        <3> HIDE DEF n
        <3> QED  BY <1>1, <1>2, <1>3, HighestExists
    <2> QED  BY <1>5, <2>1
<1>7. CompactionLevel \in 0 .. n
    BY <1>6 DEF CompactionLevel, Deepest
<1>8. ASSUME SizeDue  PROVE files[CompactionLevel] # {}
    <2>1. PICK l \in 0 .. n : l = CompactionLevel
        BY <1>7
    <2>2. a[l] \in Nat /\ b[l] \in Nat \ {0}
        BY <1>2, <1>3
    <2>3. ~(1 * b[l] > a[l] * 1)
        BY <1>4, <1>8, <2>1 DEF SizeDue, Higher
    <2>4. a[l] > 0
        BY <2>2, <2>3
    <2>5. a[l] = IF l = 0 THEN Cardinality(files[0]) ELSE Size(files[l])
        BY DEF a
    <2>6. l \in Level
        BY LevelNumbers
    <2> QED  BY <2>1, <2>4, <2>5, <2>6, SizesOK
<1> QED  BY <1>7, <1>8

LEMMA FileChosen ==
    ASSUME LevelAssumption, HistoryOK, LevelsOK, NEW l \in Level, files[l] # {}
    PROVE  FileAfterPointer(l) \in files[l]
<1> DEFINE q == InOrder(files[l])
           n == Cardinality(files[l])
           after == {i \in DOMAIN q : \/ compactPointer[l] = <<>>
                                      \/ Before(compactPointer[l][1], Final(q[i].ents))}
<1>1. /\ n \in Nat /\ DOMAIN q = 1 .. n
      /\ \A i \in 1 .. n : q[i] \in files[l]
      /\ \A f \in files[l] : \E i \in 1 .. n : q[i] = f
    <2>1. FilesOK(files[l])
        BY DEF LevelsOK
    <2>2. /\ n \in Nat /\ q = [i \in 1 .. n |-> q[i]]
          /\ \A i \in 1 .. n : q[i] \in files[l]
          /\ \A f \in files[l] : \E i \in 1 .. n : q[i] = f
        BY <2>1, FilesInOrder
    <2> HIDE DEF q, n
    <2> QED  BY <2>2
<1>2. FileAfterPointer(l) = IF after = {} THEN q[1] ELSE q[Min(after)]
    BY DEF FileAfterPointer
<1> HIDE DEF q, n
<1>3. 1 \in 1 .. n
    BY <1>1
<1>4. after # {} => Min(after) \in 1 .. n
    <2>1. after \in SUBSET (1 .. n)
        BY <1>1
    <2>2. after \in SUBSET (0 .. n)
        BY <1>1, <2>1
    <2> HIDE DEF after
    <2> QED  BY <1>1, <2>1, <2>2, MinMax
<1> HIDE DEF after
<1> QED  BY <1>1, <1>2, <1>3, <1>4

LEMMA PickedAtChoice ==
    ASSUME LevelAssumption, HistoryOK, LevelsOK, NEW l \in 0 .. Deepest, NEW f \in files[l]
    PROVE  ChoiceOK(PickedAt(l, f), l)
<1>1. l \in Level /\ l \in Nat
    BY LevelNumbers
<1>2. CASE l > 0
    <2>1. PickedAt(l, f) = Setup(l, {f})
        BY <1>2 DEF PickedAt
    <2> QED  BY <1>1, <1>2, <2>1, SetupChoice
<1>3. CASE l = 0
    <2> DEFINE in0 == Within(0, {f})
    <2>1. PickedAt(l, f) = Setup(0, in0)
        BY <1>3 DEF PickedAt
    <2>2. /\ in0 \subseteq files[0]
          /\ \A h \in files[0], g \in {f} : ~Apart(h, g) => h \in in0
          /\ \A h \in files[0] \ in0, g \in in0 : Apart(h, g)
        <3>1. 0 \in Level /\ {f} # {} /\ \A g \in {f} : \E k \in Level : g \in files[k]
            BY <1>1, <1>3
        <3> QED  BY <3>1, WithinFiles
    <2>3. ~Apart(f, f)
        <3>1. Lo(f) \in Nat /\ Hi(f) \in Nat /\ Lo(f) <= Hi(f)
            BY <1>1, RangesOf
        <3> QED  BY <3>1 DEF Apart
    <2>4. f \in in0
        <3> HIDE DEF in0
        <3> QED  BY <1>3, <2>2, <2>3
    <2> HIDE DEF in0
    <2> QED  BY <1>3, <2>1, <2>2, <2>4, SetupChoice
<1> QED  BY <1>1, <1>2, <1>3

\* What PickCompaction picks, if the file due for its seeks is one of the version.
LEMMA PickedChoice ==
    ASSUME LevelAssumption, HistoryOK, LevelsOK, NeedsCompaction,
           seekFile # <<>> => seekFile[1] \in 0 .. Deepest /\ seekFile[2] \in files[seekFile[1]]
    PROVE  \E l \in 0 .. Deepest : ChoiceOK(Picked, l)
<1>1. CASE SizeDue
    <2>1. PICK l \in 0 .. Deepest : l = CompactionLevel
        BY LevelDue
    <2>2. l \in Level
        BY LevelNumbers
    <2>3. FileAfterPointer(l) \in files[l]
        BY <1>1, <2>1, <2>2, LevelDue, FileChosen
    <2>4. Picked = PickedAt(l, FileAfterPointer(l))
        BY <1>1, <2>1 DEF Picked, PickedBySize
    <2> QED  BY <2>3, <2>4, PickedAtChoice
<1>2. CASE ~SizeDue
    <2>1. Picked = PickedAt(seekFile[1], seekFile[2]) /\ seekFile # <<>>
        BY <1>2 DEF Picked, NeedsCompaction
    <2> QED  BY <2>1, PickedAtChoice
<1> QED  BY <1>1, <1>2

\* What a manual compaction picks.
LEMMA ManualChoice ==
    ASSUME LevelAssumption, HistoryOK, LevelsOK, NEW m, m.level \in 0 .. Deepest,
           m.begin \in Key, m.end \in Key, RangeInputs(m) # {}
    PROVE  ChoiceOK(Setup(m.level, RangeInputs(m)), m.level)
<1> DEFINE all == Overlapping(m.level, m.begin, m.end)
           q == InOrder(all)
           n == Cardinality(all)
           full == {i \in DOMAIN q : Size(Range(SubSeq(q, 1, i))) >= MaxFileEntries}
<1>1. m.level \in Level
    BY LevelNumbers
<1>2. /\ all \subseteq files[m.level]
      /\ m.level = 0 => \A f \in files[m.level] \ all, g \in all : Apart(f, g)
    BY <1>1, OverlappingFiles
<1>3. FilesOK(all)
    <2>1. FilesOK(files[m.level])
        BY <1>1 DEF LevelsOK
    <2> HIDE DEF all
    <2> QED  BY <1>2, <2>1, FS_Subset DEF FilesOK
<1>4. /\ n \in Nat /\ q = [i \in 1 .. n |-> q[i]]
      /\ \A i \in 1 .. n : q[i] \in all
      /\ \A f \in all : \E i \in 1 .. n : q[i] = f
    <2> HIDE DEF all
    <2> QED  BY <1>3, FilesInOrder
<1>5. RangeInputs(m) = IF m.level = 0 \/ full = {} THEN Range(q) ELSE Range(SubSeq(q, 1, Min(full)))
    BY DEF RangeInputs
<1> HIDE DEF all, q, n
<1>6. DOMAIN q = 1 .. n /\ Range(q) = all
    BY <1>4 DEF Range
<1>7. full # {} => Range(SubSeq(q, 1, Min(full))) \subseteq all
    <2> SUFFICES ASSUME full # {}  PROVE Range(SubSeq(q, 1, Min(full))) \subseteq all
        OBVIOUS
    <2>1. Min(full) \in 1 .. n
        <3>1. full \in SUBSET (1 .. n)
            BY <1>6
        <3>2. full \in SUBSET (0 .. n)
            BY <1>4, <3>1
        <3> HIDE DEF full
        <3> QED  BY <1>4, <3>1, <3>2, MinMax
    <2>2. q \in Seq(all) /\ Len(q) = n
        <3>1. q \in [1 .. n -> all]
            BY <1>4
        <3> QED  BY <1>4, <3>1
    <2> HIDE DEF full
    <2>3. PICK k \in 1 .. n : k = Min(full)
        BY <2>1
    <2>4. SubSeq(q, 1, k) \in Seq(all)
        <3>1. 1 \in Int /\ k \in Int /\ \A i \in 1 .. k : q[i] \in all
            BY <1>4, <2>3
        <3> QED  BY <3>1, SubSeqProperties
    <2> QED  BY <2>3, <2>4 DEF Range
<1> HIDE DEF full
<1>8. RangeInputs(m) \subseteq files[m.level]
    BY <1>2, <1>5, <1>6, <1>7
<1>9. m.level = 0 => RangeInputs(m) = all
    BY <1>5, <1>6
<1> QED  BY <1>2, <1>8, <1>9, SetupChoice

-----------------------------------------------------------------------------
(* Reading.                                                                *)

\* The entries of A are newer than those B has of the same keys.
Newer(A, B) == \A a \in A, b \in B : a.key = b.key => a.seq > b.seq

LEMMA AnswerExists ==
    ASSUME LevelAssumption, HistoryOK, NEW A \in SUBSET written, NEW k, NEW s \in Nat
    PROVE  Answer(A, k, s) = {} <=> \A e \in A : ~(e.key = k /\ e.seq <= s)
<1> DEFINE seqs == {q \in 0 .. s : \E e \in A : e.key = k /\ e.seq = q}
<1>1. \A e \in A : e.seq \in Nat
    BY DEF HistoryOK, Entries
<1>2. ASSUME NEW e \in A, e.key = k, e.seq <= s  PROVE Answer(A, k, s) # {}
    <2>1. e.seq \in seqs
        BY <1>1, <1>2
    <2>2. PICK m \in seqs : \A q \in seqs : q <= m
        <3>1. seqs \in SUBSET (0 .. s)
            OBVIOUS
        <3> HIDE DEF seqs
        <3> QED  BY <2>1, <3>1, NewestExists
    <2>3. PICK f \in A : f.key = k /\ f.seq = m
        BY <2>2
    <2>4. ASSUME NEW g \in A, g.key = k, g.seq <= s  PROVE g.seq <= f.seq
        BY <1>1, <2>2, <2>3, <2>4
    <2>5. f.seq <= s
        BY <2>2, <2>3
    <2>6. f \in Answer(A, k, s)
        BY <2>3, <2>4, <2>5 DEF Answer
    <2> QED  BY <2>6
<1> QED  BY <1>2 DEF Answer

LEMMA NewerAnswers ==
    ASSUME LevelAssumption, HistoryOK, NEW A \in SUBSET written, NEW B \in SUBSET written,
           Newer(A, B), NEW k, NEW s \in Nat
    PROVE  /\ Answer(A, k, s) # {} => Answer(A \cup B, k, s) = Answer(A, k, s)
           /\ Answer(A, k, s) = {} => Answer(A \cup B, k, s) = Answer(B, k, s)
<1>1. \A e \in A \cup B : e.seq \in Nat
    BY DEF HistoryOK, Entries
<1>2. ASSUME Answer(A, k, s) # {}  PROVE Answer(A \cup B, k, s) = Answer(A, k, s)
    <2>1. PICK a \in A : a.key = k /\ a.seq <= s
        BY <1>2 DEF Answer
    <2>2. ASSUME NEW e \in Answer(A \cup B, k, s)  PROVE e \in Answer(A, k, s)
        <3>1. e.key = k /\ e.seq <= s /\ a.seq <= e.seq
            BY <2>1, <2>2 DEF Answer
        <3>2. e \notin B \/ e \in A
            BY <1>1, <2>1, <3>1 DEF Newer
        <3> QED  BY <2>2, <3>2 DEF Answer
    <2>3. ASSUME NEW e \in Answer(A, k, s)  PROVE e \in Answer(A \cup B, k, s)
        <3>1. e \in A /\ e.key = k /\ e.seq <= s
            BY <2>3 DEF Answer
        <3>2. \A f \in B : f.key = k => f.seq <= e.seq
            BY <1>1, <3>1 DEF Newer
        <3> QED  BY <2>3, <3>2 DEF Answer
    <2> QED  BY <2>2, <2>3
<1>3. ASSUME Answer(A, k, s) = {}  PROVE Answer(A \cup B, k, s) = Answer(B, k, s)
    <2>1. \A e \in A : ~(e.key = k /\ e.seq <= s)
        BY <1>3, AnswerExists
    <2> QED  BY <2>1 DEF Answer
<1> QED  BY <1>2, <1>3

\* The files Version::Get may read, level by level.
ReadingOrder(q, n, k, s) ==
    /\ q = [i \in 1 .. n |-> q[i]]
    /\ \A i \in 1 .. n : q[i][1] \in Level /\ q[i][2] \in LevelFiles(q[i][1], k, s)
    /\ \A l \in Level : \A f \in LevelFiles(l, k, s) : \E i \in 1 .. n : q[i] = <<l, f>>
    /\ \A i, j \in 1 .. n : i < j => \/ q[i][1] < q[j][1]
                                     \/ q[i][1] = q[j][1] /\ q[i][2].num > q[j][2].num

LEMMA CandidatesInOrder ==
    ASSUME LevelAssumption, HistoryOK, LevelsOK, NEW k, NEW s
    PROVE  \E n \in Nat : ReadingOrder(Candidates(k, s), n, k, s)
<1> DEFINE S == UNION {{l} \X LevelFiles(l, k, s) : l \in Level}
           n == Cardinality(S)
           less(a, b) == a[1] < b[1] \/ (a[1] = b[1] /\ a[2].num > b[2].num)
           before == [b \in S |-> {a \in S : less(a, b)}]
           q == Candidates(k, s)
<1>1. \A l \in Level : LevelFiles(l, k, s) \subseteq files[l]
    BY LevelNumbers DEF LevelFiles
<1>2. ASSUME NEW a \in S
      PROVE  /\ a = <<a[1], a[2]>> /\ a[1] \in Level /\ a[2] \in LevelFiles(a[1], k, s)
             /\ a[2] \in files[a[1]] /\ a[1] \in Nat /\ a[2].num \in Nat
    <2>1. PICK l \in Level : a \in {l} \X LevelFiles(l, k, s)
        OBVIOUS
    <2>2. a = <<a[1], a[2]>> /\ a[1] = l /\ a[2] \in LevelFiles(l, k, s)
        BY <2>1
    <2> QED  BY <1>1, <2>2, LevelNumbers DEF LevelsOK, FilesOK
<1>3. \A l \in Level : \A f \in LevelFiles(l, k, s) : <<l, f>> \in S
    OBVIOUS
<1>4. IsFiniteSet(S)
    <2> DEFINE U == UNION {files[l] : l \in Level}
    <2>1. IsFiniteSet(Level)
        <3>1. 0 \in Int /\ NumLevels - 1 \in Int
            BY DEF LevelAssumption
        <3> QED  BY <3>1, FS_Interval DEF Level
    <2>2. IsFiniteSet(U)
        <3>1. IsFiniteSet({files[l] : l \in Level})
            <4> DEFINE at == [l \in Level |-> files[l]]
            <4>1. at \in Surjection(Level, {files[l] : l \in Level})
                BY DEF Surjection
            <4> HIDE DEF at
            <4> QED  BY <2>1, <4>1, FS_Surjection
        <3>2. \A x \in {files[l] : l \in Level} : IsFiniteSet(x)
            BY DEF LevelsOK, FilesOK
        <3> QED  BY <3>1, <3>2, FS_UNION
    <2>3. S \in SUBSET (Level \X U)
        BY <1>2
    <2>4. IsFiniteSet(Level \X U)
        <3> HIDE DEF U
        <3> QED  BY <2>1, <2>2, FS_Product
    <2> HIDE DEF S, U
    <2> QED  BY <2>3, <2>4, FS_Subset
<1>5. \A a, b \in S : a # b => less(a, b) \/ less(b, a)
    <2> SUFFICES ASSUME NEW a \in S, NEW b \in S, a # b  PROVE less(a, b) \/ less(b, a)
        OBVIOUS
    <2>1. CASE a[1] = b[1]
        <3>1. a[2] # b[2]
            BY <1>2, <2>1
        <3>2. a[2].num # b[2].num
            BY <1>2, <2>1, <3>1 DEF LevelsOK, FilesOK
        <3> HIDE DEF S
        <3> QED  BY <1>2, <2>1, <3>2
    <2>2. CASE a[1] # b[1]
        <3> HIDE DEF S
        <3> QED  BY <1>2, <2>2
    <2> QED  BY <2>1, <2>2
<1>6. /\ \A a \in S : ~less(a, a)
      /\ \A a, b, c \in S : less(a, b) /\ less(b, c) => less(a, c)
    <2> HIDE DEF S
    <2> QED  BY <1>2
<1>7. q = [i \in 1 .. n |-> CHOOSE x \in S : Cardinality({y \in S : less(y, x)}) = i - 1]
    BY DEF Candidates, Sorted
<1> HIDE DEF S
<1>8. /\ n \in Nat
      /\ \A i \in 1 .. n : \E x \in S : Cardinality(before[x]) = i - 1
      /\ \A x \in S : Cardinality(before[x]) \in 0 .. n - 1
      /\ \A x, y \in S : Cardinality(before[x]) = Cardinality(before[y]) => x = y
      /\ \A x, y \in S : Cardinality(before[x]) < Cardinality(before[y]) => x \in before[y]
    <2> HIDE DEF less
    <2>1. before \in [S -> SUBSET S]
        OBVIOUS
    <2>2. \A x \in S : x \notin before[x]
        BY <1>6
    <2>3. \A x, y \in S : x # y => \/ x \in before[y] /\ before[x] \subseteq before[y]
                                   \/ y \in before[x] /\ before[y] \subseteq before[x]
        BY <1>5, <1>6
    <2> HIDE DEF before
    <2> QED  BY <1>4, <2>1, <2>2, <2>3, RankEnumerates
<1>9. \A x \in S : before[x] = {y \in S : less(y, x)}
    OBVIOUS
<1>10. ASSUME NEW i \in 1 .. n  PROVE q[i] \in S /\ Cardinality(before[q[i]]) = i - 1
    <2>1. q[i] = CHOOSE x \in S : Cardinality({y \in S : less(y, x)}) = i - 1
        BY <1>7
    <2>2. \E x \in S : Cardinality({y \in S : less(y, x)}) = i - 1
        BY <1>8, <1>9
    <2>3. q[i] \in S /\ Cardinality({y \in S : less(y, q[i])}) = i - 1
        <3> HIDE DEF q, less
        <3> QED  BY <2>1, <2>2
    <2> QED  BY <1>9, <2>3
<1>11. ASSUME NEW e \in S  PROVE \E i \in 1 .. n : q[i] = e
    <2> DEFINE i == Cardinality(before[e]) + 1
    <2>1. i \in 1 .. n
        BY <1>8
    <2>2. q[i] \in S /\ Cardinality(before[q[i]]) = i - 1
        BY <1>10, <2>1
    <2>3. Cardinality(before[e]) = i - 1
        BY <2>1, <2>2, <1>8
    <2> HIDE DEF i, q, before
    <2> QED  BY <1>8, <2>1, <2>2, <2>3
<1>12. ASSUME NEW i \in 1 .. n, NEW j \in 1 .. n, i < j  PROVE less(q[i], q[j])
    <2>1. q[i] \in S /\ q[j] \in S /\ Cardinality(before[q[i]]) < Cardinality(before[q[j]])
        <3>1. /\ q[i] \in S /\ Cardinality(before[q[i]]) = i - 1
              /\ q[j] \in S /\ Cardinality(before[q[j]]) = j - 1
            BY <1>10
        <3> HIDE DEF q, before, n
        <3> QED  BY <1>8, <1>12, <3>1
    <2>2. q[i] \in before[q[j]]
        <3> HIDE DEF before, q
        <3> QED  BY <1>8, <2>1
    <2> HIDE DEF q, less
    <2> QED  BY <2>1, <2>2
<1>13. q = [i \in 1 .. n |-> q[i]]
    BY <1>7
<1> HIDE DEF n, q, before
<1>14. /\ \A i \in 1 .. n : q[i][1] \in Level /\ q[i][2] \in LevelFiles(q[i][1], k, s)
       /\ \A l \in Level : \A f \in LevelFiles(l, k, s) : \E i \in 1 .. n : q[i] = <<l, f>>
    BY <1>2, <1>3, <1>10, <1>11
<1>15. \A i, j \in 1 .. n : i < j => \/ q[i][1] < q[j][1]
                                     \/ q[i][1] = q[j][1] /\ q[i][2].num > q[j][2].num
    BY <1>12
<1>16. ReadingOrder(q, n, k, s)
    <2> HIDE DEF less
    <2> QED  BY <1>13, <1>14, <1>15 DEF ReadingOrder
<1> QED  BY <1>8, <1>16 DEF q

LEMMA EndsOK ==
    ASSUME LevelAssumption, HistoryOK, LevelsOK, NEW l \in Level, NEW f \in files[l]
    PROVE  /\ f.ents \in SUBSET written /\ f.ents # {}
           /\ First(f.ents) \in f.ents /\ Final(f.ents) \in f.ents
           /\ \A e \in f.ents : /\ First(f.ents) = e \/ Before(First(f.ents), e)
                                /\ Final(f.ents) = e \/ Before(e, Final(f.ents))
<1>1. f.ents \in SUBSET written /\ f.ents # {}
    BY DEF LevelsOK, FilesOK
<1> QED  BY <1>1, FirstAndFinal

\* The files of a level below 0 follow one another, and no key is in two of them.
Separate ==
    \A l \in Level \ {0} : \A f, g \in files[l] : f # g => Disjoint(f, g) /\ ~SharesKey(f, g)

\* The entries of a key are the newer, the higher up they are.
Ordered ==
    /\ Newer(mem, imm)
    /\ \A l \in Level : \A f \in files[l] : Newer(mem, f.ents) /\ Newer(imm, f.ents)
    /\ \A f, g \in files[0] : f.num > g.num => Newer(f.ents, g.ents)
    /\ \A l, m \in Level : l < m => \A f \in files[l], g \in files[m] : Newer(f.ents, g.ents)

\* Below level 0 FindFile finds one file at most,
LEMMA OneFile ==
    ASSUME LevelAssumption, HistoryOK, LevelsOK, NEW k, NEW s, NEW l \in Level, l # 0,
           NEW f \in LevelFiles(l, k, s), NEW g \in LevelFiles(l, k, s)
    PROVE  f = g
<1>1. f \in files[l] /\ g \in files[l]
    BY DEF LevelFiles
<1>2. /\ f = g \/ Before(Final(f.ents), Final(g.ents))
      /\ f = g \/ Before(Final(g.ents), Final(f.ents))
    BY DEF LevelFiles
<1>3. Final(f.ents) \in written /\ Final(g.ents) \in written
    BY <1>1, EndsOK
<1> QED  BY <1>2, <1>3, BeforeOrders

\* and Version::Get reads every file that has an entry of the key to find.
LEMMA FileFound ==
    ASSUME LevelAssumption, HistoryOK, LevelsOK, Separate, NEW k, NEW s \in Nat,
           NEW l \in Level, NEW f \in files[l], NEW e \in f.ents, e.key = k, e.seq <= s
    PROVE  f \in LevelFiles(l, k, s)
<1>1. Lo(f) \in Nat /\ Hi(f) \in Nat /\ Lo(f) <= k /\ k <= Hi(f) /\ k \in Nat
    BY RangesOf
<1>2. CASE l = 0
    BY <1>1, <1>2 DEF LevelFiles, Touches
<1>3. CASE l # 0
    <2> DEFINE t == [key |-> k, seq |-> s]
               reach == {g \in files[l] : ~Before(Final(g.ents), t)}
    <2>1. \A a \in written : a.key \in Nat /\ a.seq \in Nat
        BY DEF LevelAssumption, HistoryOK, Entries, Key
    <2>2. /\ e \in written /\ Final(f.ents) \in written /\ First(f.ents) \in written
          /\ Final(f.ents) = e \/ Before(e, Final(f.ents))
          /\ First(f.ents) = e \/ Before(First(f.ents), e)
        BY EndsOK
    <2>3. f \in reach
        BY <1>1, <2>1, <2>2 DEF Before
    <2>4. ASSUME NEW g \in reach, g # f  PROVE Before(Final(f.ents), Final(g.ents))
        <3>1. /\ First(g.ents) \in written /\ Final(g.ents) \in written
              /\ Final(g.ents) \in g.ents
              /\ First(g.ents) = Final(g.ents) \/ Before(First(g.ents), Final(g.ents))
            BY EndsOK
        <3>2. Disjoint(f, g) /\ ~SharesKey(f, g)
            BY <1>3, <2>4 DEF Separate
        <3>3. CASE Before(Final(f.ents), First(g.ents))
            BY <2>2, <3>1, <3>3, BeforeOrders
        <3>4. CASE Before(Final(g.ents), First(f.ents))
            <4>1. Before(Final(g.ents), e)
                BY <2>2, <3>1, <3>4, BeforeOrders
            <4>2. ~Before(Final(g.ents), t)
                BY <2>4
            <4>3. Final(g.ents).key = k
                BY <1>1, <2>1, <2>2, <3>1, <4>1, <4>2 DEF Before
            <4> QED  BY <3>1, <3>2, <4>3 DEF SharesKey
        <3> QED  BY <3>2, <3>3, <3>4 DEF Disjoint
    <2>5. \A g \in reach : f = g \/ Before(Final(f.ents), Final(g.ents))
        BY <2>4
    <2> QED  BY <1>1, <1>3, <2>3, <2>5 DEF LevelFiles
<1> QED  BY <1>2, <1>3

AllFiles == UNION {Contents(files[l]) : l \in Level}

LEMMA InAllFiles ==
    ASSUME NEW e
    PROVE  e \in AllFiles <=> \E l \in Level : \E f \in files[l] : e \in f.ents
BY DEF AllFiles, Contents

\* The files read end with the one that has the newest entry to find, if any has.
LEMMA FilesFind ==
    ASSUME LevelAssumption, HistoryOK, LevelsOK, Separate, Ordered, NEW k, NEW s \in Nat
    PROVE  LET c == FilesRead(k, s)
               found == IF c # <<>> THEN Last(c)[2].ents ELSE {}
           IN  Answer(found, k, s) = Answer(AllFiles, k, s)
<1> DEFINE q == Candidates(k, s)
           hits == {i \in DOMAIN q : Answer(q[i][2].ents, k, s) # {}}
           c == FilesRead(k, s)
           found == IF c # <<>> THEN Last(c)[2].ents ELSE {}
<1>1. PICK n \in Nat :
         /\ q = [i \in 1 .. n |-> q[i]]
         /\ \A i \in 1 .. n : q[i][1] \in Level /\ q[i][2] \in LevelFiles(q[i][1], k, s)
         /\ \A l \in Level : \A f \in LevelFiles(l, k, s) : \E i \in 1 .. n : q[i] = <<l, f>>
         /\ \A i, j \in 1 .. n : i < j => \/ q[i][1] < q[j][1]
                                          \/ q[i][1] = q[j][1] /\ q[i][2].num > q[j][2].num
    BY CandidatesInOrder DEF ReadingOrder
<1>2. c = IF hits = {} THEN q ELSE SubSeq(q, 1, Min(hits))
    BY DEF FilesRead
<1> HIDE DEF q
<1>3. DOMAIN q = 1 .. n /\ Len(q) = n
    BY <1>1
<1>4. \A i \in 1 .. n : q[i][2] \in files[q[i][1]] /\ q[i][2].ents \in SUBSET written
    <2>1. \A l \in Level : LevelFiles(l, k, s) \subseteq files[l]
        BY LevelNumbers DEF LevelFiles
    <2> QED  BY <1>1, <2>1, EndsOK
<1>5. AllFiles \in SUBSET written
    BY EndsOK, InAllFiles
<1>6. ASSUME NEW e \in AllFiles, e.key = k, e.seq <= s
      PROVE  \E i \in hits : e \in q[i][2].ents
    <2>1. PICK l \in Level : \E f \in files[l] : e \in f.ents
        BY InAllFiles
    <2>5. PICK f \in files[l] : e \in f.ents
        BY <2>1
    <2>2. f \in LevelFiles(l, k, s)
        BY <1>6, <2>5, FileFound
    <2>3. PICK i \in 1 .. n : q[i] = <<l, f>>
        BY <1>1, <2>2
    <2>4. Answer(f.ents, k, s) # {}
        BY <1>6, <2>5, EndsOK, AnswerExists
    <2>6. q[i][2] = f /\ i \in DOMAIN q
        BY <1>3, <2>3
    <2> QED  BY <2>4, <2>5, <2>6
<1>7. ASSUME NEW i \in 1 .. n, NEW j \in 1 .. n, i < j
      PROVE  \A a \in q[i][2].ents, b \in q[j][2].ents : a.key = k /\ b.key = k => a.seq > b.seq
    <2>1. CASE q[i][1] < q[j][1]
        BY <1>1, <1>4, <2>1 DEF Ordered, Newer
    <2>2. CASE q[i][1] = q[j][1] /\ q[i][2].num > q[j][2].num /\ q[i][1] = 0
        BY <1>1, <1>4, <2>2 DEF Ordered, Newer
    <2>3. CASE q[i][1] = q[j][1] /\ q[i][2].num > q[j][2].num /\ q[i][1] # 0
        <3>1. q[i][2] = q[j][2]
            <4>1. PICK l \in Level : l = q[i][1] /\ l = q[j][1] /\ l # 0
                BY <1>1, <2>3
            <4>2. q[i][2] \in LevelFiles(l, k, s) /\ q[j][2] \in LevelFiles(l, k, s)
                BY <1>1, <4>1
            <4> QED  BY <4>1, <4>2, OneFile
        <3>2. q[i][2].num \in Nat
            BY <1>1, <1>4 DEF LevelsOK, FilesOK
        <3> QED  BY <2>3, <3>1, <3>2
    <2> QED  BY <1>1, <1>7, <2>1, <2>2, <2>3
<1>8. CASE hits = {}
    <2>1. Answer(AllFiles, k, s) = {}
        <3>1. \A e \in AllFiles : ~(e.key = k /\ e.seq <= s)
            BY <1>6, <1>8
        <3> QED  BY <3>1 DEF Answer
    <2>2. c = q
        BY <1>2, <1>8
    <2>3. Answer(found, k, s) = {}
        <3>1. CASE n = 0
            <4>1. c = <<>>
                BY <1>1, <2>2, <3>1
            <4> QED  BY <4>1 DEF Answer
        <3>2. CASE n # 0
            <4>1. n \in 1 .. n /\ c # <<>>
                BY <1>3, <2>2, <3>2
            <4>2. Last(c) = q[n]
                BY <1>3, <2>2 DEF Last
            <4>3. Answer(q[n][2].ents, k, s) = {}
                BY <1>3, <1>8, <4>1
            <4> QED  BY <4>1, <4>2, <4>3
        <3> QED  BY <3>1, <3>2
    <2> QED  BY <2>1, <2>3
<1>9. CASE hits # {}
    <2>1. PICK h \in 1 .. n : h \in hits /\ h = Min(hits) /\ \A i \in hits : h <= i
        <3>1. hits \in SUBSET (0 .. n) /\ hits \in SUBSET (1 .. n)
            BY <1>3
        <3> HIDE DEF hits
        <3> QED  BY <1>9, <3>1, MinMax
    <2>2. c = SubSeq(q, 1, h)
        BY <1>2, <1>9, <2>1
    <2>3. Len(c) = h /\ c[h] = q[h]
        <3> DEFINE R == {q[i] : i \in 1 .. n}
        <3>1. 1 \in Int /\ h \in Int /\ \A i \in 1 .. h : q[i] \in R
            OBVIOUS
        <3> HIDE DEF R
        <3>2. Len(c) = (IF 1 <= h THEN h - 1 + 1 ELSE 0) /\ \A i \in 1 .. h - 1 + 1 : c[i] = q[1 + i - 1]
            BY <2>2, <3>1, SubSeqProperties
        <3> QED  BY <3>2
    <2>4. c # <<>>
        BY <2>3
    <2>5. found = q[h][2].ents
        BY <2>3, <2>4 DEF Last
    <2> DEFINE F == q[h][2].ents
    <2>6. F \in SUBSET written /\ F \subseteq AllFiles /\ Answer(F, k, s) # {}
        <3>1. F \in SUBSET written /\ q[h][2] \in files[q[h][1]] /\ q[h][1] \in Level
            BY <1>1, <1>4
        <3>2. F \subseteq AllFiles
            BY <3>1, InAllFiles
        <3> QED  BY <2>1, <3>1, <3>2
    <2>7. ASSUME NEW e \in AllFiles, e.key = k, e.seq <= s
          PROVE  e \in F \/ \A a \in F : a.key = k => a.seq > e.seq
        <3>1. PICK i \in hits : e \in q[i][2].ents
            BY <1>6, <2>7
        <3>2. i \in 1 .. n /\ h <= i
            BY <1>3, <2>1
        <3>3. CASE i = h
            BY <3>1, <3>3
        <3>4. CASE h < i
            BY <1>7, <2>7, <3>1, <3>2, <3>4
        <3> QED  BY <3>2, <3>3, <3>4
    <2>8. \A e \in AllFiles : e.seq \in Nat
        BY <1>5 DEF HistoryOK, Entries
    <2> HIDE DEF F
    <2>9. PICK z \in F : z.key = k /\ z.seq <= s
        BY <2>6 DEF Answer
    <2>10. ASSUME NEW x \in Answer(F, k, s)  PROVE x \in Answer(AllFiles, k, s)
        <3>1. x \in F /\ x \in AllFiles /\ x.key = k /\ x.seq <= s
            BY <2>6, <2>10 DEF Answer
        <3>2. ASSUME NEW e \in AllFiles, e.key = k, e.seq <= s  PROVE e.seq <= x.seq
            <4>1. CASE e \in F
                BY <2>10, <3>2, <4>1 DEF Answer
            <4>2. CASE e \notin F
                BY <2>7, <2>8, <3>1, <3>2, <4>2
            <4> QED  BY <4>1, <4>2
        <3> QED  BY <3>1, <3>2 DEF Answer
    <2>11. ASSUME NEW x \in Answer(AllFiles, k, s)  PROVE x \in Answer(F, k, s)
        <3>1. x \in AllFiles /\ x.key = k /\ x.seq <= s /\ z.seq <= x.seq
            BY <2>6, <2>9, <2>11 DEF Answer
        <3>2. x \in F
            BY <2>6, <2>7, <2>8, <2>9, <3>1
        <3>3. \A e \in F : e.key = k /\ e.seq <= s => e.seq <= x.seq
            BY <2>6, <2>11 DEF Answer
        <3> QED  BY <3>1, <3>2, <3>3 DEF Answer
    <2> QED  BY <2>5, <2>10, <2>11 DEF F
<1> QED  BY <1>8, <1>9

\* DBImpl::Get tells what a scan of everything tells.
LEMMA GetScans ==
    ASSUME LevelAssumption, HistoryOK, LevelsOK, Separate, Ordered,
           mem \in SUBSET written, imm \in SUBSET written, NEW k, NEW s \in Nat
    PROVE  Get(k, s) = Scan(k, s)
<1> DEFINE tables == FilesRead(k, s)
           found == IF tables # <<>> THEN Last(tables)[2].ents ELSE {}
<1>1. AllFiles \in SUBSET written
    BY EndsOK, InAllFiles
<1>2. Newer(mem, imm \cup AllFiles) /\ Newer(imm, AllFiles)
    <2>1. \A e \in AllFiles : \E l \in Level : \E f \in files[l] : e \in f.ents
        BY InAllFiles
    <2> QED  BY <2>1 DEF Ordered, Newer
<1>3. Answer(found, k, s) = Answer(AllFiles, k, s)
    BY FilesFind
<1>4. Get(k, s) = Reads(IF Answer(mem, k, s) # {} THEN mem
                        ELSE IF Answer(imm, k, s) # {} THEN imm ELSE found, k, s)
    BY DEF Get
<1>5. Scan(k, s) = Reads(mem \cup (imm \cup AllFiles), k, s)
    <2>1. mem \cup imm \cup AllFiles = mem \cup (imm \cup AllFiles)
        OBVIOUS
    <2> QED  BY <2>1 DEF Scan, AllFiles
<1> HIDE DEF found
<1>6. imm \cup AllFiles \in SUBSET written
    BY <1>1
<1>7. CASE Answer(mem, k, s) # {}
    <2>1. Answer(mem \cup (imm \cup AllFiles), k, s) = Answer(mem, k, s)
        BY <1>2, <1>6, <1>7, NewerAnswers
    <2> QED  BY <1>4, <1>5, <1>7, <2>1 DEF Reads
<1>8. CASE Answer(mem, k, s) = {}
    <2>1. Answer(mem \cup (imm \cup AllFiles), k, s) = Answer(imm \cup AllFiles, k, s)
        <3>1. PICK B \in SUBSET written : B = imm \cup AllFiles
            BY <1>6
        <3>2. Answer(mem \cup B, k, s) = Answer(B, k, s)
            BY <1>2, <1>8, <3>1, NewerAnswers
        <3> QED  BY <3>1, <3>2
    <2>2. CASE Answer(imm, k, s) # {}
        <3>1. Answer(imm \cup AllFiles, k, s) = Answer(imm, k, s)
            BY <1>1, <1>2, <2>2, NewerAnswers
        <3> QED  BY <1>4, <1>5, <1>8, <2>1, <2>2, <3>1 DEF Reads
    <2>3. CASE Answer(imm, k, s) = {}
        <3>1. Answer(imm \cup AllFiles, k, s) = Answer(AllFiles, k, s)
            BY <1>1, <1>2, <2>3, NewerAnswers
        <3> QED  BY <1>3, <1>4, <1>5, <1>8, <2>1, <2>3, <3>1 DEF Reads
    <2> QED  BY <2>2, <2>3
<1> QED  BY <1>7, <1>8

-----------------------------------------------------------------------------
(* The inductive invariant.                                                *)

SnapshotsOK ==
    /\ snapshots \in Seq(Nat)
    /\ \A i \in DOMAIN snapshots : snapshots[i] <= LastSequence
    /\ \A i, j \in DOMAIN snapshots : i <= j => snapshots[i] <= snapshots[j]

ManualOK ==
    manual # <<>> =>
        /\ manual = <<manual[1]>>
        /\ manual[1] \in [level : 0 .. Deepest, begin : Key, end : Key, set : BOOLEAN]

SeekOK ==
    seekFile # <<>> => seekFile[1] \in 0 .. Deepest /\ seekFile[2] \in files[seekFile[1]]

\* The inputs of the compaction under way stay in the version, and no reader is older
\* than the snapshot it goes by.
WorkOK(w) ==
    /\ w.c.level \in 0 .. Deepest
    /\ w.c.in0 \subseteq files[w.c.level] /\ w.c.in0 # {}
    /\ w.c.in1 \subseteq files[w.c.level + 1]
    /\ w.smallest \in Nat /\ w.smallest <= LastSequence
    /\ \A i \in DOMAIN snapshots : w.smallest <= snapshots[i]
    /\ w.isManual => ManualDue

LevelsInv ==
    /\ LevelTypeOK /\ HistoryOK /\ LevelsOK /\ nextFile \in Nat
    /\ SnapshotsOK /\ ManualOK /\ SeekOK
    /\ comp # <<>> => comp = <<comp[1]>> /\ WorkOK(comp[1])

\* What makes it safe to move the inputs of a compaction down: what is left of
\* their level is newer, what is left of the next has none of their keys, and a key
\* that is deeper is known to be.
InputsSafe(w) ==
    LET l == w.c.level
    IN  /\ \A f \in files[l] \ w.c.in0, g \in w.c.in0 : Newer(f.ents, g.ents)
        /\ \A f \in files[l + 1] \ w.c.in1, g \in w.c.in0 :
               \A d \in f.ents, e \in g.ents : d.key # e.key
        /\ \A m \in Level : m > l + 1 =>
               \A f \in files[m] : \A d \in f.ents, e \in Input(w) :
                   d.key = e.key => e.key \in DeeperKeys(w)

\* No write that somebody may read is lost.
Complete == \A s \in Readable, k \in Key : Scan(k, s) = Reads(written, k, s)

Sound ==
    spoilt = {} => /\ Separate /\ Ordered /\ Complete
                   /\ comp # <<>> => InputsSafe(comp[1])

IInv == LevelsInv /\ Sound

-----------------------------------------------------------------------------
(* The levels stay well formed.                                            *)

LEMMA InitLevels ==
    ASSUME LevelAssumption, Init
    PROVE  IInv
<1>1. written = {} /\ LastSequence = 0 /\ IsFiniteSet({})
    BY FS_EmptySet DEF Init, LastSequence
<1>2. HistoryOK
    BY <1>1 DEF HistoryOK
<1>3. \A l \in Level : files[l] = {}
    BY DEF Init
<1>4. LevelsOK
    BY <1>1, <1>3 DEF LevelsOK, FilesOK
<1>5. LevelTypeOK
    <2>1. files \in [Level -> SUBSET File]
        BY DEF Init
    <2> QED  BY <1>3, <2>1 DEF Init, LevelTypeOK
<1>6. SnapshotsOK /\ ManualOK /\ SeekOK
    <2>1. snapshots = <<>> /\ manual = <<>> /\ seekFile = <<>>
        BY DEF Init
    <2>2. <<>> \in Seq(Nat) /\ DOMAIN <<>> = {}
        OBVIOUS
    <2> QED  BY <2>1, <2>2 DEF SnapshotsOK, ManualOK, SeekOK
<1>7. LevelsInv
    BY <1>2, <1>4, <1>5, <1>6 DEF LevelsInv, Init
<1>8. Separate /\ Ordered
    <2>1. 0 \in Level
        BY LevelNumbers
    <2> QED  BY <1>3, <2>1 DEF Separate, Ordered, Newer, Init
<1>9. Complete
    <2>1. \A s, k : Scan(k, s) = Reads(written, k, s)
        <3>1. \A e : e \notin AllFiles
            BY <1>3, InAllFiles
        <3>2. mem \cup imm \cup AllFiles = {}
            BY <3>1 DEF Init
        <3> QED  BY <1>1, <3>2 DEF Scan, AllFiles
    <2> QED  BY <2>1 DEF Complete
<1> QED  BY <1>7, <1>8, <1>9 DEF IInv, Sound, Init

\* A level keeps its files and what they hold is written.
LEMMA LevelsKept ==
    ASSUME LevelsOK, files' = files, written \subseteq written'
    PROVE  LevelsOK'
BY DEF LevelsOK, FilesOK

LEMMA HistoryKept ==
    ASSUME HistoryOK, written' = written
    PROVE  HistoryOK' /\ LastSequence' = LastSequence
BY DEF HistoryOK, LastSequence

LEMMA LevelsStutter ==
    ASSUME LevelAssumption, IInv, UNCHANGED vars
    PROVE  IInv'
<1>1. /\ files' = files /\ nextFile' = nextFile /\ seekFile' = seekFile /\ mem' = mem /\ imm' = imm
      /\ comp' = comp /\ manual' = manual /\ spoilt' = spoilt /\ written' = written
      /\ snapshots' = snapshots
    BY DEF vars
<1>2. HistoryOK' /\ LastSequence' = LastSequence /\ LevelsOK'
    BY <1>1, HistoryKept, LevelsKept DEF IInv, LevelsInv
<1>3. LevelTypeOK'
    BY <1>1 DEF IInv, LevelsInv, LevelTypeOK, ManualDue
<1>4. SnapshotsOK' /\ ManualOK' /\ SeekOK'
    BY <1>1, <1>2 DEF IInv, LevelsInv, SnapshotsOK, ManualOK, SeekOK
<1>5. comp # <<>> => comp = <<comp[1]>> /\ WorkOK(comp[1])'
    BY <1>1, <1>2 DEF IInv, LevelsInv, WorkOK, ManualDue
<1>6. LevelsInv'
    BY <1>1, <1>2, <1>3, <1>4, <1>5 DEF IInv, LevelsInv
<1>7. (Separate <=> Separate') /\ (Ordered <=> Ordered')
    BY <1>1 DEF Separate, Ordered
<1>8. \A s, k : Scan(k, s)' = Scan(k, s)
    BY <1>1 DEF Scan
<1>9. Readable' = Readable
    BY <1>1, <1>2 DEF Readable
<1>10. Complete => Complete'
    BY <1>1, <1>8, <1>9 DEF Complete
<1>11. comp # <<>> /\ InputsSafe(comp[1]) => InputsSafe(comp[1])'
    BY <1>1 DEF InputsSafe
<1>12. Sound'
    BY <1>1, <1>7, <1>10, <1>11 DEF IInv, Sound
<1> QED  BY <1>6, <1>12 DEF IInv

\* A write is a new entry with the next sequence number.
LEMMA HistoryGrows ==
    ASSUME LevelAssumption, HistoryOK, NEW k \in Key, NEW del \in BOOLEAN, NEW e,
           e = [key |-> k, seq |-> LastSequence + 1, del |-> del],
           written' = written \cup {e}
    PROVE  /\ HistoryOK' /\ LastSequence \in Nat /\ LastSequence' = LastSequence + 1
           /\ e \notin written /\ \A f \in written : e.seq > f.seq
<1>1. LastSequence \in Nat
    BY FS_CardinalityType DEF HistoryOK, LastSequence
<1>2. \A f \in written : f.seq \in Nat /\ e.seq > f.seq
    BY <1>1 DEF HistoryOK
<1>3. e \notin written
    BY <1>1, <1>2
<1>4. IsFiniteSet(written') /\ LastSequence' = LastSequence + 1
    BY <1>3, FS_AddElement DEF HistoryOK, LastSequence
<1>5. written' \subseteq Entries(Key)
    <2>1. e \in Entries(Key)
        BY <1>1 DEF Entries
    <2> QED  BY <2>1 DEF HistoryOK
<1>6. \A f \in written' : f.seq \in 1 .. LastSequence'
    BY <1>1, <1>2, <1>4 DEF HistoryOK
<1>7. \A f, g \in written' : f.seq = g.seq => f = g
    BY <1>2, <1>3 DEF HistoryOK
<1> QED  BY <1>1, <1>2, <1>3, <1>4, <1>5, <1>6, <1>7 DEF HistoryOK

LEMMA WriteKeepsLevels ==
    ASSUME LevelAssumption, LevelsInv, NEW k \in Key, NEW del \in BOOLEAN, Write(k, del)
    PROVE  LevelsInv'
<1>1. /\ files' = files /\ nextFile' = nextFile /\ seekFile' = seekFile /\ snapshots' = snapshots
      /\ comp' = comp /\ manual' = manual /\ spoilt' = spoilt /\ imm' = imm
    BY DEF Write
<1>2. PICK e : e = [key |-> k, seq |-> LastSequence + 1, del |-> del]
    OBVIOUS
<1>3. mem' = mem \cup {e} /\ written' = written \cup {e}
    BY <1>2 DEF Write
<1>4. HistoryOK' /\ LastSequence \in Nat /\ LastSequence' = LastSequence + 1
    BY <1>2, <1>3, HistoryGrows DEF LevelsInv
<1>5. LevelsOK'
    BY <1>1, <1>3, LevelsKept DEF LevelsInv
<1>6. LevelTypeOK'
    <2>1. written' \subseteq Entries(Key)
        BY <1>4 DEF HistoryOK
    <2> QED  BY <1>1, <1>3, <2>1 DEF LevelsInv, LevelTypeOK, ManualDue
<1>7. SnapshotsOK'
    <2>1. snapshots \in Seq(Nat) /\ \A i \in DOMAIN snapshots : snapshots[i] <= LastSequence
        BY DEF LevelsInv, SnapshotsOK
    <2>2. \A i \in DOMAIN snapshots : snapshots[i] \in Nat
        BY <2>1, LenProperties
    <2>3. \A i \in DOMAIN snapshots : snapshots[i] <= LastSequence + 1
        BY <1>4, <2>1, <2>2
    <2> QED  BY <1>1, <1>4, <2>3 DEF LevelsInv, SnapshotsOK
<1>8. comp # <<>> => comp = <<comp[1]>> /\ WorkOK(comp[1])'
    <2> SUFFICES ASSUME comp # <<>>  PROVE comp = <<comp[1]>> /\ WorkOK(comp[1])'
        OBVIOUS
    <2>1. comp = <<comp[1]>> /\ WorkOK(comp[1])
        BY DEF LevelsInv
    <2>2. comp[1].smallest <= LastSequence + 1
        BY <1>4, <2>1 DEF WorkOK
    <2> QED  BY <1>1, <1>4, <2>1, <2>2 DEF WorkOK, ManualDue
<1> QED  BY <1>1, <1>4, <1>5, <1>6, <1>7, <1>8 DEF LevelsInv, ManualOK, SeekOK

LEMMA SwitchKeepsLevels ==
    ASSUME LevelAssumption, LevelsInv, SwitchMemTable
    PROVE  LevelsInv'
<1>1. /\ files' = files /\ nextFile' = nextFile /\ seekFile' = seekFile /\ snapshots' = snapshots
      /\ comp' = comp /\ manual' = manual /\ spoilt' = spoilt /\ written' = written
      /\ imm' = mem /\ mem' = {}
    BY DEF SwitchMemTable
<1>2. HistoryOK' /\ LastSequence' = LastSequence /\ LevelsOK'
    BY <1>1, HistoryKept, LevelsKept DEF LevelsInv
<1> QED  BY <1>1, <1>2 DEF LevelsInv, LevelTypeOK, ManualDue, SnapshotsOK, ManualOK, SeekOK, WorkOK

LEMMA SnapshotKeepsLevels ==
    ASSUME LevelAssumption, LevelsInv, GetSnapshot
    PROVE  LevelsInv'
<1>1. /\ files' = files /\ nextFile' = nextFile /\ seekFile' = seekFile /\ mem' = mem /\ imm' = imm
      /\ comp' = comp /\ manual' = manual /\ spoilt' = spoilt /\ written' = written
      /\ snapshots' = Append(snapshots, LastSequence)
    BY DEF GetSnapshot
<1>2. HistoryOK' /\ LastSequence' = LastSequence /\ LevelsOK'
    BY <1>1, HistoryKept, LevelsKept DEF LevelsInv
<1>3. LastSequence \in Nat
    BY FS_CardinalityType DEF LevelsInv, HistoryOK, LastSequence
<1>4. /\ snapshots' \in Seq(Nat) /\ DOMAIN snapshots' = 1 .. Len(snapshots) + 1
      /\ snapshots \in Seq(Nat) /\ DOMAIN snapshots = 1 .. Len(snapshots) /\ Len(snapshots) \in Nat
      /\ \A i \in DOMAIN snapshots : snapshots'[i] = snapshots[i] /\ snapshots[i] \in Nat
      /\ snapshots'[Len(snapshots) + 1] = LastSequence
    <2>1. snapshots \in Seq(Nat)
        BY DEF LevelsInv, SnapshotsOK
    <2> QED  BY <1>1, <1>3, <2>1, AppendProperties, LenProperties
<1>5. \A i \in DOMAIN snapshots' : \/ i \in DOMAIN snapshots
                                   \/ i = Len(snapshots) + 1 /\ snapshots'[i] = LastSequence
    BY <1>4
<1>6. SnapshotsOK'
    <2>0. /\ \A i \in DOMAIN snapshots : snapshots[i] <= LastSequence
          /\ \A i, j \in DOMAIN snapshots : i <= j => snapshots[i] <= snapshots[j]
        BY DEF LevelsInv, SnapshotsOK
    <2>1. \A i \in DOMAIN snapshots' : snapshots'[i] <= LastSequence
        <3> SUFFICES ASSUME NEW i \in DOMAIN snapshots'  PROVE snapshots'[i] <= LastSequence
            OBVIOUS
        <3>1. CASE i \in DOMAIN snapshots
            BY <1>4, <2>0, <3>1
        <3>2. CASE i \notin DOMAIN snapshots
            <4>1. snapshots'[i] = LastSequence
                BY <1>5, <3>2
            <4> QED  BY <1>3, <4>1
        <3> QED  BY <3>1, <3>2
    <2>2. \A i, j \in DOMAIN snapshots' : i <= j => snapshots'[i] <= snapshots'[j]
        <3> SUFFICES ASSUME NEW i \in DOMAIN snapshots', NEW j \in DOMAIN snapshots', i <= j
                     PROVE snapshots'[i] <= snapshots'[j]
            OBVIOUS
        <3>1. CASE j \in DOMAIN snapshots
            <4>1. i \in DOMAIN snapshots
                BY <1>4, <1>5, <3>1
            <4> QED  BY <1>4, <2>0, <3>1, <4>1
        <3>2. CASE j \notin DOMAIN snapshots
            <4>1. snapshots'[j] = LastSequence
                BY <1>5, <3>2
            <4> QED  BY <2>1, <4>1
        <3> QED  BY <3>1, <3>2
    <2> QED  BY <1>2, <1>4, <2>1, <2>2 DEF SnapshotsOK
<1>7. comp # <<>> => comp = <<comp[1]>> /\ WorkOK(comp[1])'
    <2> SUFFICES ASSUME comp # <<>>  PROVE comp = <<comp[1]>> /\ WorkOK(comp[1])'
        OBVIOUS
    <2>1. comp = <<comp[1]>> /\ WorkOK(comp[1])
        BY DEF LevelsInv
    <2>2. /\ comp[1].smallest <= LastSequence
          /\ \A i \in DOMAIN snapshots : comp[1].smallest <= snapshots[i]
        BY <2>1 DEF WorkOK
    <2>3. \A i \in DOMAIN snapshots' : comp[1].smallest <= snapshots'[i]
        BY <1>4, <1>5, <2>2
    <2> QED  BY <1>1, <1>2, <2>1, <2>3 DEF WorkOK, ManualDue
<1>8. LevelTypeOK' /\ ManualOK' /\ SeekOK'
    BY <1>1 DEF LevelsInv, LevelTypeOK, ManualDue, ManualOK, SeekOK
<1> QED  BY <1>1, <1>2, <1>6, <1>7, <1>8 DEF LevelsInv

LEMMA ReleaseKeepsLevels ==
    ASSUME LevelAssumption, LevelsInv, NEW i, ReleaseSnapshot(i)
    PROVE  LevelsInv' /\ \A j \in DOMAIN snapshots' : \E m \in DOMAIN snapshots : snapshots'[j] = snapshots[m]
<1>1. /\ files' = files /\ nextFile' = nextFile /\ seekFile' = seekFile /\ mem' = mem /\ imm' = imm
      /\ comp' = comp /\ manual' = manual /\ spoilt' = spoilt /\ written' = written
      /\ i \in DOMAIN snapshots
      /\ snapshots' = SubSeq(snapshots, 1, i - 1) \o SubSeq(snapshots, i + 1, Len(snapshots))
    BY DEF ReleaseSnapshot, RemoveAt
<1>2. HistoryOK' /\ LastSequence' = LastSequence /\ LevelsOK'
    BY <1>1, HistoryKept, LevelsKept DEF LevelsInv
<1>3. PICK n \in Nat : /\ n = Len(snapshots) /\ DOMAIN snapshots = 1 .. n
                       /\ \A j \in 1 .. n : snapshots[j] \in Nat
    BY LenProperties DEF LevelsInv, SnapshotsOK
<1>4. /\ snapshots' \in Seq(Nat) /\ DOMAIN snapshots' = 1 .. n - 1
      /\ \A j \in 1 .. n - 1 : snapshots'[j] = snapshots[IF j < i THEN j ELSE j + 1]
    <2> DEFINE a == SubSeq(snapshots, 1, i - 1)
               b == SubSeq(snapshots, i + 1, n)
    <2>1. i \in 1 .. n
        BY <1>1, <1>3
    <2>2. /\ a \in Seq(Nat) /\ Len(a) = i - 1 /\ \A j \in 1 .. i - 1 : a[j] = snapshots[j]
        <3>1. 1 \in Int /\ i - 1 \in Int /\ \A j \in 1 .. i - 1 : snapshots[j] \in Nat
            BY <1>3, <2>1
        <3>2. a \in Seq(Nat) /\ Len(a) = (IF 1 <= i - 1 THEN i - 1 - 1 + 1 ELSE 0)
              /\ \A j \in 1 .. i - 1 - 1 + 1 : a[j] = snapshots[1 + j - 1]
            BY <3>1, SubSeqProperties
        <3> HIDE DEF a
        <3> QED  BY <2>1, <3>2
    <2>3. /\ b \in Seq(Nat) /\ Len(b) = n - i /\ \A j \in 1 .. n - i : b[j] = snapshots[i + j]
        <3>1. i + 1 \in Int /\ n \in Int /\ \A j \in i + 1 .. n : snapshots[j] \in Nat
            BY <1>3, <2>1
        <3>2. b \in Seq(Nat) /\ Len(b) = (IF i + 1 <= n THEN n - (i + 1) + 1 ELSE 0)
              /\ \A j \in 1 .. n - (i + 1) + 1 : b[j] = snapshots[(i + 1) + j - 1]
            BY <3>1, SubSeqProperties
        <3> HIDE DEF b
        <3>3. n - (i + 1) + 1 = n - i /\ \A j \in 1 .. n - i : (i + 1) + j - 1 = i + j
            BY <1>3, <2>1
        <3> QED  BY <2>1, <3>2, <3>3
    <2>4. snapshots' = a \o b
        BY <1>1, <1>3
    <2> HIDE DEF a, b
    <2>5. /\ a \o b \in Seq(Nat) /\ Len(a \o b) = Len(a) + Len(b)
          /\ \A j \in 1 .. Len(a) : (a \o b)[j] = a[j]
          /\ \A j \in 1 .. Len(b) : (a \o b)[Len(a) + j] = b[j]
          /\ DOMAIN (a \o b) = 1 .. Len(a) + Len(b)
        <3>1. a \in Seq(Nat) /\ b \in Seq(Nat)
            BY <2>2, <2>3
        <3> QED  BY <3>1, ConcatProperties, LenProperties
    <2>6. snapshots' \in Seq(Nat) /\ DOMAIN snapshots' = 1 .. n - 1
        <3>1. Len(a) + Len(b) = n - 1
            BY <2>1, <2>2, <2>3
        <3> QED  BY <2>4, <2>5, <3>1
    <2>7. ASSUME NEW j \in 1 .. n - 1  PROVE snapshots'[j] = snapshots[IF j < i THEN j ELSE j + 1]
        <3>1. CASE j < i
            <4>1. j \in 1 .. i - 1
                BY <2>1, <3>1
            <4> QED  BY <2>2, <2>4, <2>5, <3>1, <4>1
        <3>2. CASE ~(j < i)
            <4>1. PICK m \in 1 .. n - i : m = j - (i - 1)
                BY <2>1, <3>2
            <4>2. j = Len(a) + m /\ i + m = j + 1
                BY <2>1, <2>2, <4>1
            <4>3. snapshots'[j] = b[m]
                BY <2>3, <2>4, <2>5, <4>2
            <4> QED  BY <2>3, <3>2, <4>2, <4>3
        <3> QED  BY <3>1, <3>2
    <2> QED  BY <2>6, <2>7
<1>5. \A j \in DOMAIN snapshots' : \E m \in DOMAIN snapshots : snapshots'[j] = snapshots[m]
    <2> SUFFICES ASSUME NEW j \in 1 .. n - 1
                 PROVE  \E m \in DOMAIN snapshots : snapshots'[j] = snapshots[m]
        BY <1>4
    <2>1. CASE j < i
        <3>1. j \in DOMAIN snapshots
            BY <1>3
        <3> QED  BY <1>4, <2>1, <3>1
    <2>2. CASE ~(j < i)
        <3>1. j + 1 \in DOMAIN snapshots
            BY <1>1, <1>3, <2>2
        <3> QED  BY <1>4, <2>2, <3>1
    <2> QED  BY <2>1, <2>2
<1>6. SnapshotsOK'
    <2>1. \A j \in DOMAIN snapshots' : snapshots'[j] <= LastSequence
        BY <1>5 DEF LevelsInv, SnapshotsOK
    <2>2. \A j, m \in DOMAIN snapshots' : j <= m => snapshots'[j] <= snapshots'[m]
        <3> SUFFICES ASSUME NEW j \in 1 .. n - 1, NEW m \in 1 .. n - 1, j <= m
                     PROVE  snapshots'[j] <= snapshots'[m]
            BY <1>4
        <3> DEFINE jj == IF j < i THEN j ELSE j + 1
                   mm == IF m < i THEN m ELSE m + 1
        <3>1. jj \in DOMAIN snapshots /\ mm \in DOMAIN snapshots /\ jj <= mm
            <4>1. i \in 1 .. n
                BY <1>1, <1>3
            <4> QED  BY <1>3, <4>1
        <3>2. snapshots'[j] = snapshots[jj] /\ snapshots'[m] = snapshots[mm]
            BY <1>4
        <3> HIDE DEF jj, mm
        <3> QED  BY <3>1, <3>2 DEF LevelsInv, SnapshotsOK
    <2> QED  BY <1>2, <1>4, <2>1, <2>2 DEF SnapshotsOK
<1>7. comp # <<>> => comp = <<comp[1]>> /\ WorkOK(comp[1])'
    <2> SUFFICES ASSUME comp # <<>>  PROVE comp = <<comp[1]>> /\ WorkOK(comp[1])'
        OBVIOUS
    <2>1. comp = <<comp[1]>> /\ WorkOK(comp[1])
        BY DEF LevelsInv
    <2>2. \A j \in DOMAIN snapshots' : comp[1].smallest <= snapshots'[j]
        BY <1>5, <2>1 DEF WorkOK
    <2> QED  BY <1>1, <1>2, <2>1, <2>2 DEF WorkOK, ManualDue
<1>8. LevelTypeOK' /\ ManualOK' /\ SeekOK'
    BY <1>1 DEF LevelsInv, LevelTypeOK, ManualDue, ManualOK, SeekOK
<1> QED  BY <1>1, <1>2, <1>5, <1>6, <1>7, <1>8 DEF LevelsInv

\* UpdateStats never charges a file of the last level: the file it charges is read
\* before another one, and the last level has one file at most to read.
LEMMA ChargedFile ==
    ASSUME LevelAssumption, HistoryOK, LevelsOK, NEW k, NEW s,
           Len(FilesRead(k, s)) > 1 \/ Len(Candidates(k, s)) > 1
    PROVE  LET c == Candidates(k, s)[1] IN c[1] \in 0 .. Deepest /\ c[2] \in files[c[1]]
<1> DEFINE q == Candidates(k, s)
           hits == {i \in DOMAIN q : Answer(q[i][2].ents, k, s) # {}}
<1>1. PICK n \in Nat : ReadingOrder(q, n, k, s)
    BY CandidatesInOrder
<1>2. FilesRead(k, s) = IF hits = {} THEN q ELSE SubSeq(q, 1, Min(hits))
    BY DEF FilesRead
<1> HIDE DEF q
<1>3. DOMAIN q = 1 .. n /\ Len(q) = n
    BY <1>1 DEF ReadingOrder
<1>4. n > 1
    <2>1. CASE hits = {}
        BY <1>2, <1>3, <2>1 DEF q
    <2>2. CASE hits # {}
        <3>1. hits \in SUBSET (0 .. n)
            BY <1>3
        <3>2. Min(hits) \in hits
            <4> HIDE DEF hits
            <4> QED  BY <1>3, <2>2, <3>1, MinMax
        <3>3. PICK h \in 1 .. n : h = Min(hits)
            BY <1>3, <3>2
        <3>4. Len(SubSeq(q, 1, h)) = h
            BY <1>3, <3>3
        <3>5. FilesRead(k, s) = SubSeq(q, 1, h)
            BY <1>2, <2>2, <3>3
        <3>6. h > 1 \/ n > 1
            BY <1>3, <3>4, <3>5 DEF q
        <3> HIDE DEF hits
        <3> QED  BY <3>6
    <2> QED  BY <2>1, <2>2
<1>5. /\ q[1][1] \in Level /\ q[1][2] \in LevelFiles(q[1][1], k, s)
      /\ q[2][1] \in Level /\ q[2][2] \in LevelFiles(q[2][1], k, s)
      /\ \/ q[1][1] < q[2][1]
         \/ q[1][1] = q[2][1] /\ q[1][2].num > q[2][2].num
    <2>1. 1 \in 1 .. n /\ 2 \in 1 .. n /\ 1 < 2
        BY <1>4
    <2> QED  BY <1>1, <2>1 DEF ReadingOrder
<1>6. \A l \in Level : LevelFiles(l, k, s) \subseteq files[l]
    BY LevelNumbers DEF LevelFiles
<1>7. q[1][2].num \in Nat /\ q[2][2].num \in Nat
    BY <1>5, <1>6 DEF LevelsOK, FilesOK
<1>8. q[1][1] # NumLevels - 1
    <2> SUFFICES ASSUME q[1][1] = NumLevels - 1  PROVE FALSE
        OBVIOUS
    <2>1. q[2][1] = q[1][1] /\ q[1][1] # 0
        BY <1>5, LevelNumbers DEF Level, Deepest
    <2>2. q[1][2] = q[2][2]
        BY <1>5, <2>1, OneFile
    <2> QED  BY <1>5, <1>7, <2>1, <2>2, LevelNumbers DEF Level
<1>9. q[1][1] \in 0 .. Deepest
    BY <1>5, <1>8, LevelNumbers DEF Level, Deepest
<1> QED  BY <1>5, <1>6, <1>9 DEF q

\* What a step that neither writes nor changes the version keeps.
LEMMA SameVersion ==
    ASSUME LevelsInv, mem' = mem, imm' = imm, files' = files, nextFile' = nextFile,
           snapshots' = snapshots, written' = written, spoilt' = spoilt
    PROVE  /\ HistoryOK' /\ LastSequence' = LastSequence /\ LevelsOK' /\ SnapshotsOK'
           /\ (comp' # <<>> /\ comp'[1].isManual => ManualDue') => LevelTypeOK'
           /\ nextFile' \in Nat
<1>1. HistoryOK' /\ LastSequence' = LastSequence /\ LevelsOK'
    BY HistoryKept, LevelsKept DEF LevelsInv
<1>2. SnapshotsOK'
    BY <1>1 DEF LevelsInv, SnapshotsOK
<1>3. (comp' # <<>> /\ comp'[1].isManual => ManualDue') => LevelTypeOK'
    BY DEF LevelsInv, LevelTypeOK
<1> QED  BY <1>1, <1>2, <1>3 DEF LevelsInv

LEMMA ChargeKeepsLevels ==
    ASSUME LevelAssumption, LevelsInv, NEW k, NEW s, ChargeSeek(k, s)
    PROVE  LevelsInv'
<1>1. /\ mem' = mem /\ imm' = imm /\ files' = files /\ nextFile' = nextFile
      /\ snapshots' = snapshots /\ written' = written /\ spoilt' = spoilt
      /\ comp' = comp /\ manual' = manual
      /\ seekFile' = Candidates(k, s)[1]
      /\ Len(FilesRead(k, s)) > 1 \/ Len(Candidates(k, s)) > 1
    BY DEF ChargeSeek
<1>2. /\ HistoryOK' /\ LastSequence' = LastSequence /\ LevelsOK' /\ SnapshotsOK' /\ LevelTypeOK'
      /\ nextFile' \in Nat
    <2>1. comp' # <<>> /\ comp'[1].isManual => ManualDue'
        BY <1>1 DEF LevelsInv, LevelTypeOK, ManualDue
    <2> QED  BY <1>1, <2>1, SameVersion
<1>3. SeekOK'
    <2>1. seekFile'[1] \in 0 .. Deepest /\ seekFile'[2] \in files[seekFile'[1]]
        BY <1>1, ChargedFile DEF LevelsInv
    <2> QED  BY <1>1, <2>1 DEF SeekOK
<1>4. ManualOK'
    BY <1>1 DEF LevelsInv, ManualOK
<1>5. comp # <<>> => comp = <<comp[1]>> /\ WorkOK(comp[1])'
    BY <1>1, <1>2 DEF LevelsInv, WorkOK, ManualDue
<1> QED  BY <1>1, <1>2, <1>3, <1>4, <1>5 DEF LevelsInv

\* The three steps of a manual compaction that only touch the request.
LEMMA ManualKeepsLevels ==
    ASSUME LevelAssumption, LevelsInv,
           \/ SetManual \/ ManualDone
           \/ \E l \in 0 .. NumLevels - 2, lo, hi \in ManualKeys : RequestCompaction(l, lo, hi)
    PROVE  LevelsInv' /\ UNCHANGED <<mem, imm, files, nextFile, seekFile, snapshots, comp, written,
                                     spoilt>>
<1>1. /\ mem' = mem /\ imm' = imm /\ files' = files /\ nextFile' = nextFile
      /\ snapshots' = snapshots /\ written' = written /\ spoilt' = spoilt
      /\ comp' = comp /\ seekFile' = seekFile
    BY DEF SetManual, ManualDone, RequestCompaction
<1>2. ManualOK' /\ (comp # <<>> => (ManualDue => ManualDue'))
    <2>1. CASE SetManual
        <3>1. manual = <<manual[1]>>
              /\ manual[1] \in [level : 0 .. Deepest, begin : Key, end : Key, set : BOOLEAN]
            BY <2>1 DEF LevelsInv, ManualOK, SetManual
        <3>2. manual' = <<[manual[1] EXCEPT !.set = TRUE]>>
            BY <2>1 DEF SetManual
        <3>3. [manual[1] EXCEPT !.set = TRUE]
                  \in [level : 0 .. Deepest, begin : Key, end : Key, set : BOOLEAN]
              /\ [manual[1] EXCEPT !.set = TRUE].set
            BY <3>1
        <3> QED  BY <3>2, <3>3 DEF ManualOK, ManualDue
    <2>2. CASE ManualDone
        BY <2>2 DEF ManualDone, ManualOK
    <2>3. ASSUME NEW l \in 0 .. NumLevels - 2, NEW lo \in ManualKeys, NEW hi \in ManualKeys,
                 RequestCompaction(l, lo, hi)
          PROVE  ManualOK' /\ (ManualDue => ManualDue')
        <3>1. manual' = <<[level |-> l, begin |-> lo, end |-> hi, set |-> TRUE]>> /\ manual = <<>>
            BY <2>3 DEF RequestCompaction
        <3>2. [level |-> l, begin |-> lo, end |-> hi, set |-> TRUE]
                  \in [level : 0 .. Deepest, begin : Key, end : Key, set : BOOLEAN]
            BY DEF LevelAssumption, Key, Deepest
        <3> QED  BY <3>1, <3>2 DEF ManualOK, ManualDue
    <2> QED  BY <2>1, <2>2, <2>3
<1>3. /\ HistoryOK' /\ LastSequence' = LastSequence /\ LevelsOK' /\ SnapshotsOK' /\ LevelTypeOK'
      /\ nextFile' \in Nat
    <2>1. comp' # <<>> /\ comp'[1].isManual => ManualDue'
        BY <1>1, <1>2 DEF LevelsInv, LevelTypeOK
    <2> QED  BY <1>1, <2>1, SameVersion
<1>4. SeekOK'
    BY <1>1 DEF LevelsInv, SeekOK
<1>5. comp # <<>> => comp = <<comp[1]>> /\ WorkOK(comp[1])'
    BY <1>1, <1>2, <1>3 DEF LevelsInv, WorkOK
<1> QED  BY <1>1, <1>2, <1>3, <1>4, <1>5 DEF LevelsInv

\* A compaction that starts reads the snapshots as they are.
LEMMA StartKeepsLevels ==
    ASSUME LevelAssumption, LevelsInv, NEW c, NEW l \in 0 .. Deepest, ChoiceOK(c, l),
           NEW isManual, isManual => ManualDue,
           UNCHANGED <<mem, imm, files, nextFile, seekFile, snapshots, manual, written, spoilt>>,
           comp' = <<Compaction(c, isManual)>>
    PROVE  LevelsInv'
<1>1. /\ mem' = mem /\ imm' = imm /\ files' = files /\ nextFile' = nextFile
      /\ snapshots' = snapshots /\ written' = written /\ spoilt' = spoilt
      /\ manual' = manual /\ seekFile' = seekFile
    OBVIOUS
<1>2. PICK w : w = Compaction(c, isManual)
    OBVIOUS
<1>3. /\ w.c = c /\ w.isManual = isManual
      /\ w.smallest = IF snapshots = <<>> THEN LastSequence ELSE Head(snapshots)
    BY <1>2 DEF Compaction
<1>4. comp' = <<w>> /\ comp' # <<>> /\ comp'[1] = w
    BY <1>2
<1>5. /\ HistoryOK' /\ LastSequence' = LastSequence /\ LevelsOK' /\ SnapshotsOK' /\ LevelTypeOK'
      /\ nextFile' \in Nat
    <2>1. comp' # <<>> /\ comp'[1].isManual => ManualDue'
        BY <1>1, <1>3, <1>4 DEF ManualDue
    <2> QED  BY <1>1, <2>1, SameVersion
<1>6. SeekOK' /\ ManualOK'
    BY <1>1 DEF LevelsInv, SeekOK, ManualOK
<1>7. LastSequence \in Nat
    BY FS_CardinalityType DEF LevelsInv, HistoryOK, LastSequence
<1>8. /\ w.smallest \in Nat /\ w.smallest <= LastSequence
      /\ \A i \in DOMAIN snapshots : w.smallest <= snapshots[i]
    <2>1. snapshots \in Seq(Nat)
        BY DEF LevelsInv, SnapshotsOK
    <2>2. CASE snapshots = <<>>
        BY <1>3, <1>7, <2>2
    <2>3. CASE snapshots # <<>>
        <3>1. w.smallest = snapshots[1] /\ 1 \in DOMAIN snapshots
            BY <1>3, <2>1, <2>3
        <3>2. \A i \in DOMAIN snapshots : 1 <= i /\ snapshots[i] \in Nat
            BY <2>1
        <3> QED  BY <3>1, <3>2 DEF LevelsInv, SnapshotsOK
    <2> QED  BY <2>2, <2>3
<1>9. WorkOK(w)'
    BY <1>1, <1>3, <1>5, <1>8 DEF ChoiceOK, WorkOK, ManualDue
<1> QED  BY <1>1, <1>4, <1>5, <1>6, <1>9 DEF LevelsInv

LEMMA FlawNames ==
    ASSUME NEW fs
    PROVE  Flaws(fs) \subseteq {"overlap", "split"}
BY DEF Flaws

\* What is left to show of a step that installs a version.
LEMMA InstalledVersion ==
    ASSUME LevelAssumption, LevelsInv, NEW fs, Install(fs),
           fs = [m \in Level |-> fs[m]],
           \A m \in Level :
               /\ IsFiniteSet(fs[m])
               /\ \A f \in fs[m] : /\ f \in File /\ f.ents \in SUBSET written /\ f.ents # {}
                                   /\ f.num < nextFile',
           \A m, o \in Level : \A f \in fs[m], g \in fs[o] : f.num = g.num => f = g /\ m = o,
           mem' = mem, imm' \subseteq imm, snapshots' = snapshots, written' = written,
           nextFile' \in Nat, comp' # <<>> /\ comp'[1].isManual => ManualDue'
    PROVE  HistoryOK' /\ LastSequence' = LastSequence /\ LevelsOK' /\ SnapshotsOK' /\ SeekOK' /\ LevelTypeOK'
<1>1. files' = fs /\ seekFile' = <<>> /\ spoilt' \subseteq {"overlap", "split"}
    BY FlawNames DEF Install, LevelsInv, LevelTypeOK
<1>2. HistoryOK' /\ LastSequence' = LastSequence
    BY HistoryKept DEF LevelsInv
<1>3. \A m \in Level : \A f \in fs[m] : f.num \in Nat
    BY DEF File
<1>4. LevelsOK'
    BY <1>1, <1>3 DEF LevelsOK, FilesOK
<1>5. SnapshotsOK' /\ SeekOK'
    BY <1>1, <1>2 DEF LevelsInv, SnapshotsOK, SeekOK
<1>6. LevelTypeOK'
    <2>1. files' \in [Level -> SUBSET File]
        BY <1>1
    <2>2. /\ mem' \subseteq written' /\ imm' \subseteq written' /\ written' \subseteq Entries(Key)
        BY DEF LevelsInv, LevelTypeOK
    <2> QED  BY <1>1, <2>1, <2>2 DEF LevelTypeOK
<1> QED  BY <1>2, <1>4, <1>5, <1>6

\* The files of the current version.
LEMMA CurrentFiles ==
    ASSUME LevelsInv
    PROVE  /\ files = [m \in Level |-> files[m]]
           /\ \A m \in Level :
                  /\ IsFiniteSet(files[m])
                  /\ \A f \in files[m] : /\ f \in File /\ f.ents \in SUBSET written /\ f.ents # {}
                                         /\ f.num < nextFile /\ f.num \in Nat
           /\ \A m, o \in Level : \A f \in files[m], g \in files[o] : f.num = g.num => f = g /\ m = o
           /\ nextFile \in Nat
<1>1. files \in [Level -> SUBSET File]
    BY DEF LevelsInv, LevelTypeOK
<1>2. \A m \in Level : \A f \in files[m] : f \in File /\ f.num \in Nat
    BY <1>1 DEF File
<1>3. \A m \in Level : \A f \in files[m] : f.num < nextFile
    BY DEF LevelsInv, LevelTypeOK
<1>4. \A m, o \in Level : \A f \in files[m], g \in files[o] : f.num = g.num => f = g /\ m = o
    BY DEF LevelsInv, LevelTypeOK
<1> QED  BY <1>1, <1>2, <1>3, <1>4 DEF LevelsInv, LevelsOK, FilesOK

\* A trivial move takes a file to the level below.
LEMMA MoveKeepsLevels ==
    ASSUME LevelAssumption, LevelsInv, NEW c, NEW l \in 0 .. Deepest, ChoiceOK(c, l),
           Install([files EXCEPT ![c.level] = @ \ c.in0, ![c.level + 1] = @ \cup c.in0]),
           comp = <<>>, UNCHANGED <<mem, imm, nextFile, snapshots, comp, manual, written>>
    PROVE  LevelsInv'
<1>1. /\ mem' = mem /\ imm' = imm /\ nextFile' = nextFile /\ snapshots' = snapshots
      /\ written' = written /\ manual' = manual /\ comp' = <<>> /\ comp' = comp
    OBVIOUS
<1>2. /\ c.level = l /\ c.in0 \subseteq files[l] /\ l \in Level /\ l + 1 \in Level /\ l # l + 1
    BY LevelNumbers DEF ChoiceOK, Level, Deepest
<1>3. PICK fs : fs = [files EXCEPT ![c.level] = @ \ c.in0, ![c.level + 1] = @ \cup c.in0]
    OBVIOUS
<1>4. /\ fs = [m \in Level |-> fs[m]] /\ fs[l] = files[l] \ c.in0 /\ fs[l + 1] = files[l + 1] \cup c.in0
      /\ \A m \in Level : m # l /\ m # l + 1 => fs[m] = files[m]
    BY <1>2, <1>3, CurrentFiles
<1>5. ASSUME NEW m \in Level
      PROVE  /\ IsFiniteSet(fs[m])
             /\ \A f \in fs[m] : /\ f \in File /\ f.ents \in SUBSET written /\ f.ents # {}
                                 /\ f.num < nextFile' /\ f.num \in Nat
    <2>1. IsFiniteSet(files[l] \ c.in0) /\ IsFiniteSet(files[l + 1] \cup c.in0)
        <3>1. IsFiniteSet(files[l]) /\ IsFiniteSet(files[l + 1])
            BY <1>2, CurrentFiles
        <3>2. IsFiniteSet(files[l] \ c.in0) /\ IsFiniteSet(c.in0)
            BY <1>2, <3>1, FS_Subset
        <3> QED  BY <3>1, <3>2, FS_Union
    <2>2. IsFiniteSet(fs[m])
        BY <1>4, <2>1, CurrentFiles
    <2>3. ASSUME NEW f \in fs[m]
          PROVE  /\ f \in File /\ f.ents \in SUBSET written /\ f.ents # {}
                 /\ f.num < nextFile /\ f.num \in Nat
        <3>1. f \in files[m] \/ f \in files[l]
            BY <1>2, <1>4
        <3> QED  BY <1>2, <3>1, CurrentFiles
    <2> QED  BY <1>1, <2>2, <2>3
<1>6. ASSUME NEW m \in Level, NEW o \in Level, NEW f \in fs[m], NEW g \in fs[o], f.num = g.num
      PROVE  f = g /\ m = o
    <2>1. /\ f \in files[m] \/ (f \in files[l] /\ m = l + 1 /\ f \in c.in0)
          /\ g \in files[o] \/ (g \in files[l] /\ o = l + 1 /\ g \in c.in0)
        BY <1>2, <1>4
    <2>2. f = g
        BY <1>2, <1>6, <2>1, CurrentFiles
    <2>3. CASE f \in c.in0
        <3>1. m = l + 1 /\ o = l + 1
            BY <1>2, <1>4, <2>1, <2>2, <2>3, CurrentFiles
        <3> QED  BY <2>2, <3>1
    <2>4. CASE f \notin c.in0
        BY <1>6, <2>1, <2>2, <2>4, CurrentFiles
    <2> QED  BY <2>3, <2>4
<1>7. HistoryOK' /\ LastSequence' = LastSequence /\ LevelsOK' /\ SnapshotsOK' /\ SeekOK' /\ LevelTypeOK'
    <2>1. Install(fs)
        BY <1>3
    <2>2. nextFile' \in Nat
        BY <1>1, CurrentFiles
    <2> QED  BY <1>1, <1>4, <1>5, <1>6, <2>1, <2>2, InstalledVersion
<1>8. ManualOK'
    BY <1>1 DEF LevelsInv, ManualOK
<1> QED  BY <1>1, <1>7, <1>8, CurrentFiles DEF LevelsInv

\* A memtable becomes a file of the level picked for it; the inputs of a compaction
\* under way stay where they are.
LEMMA FlushKeepsLevels ==
    ASSUME LevelAssumption, LevelsInv, CompactMemTable
    PROVE  LevelsInv'
<1>1. /\ mem' = mem /\ imm' = {} /\ nextFile' = nextFile + 1 /\ snapshots' = snapshots
      /\ written' = written /\ manual' = manual /\ comp' = comp /\ imm # {}
    BY DEF CompactMemTable
<1>2. PICK f : f = [num |-> nextFile, ents |-> imm]
    OBVIOUS
<1>3. PICK l \in Level : l = PickLevel(Lo(f), Hi(f))
    BY PickedLevel
<1>4. PICK fs : fs = [files EXCEPT ![l] = @ \cup {f}]
    OBVIOUS
<1>5. Install(fs)
    BY <1>2, <1>3, <1>4 DEF CompactMemTable
<1>6. /\ fs = [m \in Level |-> fs[m]] /\ fs[l] = files[l] \cup {f}
      /\ \A m \in Level : m # l => fs[m] = files[m]
    BY <1>4, CurrentFiles
<1>7. f \in File /\ f.ents \in SUBSET written /\ f.ents # {} /\ f.num = nextFile /\ f.num < nextFile + 1
    <2>1. imm \in SUBSET Entries(Key) /\ imm \in SUBSET written /\ nextFile \in Nat
        BY DEF LevelsInv, LevelTypeOK
    <2> QED  BY <1>1, <1>2, <2>1 DEF File
<1>8. ASSUME NEW m \in Level
      PROVE  /\ IsFiniteSet(fs[m])
             /\ \A g \in fs[m] : /\ g \in File /\ g.ents \in SUBSET written /\ g.ents # {}
                                 /\ g.num < nextFile'
    <2>1. \A g \in files[m] : g.num < nextFile + 1
        BY CurrentFiles
    <2>2. CASE m = l
        <3>1. IsFiniteSet(files[m] \cup {f})
            BY CurrentFiles, FS_AddElement
        <3> QED  BY <1>1, <1>6, <1>7, <2>1, <2>2, <3>1, CurrentFiles
    <2>3. CASE m # l
        BY <1>1, <1>6, <2>1, <2>3, CurrentFiles
    <2> QED  BY <2>2, <2>3
<1>9. ASSUME NEW m \in Level, NEW o \in Level, NEW g \in fs[m], NEW h \in fs[o], g.num = h.num
      PROVE  g = h /\ m = o
    <2>1. \A p \in Level : \A x \in files[p] : x.num # nextFile
        BY CurrentFiles
    <2>2. g \in files[m] \/ (g = f /\ m = l)
        BY <1>6
    <2>3. h \in files[o] \/ (h = f /\ o = l)
        BY <1>6
    <2> QED  BY <1>7, <1>9, <2>1, <2>2, <2>3, CurrentFiles
<1>10. HistoryOK' /\ LastSequence' = LastSequence /\ LevelsOK' /\ SnapshotsOK' /\ SeekOK' /\ LevelTypeOK'
    <2>1. nextFile' \in Nat
        BY <1>1, CurrentFiles
    <2>2. comp' # <<>> /\ comp'[1].isManual => ManualDue'
        BY <1>1 DEF LevelsInv, LevelTypeOK, ManualDue
    <2> QED  BY <1>1, <1>5, <1>6, <1>8, <1>9, <2>1, <2>2, InstalledVersion
<1>11. ManualOK' /\ nextFile' \in Nat
    BY <1>1, CurrentFiles DEF LevelsInv, ManualOK
<1>12. comp # <<>> => comp = <<comp[1]>> /\ WorkOK(comp[1])'
    <2> SUFFICES ASSUME comp # <<>>  PROVE comp = <<comp[1]>> /\ WorkOK(comp[1])'
        OBVIOUS
    <2>1. comp = <<comp[1]>> /\ WorkOK(comp[1])
        BY DEF LevelsInv
    <2>2. \A m \in Level : files[m] \subseteq files'[m]
        BY <1>5, <1>6 DEF Install
    <2>3. comp[1].c.level \in Level /\ comp[1].c.level + 1 \in Level
        BY <2>1, LevelNumbers DEF WorkOK, Level, Deepest
    <2> QED  BY <1>1, <1>10, <2>1, <2>2, <2>3 DEF WorkOK, ManualDue
<1> QED  BY <1>1, <1>10, <1>11, <1>12 DEF LevelsInv

-----------------------------------------------------------------------------
(* The outputs of a compaction.                                            *)

LEMMA LastOf ==
    ASSUME NEW m \in Nat \ {0}, NEW s \in SUBSET (1 .. m), m \in s
    PROVE  Max(s) = m
<1>1. s \in SUBSET (0 .. m) /\ s # {}
    OBVIOUS
<1>2. Max(s) \in s /\ Max(s) >= m
    BY <1>1, MinMax
<1>3. Max(s) \in 1 .. m
    BY <1>2
<1> QED  BY <1>2, <1>3

\* The loop of DoCompactionWork, entry by entry.
Loop(w, kept, base, seq) == FoldLeft(LAMBDA out, e : Step(w, kept, out, e), base, seq)

LoopRun(g, w, kept, base, n, seq) ==
    /\ g[0] = base
    /\ \A i \in 1 .. n : g[i] = Step(w, kept, g[i - 1], seq[i])
    /\ Loop(w, kept, base, seq) = g[n]

LEMMA OutputFold ==
    ASSUME NEW w, NEW kept, NEW base, NEW n \in Nat, NEW seq, DOMAIN seq = 1 .. n
    PROVE  \E g : LoopRun(g, w, kept, base, n, seq)
<1> DEFINE Value(f, s) == IF s = {} THEN base ELSE Step(w, kept, f[s \ {Max(s)}], seq[Max(s)])
           Folds(f, D) == f = [s \in SUBSET D |-> Value(f, s)]
           some == {m \in 0 .. n : \E f : Folds(f, 1 .. m)}
<1>1. 0 \in some
    <2> DEFINE f == [s \in SUBSET (1 .. 0) |-> base]
    <2>1. \A s \in SUBSET (1 .. 0) : Value(f, s) = base
        OBVIOUS
    <2>2. Folds(f, 1 .. 0)
        <3> HIDE DEF Value
        <3> QED  BY <2>1
    <2> HIDE DEF f, Folds
    <2> QED  BY <2>2
<1>2. ASSUME NEW m \in 1 .. n, m - 1 \in some  PROVE m \in some
    <2>1. PICK f : Folds(f, 1 .. (m - 1))
        BY <1>2
    <2> DEFINE h == [s \in SUBSET (1 .. m) |-> IF m \in s THEN Step(w, kept, f[s \ {m}], seq[m]) ELSE f[s]]
    <2>2. ASSUME NEW s \in SUBSET (1 .. m)  PROVE h[s] = Value(h, s)
        <3>1. CASE m \in s
            <4>1. Max(s) = m /\ m \notin s \ {m} /\ s \ {m} \in SUBSET (1 .. m) /\ s # {}
                BY <3>1, LastOf
            <4>2. h[s \ {m}] = f[s \ {m}]
                BY <4>1
            <4> QED  BY <3>1, <4>1, <4>2
        <3>2. CASE m \notin s
            <4>1. s \in SUBSET (1 .. (m - 1))
                BY <3>2
            <4>2. h[s] = f[s] /\ f[s] = Value(f, s)
                BY <2>1, <3>2, <4>1
            <4>3. s # {} => h[s \ {Max(s)}] = f[s \ {Max(s)}]
                <5> s \ {Max(s)} \in SUBSET (1 .. m) /\ m \notin s \ {Max(s)}
                    BY <3>2
                <5> QED  OBVIOUS
            <4> HIDE DEF h
            <4> QED  BY <4>2, <4>3
        <3> QED  BY <3>1, <3>2
    <2>3. Folds(h, 1 .. m)
        <3> DEFINE V(s) == Value(h, s)
        <3>1. \A s \in SUBSET (1 .. m) : h[s] = V(s)
            BY <2>2
        <3>2. h = [s \in SUBSET (1 .. m) |-> h[s]]
            OBVIOUS
        <3> HIDE DEF V, h
        <3>3. h = [s \in SUBSET (1 .. m) |-> V(s)]
            BY <3>1, <3>2
        <3> QED  BY <3>3 DEF V
    <2> HIDE DEF h, Folds
    <2> QED  BY <2>3
<1>3. \E f : Folds(f, 1 .. n)
    <2>1. n \in some
        <3> HIDE DEF some
        <3> QED  BY <1>1, <1>2, Climb
    <2> HIDE DEF Folds
    <2> QED  BY <2>1
<1> DEFINE f == CHOOSE f : Folds(f, 1 .. n)
<1>4. f = [s \in SUBSET (1 .. n) |-> Value(f, s)]
    <2>1. Folds(f, 1 .. n)
        <3> HIDE DEF Folds
        <3> QED  BY <1>3
    <2> QED  BY <2>1
<1>5. Loop(w, kept, base, seq) = f[1 .. n]
    BY DEF Loop, FoldLeft, MapThenFoldSet
<1> DEFINE g == [i \in 0 .. n |-> f[1 .. i]]
<1>6. ASSUME NEW i \in 0 .. n  PROVE f[1 .. i] = Value(f, 1 .. i)
    <2>1. 1 .. i \in SUBSET (1 .. n)
        OBVIOUS
    <2> HIDE DEF f, Value
    <2> QED  BY <1>4, <2>1
<1> HIDE DEF f
<1>7. g[0] = base
    <2>1. 0 \in 0 .. n /\ 1 .. 0 = {}
        OBVIOUS
    <2> QED  BY <1>6, <2>1
<1>8. ASSUME NEW i \in 1 .. n  PROVE g[i] = Step(w, kept, g[i - 1], seq[i])
    <2>1. Max(1 .. i) = i /\ (1 .. i) \ {i} = 1 .. (i - 1) /\ 1 .. i # {} /\ i \in 0 .. n /\ i - 1 \in 0 .. n
        <3>1. i \in Nat \ {0} /\ 1 .. i \in SUBSET (1 .. i) /\ i \in 1 .. i
            OBVIOUS
        <3>2. Max(1 .. i) = i
            BY <3>1, LastOf
        <3>3. (1 .. i) \ {i} = 1 .. (i - 1)
            <4>1. \A j \in Int : j \in 1 .. i /\ j # i <=> j \in 1 .. (i - 1)
                OBVIOUS
            <4>2. \A j : j \in 1 .. i => j \in Int
                OBVIOUS
            <4>3. \A j : j \in 1 .. (i - 1) => j \in Int
                OBVIOUS
            <4> QED  BY <4>1, <4>2, <4>3
        <3>4. i \in 0 .. n /\ i - 1 \in 0 .. n
            OBVIOUS
        <3> QED  BY <3>1, <3>2, <3>3, <3>4
    <2> QED  BY <1>6, <2>1
<1>9. g[n] = f[1 .. n]
    OBVIOUS
<1> HIDE DEF g
<1> QED  BY <1>5, <1>7, <1>8, <1>9 DEF LoopRun

\* The files d that are closed and the one under way, c, hold the entries A.
Filled(d, c, A) ==
    /\ d \in Seq(SUBSET written) /\ c \subseteq A
    /\ \A i \in DOMAIN d : d[i] # {} /\ d[i] \subseteq A
    /\ \A e \in A : e \in c \/ \E i \in DOMAIN d : e \in d[i]

LEMMA Closed ==
    ASSUME NEW A \in SUBSET written, NEW d, NEW c, Filled(d, c, A), c # {}
    PROVE  Filled(Append(d, c), {}, A)
<1>1. d \in Seq(SUBSET written) /\ c \in SUBSET written /\ c \subseteq A
    BY DEF Filled
<1>2. PICK n \in Nat : n = Len(d) /\ DOMAIN d = 1 .. n
    BY <1>1, LenProperties
<1>3. PICK q : q = Append(d, c)
    OBVIOUS
<1>4. /\ q \in Seq(SUBSET written) /\ DOMAIN q = 1 .. n + 1 /\ q[n + 1] = c
      /\ \A i \in 1 .. n : q[i] = d[i]
    BY <1>1, <1>2, <1>3, AppendProperties, LenProperties
<1>5. ASSUME NEW i \in DOMAIN q  PROVE q[i] # {} /\ q[i] \subseteq A
    <2>1. CASE i = n + 1
        BY <1>1, <1>4, <2>1
    <2>2. CASE i # n + 1
        <3>1. i \in 1 .. n
            BY <1>2, <1>4, <2>2
        <3> QED  BY <1>2, <1>4, <3>1 DEF Filled
    <2> QED  BY <2>1, <2>2
<1>6. ASSUME NEW e \in A  PROVE \E i \in DOMAIN q : e \in q[i]
    <2>1. CASE e \in c
        BY <1>4, <2>1
    <2>2. CASE e \notin c
        <3>1. PICK i \in 1 .. n : e \in d[i]
            BY <1>2, <2>2 DEF Filled
        <3> QED  BY <1>4, <3>1
    <2> QED  BY <2>1, <2>2
<1> QED  BY <1>3, <1>4, <1>5, <1>6 DEF Filled

LEMMA Taken ==
    ASSUME NEW A \in SUBSET written, NEW e \in written, NEW d, NEW c, Filled(d, c, A)
    PROVE  Filled(d, c \cup {e}, A \cup {e})
<1>1. \A i \in DOMAIN d : d[i] # {} /\ d[i] \subseteq A \cup {e}
    BY DEF Filled
<1>2. \A f \in A \cup {e} : f \in c \cup {e} \/ \E i \in DOMAIN d : f \in d[i]
    BY DEF Filled
<1> QED  BY <1>1, <1>2 DEF Filled

Gathered(out, A) ==
    \E d, c, p, s, v : /\ out = [done |-> d, cur |-> c, passed |-> p, seen |-> s, overlapped |-> v]
                       /\ Filled(d, c, A)

LEMMA StopGathers ==
    ASSUME NEW w, NEW out, NEW e, NEW A \in SUBSET written, Gathered(out, A)
    PROVE  Gathered(ShouldStopBefore(w, out, e), A)
<1>1. PICK d, c, p, s, v :
          /\ out = [done |-> d, cur |-> c, passed |-> p, seen |-> s, overlapped |-> v]
          /\ Filled(d, c, A)
    BY DEF Gathered
<1>2. \E passed, overlap, stop :
          ShouldStopBefore(w, out, e) =
              [out EXCEPT !.passed = passed, !.seen = TRUE,
                          !.overlapped = IF stop = TRUE THEN 0 ELSE overlap,
                          !.done = IF stop = TRUE /\ out.cur # {} THEN Append(@, out.cur) ELSE @,
                          !.cur  = IF stop = TRUE THEN {} ELSE @]
    <2> DEFINE g == InOrder(w.c.grandparents)
               passed == {i \in DOMAIN g : Before(Final(g[i].ents), e)}
               counted == IF out.seen THEN Contents({g[i] : i \in passed \ out.passed}) ELSE {}
               overlap == out.overlapped + Cardinality(counted)
               stop == overlap > MaxGrandParentOverlap
    <2>1. ShouldStopBefore(w, out, e) =
              [out EXCEPT !.passed = passed, !.seen = TRUE,
                          !.overlapped = IF stop THEN 0 ELSE overlap,
                          !.done = IF stop /\ out.cur # {} THEN Append(@, out.cur) ELSE @,
                          !.cur  = IF stop THEN {} ELSE @]
        BY DEF ShouldStopBefore
    <2>2. stop \in BOOLEAN
        OBVIOUS
    <2> HIDE DEF passed, overlap, stop
    <2> QED  BY <2>1, <2>2
<1>3. PICK passed, overlap, stop :
          ShouldStopBefore(w, out, e) =
              [out EXCEPT !.passed = passed, !.seen = TRUE,
                          !.overlapped = IF stop = TRUE THEN 0 ELSE overlap,
                          !.done = IF stop = TRUE /\ out.cur # {} THEN Append(@, out.cur) ELSE @,
                          !.cur  = IF stop = TRUE THEN {} ELSE @]
    BY <1>2
<1>4. CASE stop = TRUE /\ c # {}
    <2>1. ShouldStopBefore(w, out, e) =
              [done |-> Append(d, c), cur |-> {}, passed |-> passed, seen |-> TRUE, overlapped |-> 0]
        BY <1>1, <1>3, <1>4
    <2>2. Filled(Append(d, c), {}, A)
        BY <1>1, <1>4, Closed
    <2> QED  BY <2>1, <2>2 DEF Gathered
<1>5. CASE stop = TRUE /\ c = {}
    <2>1. ShouldStopBefore(w, out, e) =
              [done |-> d, cur |-> {}, passed |-> passed, seen |-> TRUE, overlapped |-> 0]
        BY <1>1, <1>3, <1>5
    <2> QED  BY <1>1, <1>5, <2>1 DEF Gathered
<1>6. CASE stop # TRUE
    <2>1. ShouldStopBefore(w, out, e) =
              [done |-> d, cur |-> c, passed |-> passed, seen |-> TRUE, overlapped |-> overlap]
        BY <1>1, <1>3, <1>6
    <2> QED  BY <1>1, <2>1 DEF Gathered
<1> QED  BY <1>4, <1>5, <1>6

LEMMA StepGathers ==
    ASSUME NEW w, NEW kept, NEW out, NEW e \in written, NEW A \in SUBSET written, Gathered(out, A)
    PROVE  Gathered(Step(w, kept, out, e), IF e \in kept THEN A \cup {e} ELSE A)
<1>1. PICK p : p = ShouldStopBefore(w, out, e)
    OBVIOUS
<1>2. Gathered(p, A)
    BY <1>1, StopGathers
<1>3. CASE e \notin kept
    BY <1>1, <1>2, <1>3 DEF Step
<1>4. CASE e \in kept
    <2>1. Step(w, kept, out, e) = AddEntry(p, e)
        BY <1>1, <1>4 DEF Step
    <2>2. PICK d, c, q, s, v :
              /\ p = [done |-> d, cur |-> c, passed |-> q, seen |-> s, overlapped |-> v]
              /\ Filled(d, c, A)
        BY <1>2 DEF Gathered
    <2>3. Filled(d, c \cup {e}, A \cup {e})
        BY <2>2, Taken
    <2>4. CASE Cardinality(p.cur) + 1 < MaxFileEntries
        <3>1. AddEntry(p, e) = [done |-> d, cur |-> c \cup {e}, passed |-> q, seen |-> s, overlapped |-> v]
            BY <2>2, <2>4 DEF AddEntry
        <3> QED  BY <1>4, <2>1, <2>3, <3>1 DEF Gathered
    <2>5. CASE ~(Cardinality(p.cur) + 1 < MaxFileEntries)
        <3>1. AddEntry(p, e) = [done |-> Append(d, c \cup {e}), cur |-> {}, passed |-> q, seen |-> s,
                                overlapped |-> v]
            BY <2>2, <2>5 DEF AddEntry
        <3>2. Filled(Append(d, c \cup {e}), {}, A \cup {e})
            BY <2>3, Closed
        <3> QED  BY <1>4, <2>1, <3>1, <3>2 DEF Gathered
    <2> QED  BY <2>4, <2>5
<1> QED  BY <1>3, <1>4

\* A compaction writes what it keeps, and nothing else, to files that are not empty.
LEMMA OutputsHold ==
    ASSUME LevelAssumption, HistoryOK, NEW w, Input(w) \in SUBSET written
    PROVE  /\ Outputs(w) \in Seq(SUBSET written)
           /\ \A i \in DOMAIN Outputs(w) : Outputs(w)[i] # {} /\ Outputs(w)[i] \subseteq KeptOf(w)
           /\ \A e \in KeptOf(w) : \E i \in DOMAIN Outputs(w) : e \in Outputs(w)[i]
<1> DEFINE n == Cardinality(Input(w))
           seq == Sorted(Input(w), Before)
           kept == KeptOf(w)
           done(i) == {e \in kept : \E j \in 1 .. i : seq[j] = e}
<1>1. /\ n \in Nat /\ DOMAIN seq = 1 .. n
      /\ \A i \in 1 .. n : seq[i] \in Input(w)
      /\ \A e \in Input(w) : \E i \in 1 .. n : seq[i] = e
    BY EntriesInOrder
<1>2. kept \in SUBSET Input(w)
    BY DEF KeptOf, Kept
<1>3. PICK end : /\ end = Loop(w, kept, NoOutput, seq)
                 /\ Outputs(w) = IF end.cur = {} THEN end.done ELSE Append(end.done, end.cur)
    BY DEF Outputs, Loop
<1> HIDE DEF n, seq, kept
<1>4. PICK g : /\ g[0] = NoOutput
               /\ \A i \in 1 .. n : g[i] = Step(w, kept, g[i - 1], seq[i])
               /\ Loop(w, kept, NoOutput, seq) = g[n]
    <2>1. \E g : LoopRun(g, w, kept, NoOutput, n, seq)
        BY <1>1, OutputFold
    <2> QED  BY <2>1 DEF LoopRun
<1>5. \A i : done(i) \in SUBSET written
    BY <1>2
<1> DEFINE S == {i \in 0 .. n : Gathered(g[i], done(i))}
<1>6. 0 \in S
    <2>1. <<>> \in Seq(SUBSET written) /\ DOMAIN <<>> = {}
        OBVIOUS
    <2>2. done(0) = {}
        OBVIOUS
    <2>3. Filled(<<>>, {}, {})
        BY <2>1 DEF Filled
    <2>4. Gathered(g[0], {})
        BY <1>4, <2>3 DEF NoOutput, Gathered
    <2>5. 0 \in 0 .. n
        BY <1>1
    <2> QED  BY <2>2, <2>4, <2>5
<1>7. ASSUME NEW i \in 1 .. n, i - 1 \in S  PROVE i \in S
    <2>1. Gathered(g[i - 1], done(i - 1))
        BY <1>7
    <2>2. PICK e \in Input(w) : e = seq[i]
        BY <1>1
    <2>3. Gathered(Step(w, kept, g[i - 1], e), IF e \in kept THEN done(i - 1) \cup {e} ELSE done(i - 1))
        <3> HIDE DEF done
        <3> QED  BY <1>5, <2>1, <2>2, StepGathers
    <2>4. done(i) = IF e \in kept THEN done(i - 1) \cup {e} ELSE done(i - 1)
        <3>1. \A j : j \in 1 .. i <=> j \in 1 .. (i - 1) \/ j = i
            BY <1>1
        <3> QED  BY <2>2, <3>1
    <2>5. g[i] = Step(w, kept, g[i - 1], e)
        BY <1>4, <2>2
    <2>6. i \in 0 .. n
        BY <1>1
    <2> HIDE DEF done
    <2> QED  BY <2>3, <2>4, <2>5, <2>6
<1>8. n \in S
    <2> HIDE DEF S
    <2>1. \A i \in 0 .. n : i \in S
        BY <1>1, <1>6, <1>7, Climb
    <2> QED  BY <1>1, <2>1
<1>9. done(n) = kept
    BY <1>1, <1>2
<1>10. Gathered(end, kept)
    BY <1>3, <1>4, <1>8, <1>9
<1>11. PICK d, c, p, s, v :
          /\ end = [done |-> d, cur |-> c, passed |-> p, seen |-> s, overlapped |-> v]
          /\ Filled(d, c, kept)
    BY <1>10 DEF Gathered
<1>12. end.done = d /\ end.cur = c
    BY <1>11
<1>13. PICK o : o = Outputs(w) /\ Filled(o, {}, kept)
    <2>1. CASE c = {}
        BY <1>3, <1>11, <1>12, <2>1
    <2>2. CASE c # {}
        <3>1. Outputs(w) = Append(d, c)
            BY <1>3, <1>12, <2>2
        <3>2. Filled(Append(d, c), {}, kept)
            BY <1>2, <1>11, <2>2, Closed
        <3> QED  BY <3>1, <3>2
    <2> QED  BY <2>1, <2>2
<1>14. /\ o \in Seq(SUBSET written)
       /\ \A i \in DOMAIN o : o[i] # {} /\ o[i] \subseteq kept
       /\ \A e \in kept : \E i \in DOMAIN o : e \in o[i]
    BY <1>13 DEF Filled
<1> QED  BY <1>13, <1>14 DEF kept

\* The files a compaction adds to the version.
NewFiles(out) == {[num |-> nextFile + i - 1, ents |-> out[i]] : i \in DOMAIN out}

LEMMA NewFilesHold ==
    ASSUME LevelAssumption, LevelsInv, NEW w, Input(w) \in SUBSET written,
           NEW out, out = Outputs(w)
    PROVE  /\ IsFiniteSet(NewFiles(out)) /\ Len(out) \in Nat
           /\ \A f \in NewFiles(out) :
                  /\ f \in File /\ f.ents \in SUBSET written /\ f.ents # {} /\ f.num \in Nat
                  /\ f.num >= nextFile /\ f.num < nextFile + Len(out)
                  /\ f.ents \subseteq KeptOf(w)
           /\ \A f, g \in NewFiles(out) : f.num = g.num => f = g
           /\ \A e : e \in KeptOf(w) <=> \E f \in NewFiles(out) : e \in f.ents
<1>1. /\ out \in Seq(SUBSET written)
      /\ \A i \in DOMAIN out : out[i] # {} /\ out[i] \subseteq KeptOf(w)
      /\ \A e \in KeptOf(w) : \E i \in DOMAIN out : e \in out[i]
    BY OutputsHold DEF LevelsInv
<1>2. PICK n \in Nat : n = Len(out) /\ DOMAIN out = 1 .. n
    BY <1>1, LenProperties
<1>3. nextFile \in Nat /\ written \subseteq Entries(Key)
    BY DEF LevelsInv, LevelTypeOK
<1> DEFINE file == [i \in 1 .. n |-> [num |-> nextFile + i - 1, ents |-> out[i]]]
<1>4. \A f : f \in NewFiles(out) <=> \E i \in 1 .. n : f = file[i]
    BY <1>2 DEF NewFiles
<1>5. ASSUME NEW i \in 1 .. n
      PROVE  /\ file[i] = [num |-> nextFile + i - 1, ents |-> out[i]]
             /\ file[i].num = nextFile + i - 1 /\ file[i].ents = out[i]
             /\ file[i] \in File /\ out[i] \in SUBSET written
    <2>1. out[i] \in SUBSET written
        BY <1>1, <1>2
    <2>2. out[i] \in SUBSET Entries(Key) /\ nextFile + i - 1 \in Nat
        BY <1>3, <2>1
    <2> QED  BY <2>1, <2>2 DEF File
<1>6. IsFiniteSet(NewFiles(out))
    <2>1. file \in Surjection(1 .. n, NewFiles(out))
        <3> HIDE DEF file
        <3>1. file = [i \in 1 .. n |-> file[i]]
            BY DEF file
        <3>2. \A i \in 1 .. n : file[i] \in NewFiles(out)
            BY <1>4
        <3>3. \A f \in NewFiles(out) : \E i \in 1 .. n : file[i] = f
            BY <1>4
        <3> QED  BY <3>1, <3>2, <3>3 DEF Surjection
    <2>2. IsFiniteSet(1 .. n)
        <3> 1 \in Int /\ n \in Int
            OBVIOUS
        <3> QED  BY FS_Interval
    <2> HIDE DEF file
    <2> QED  BY <2>1, <2>2, FS_Surjection
<1> HIDE DEF file
<1>7. ASSUME NEW f \in NewFiles(out)
      PROVE  /\ f \in File /\ f.ents \in SUBSET written /\ f.ents # {} /\ f.num \in Nat
             /\ f.num >= nextFile /\ f.num < nextFile + Len(out)
             /\ f.ents \subseteq KeptOf(w)
    <2>1. PICK i \in 1 .. n : f = file[i]
        BY <1>4
    <2>2. f.num = nextFile + i - 1 /\ f.ents = out[i] /\ f \in File /\ out[i] \in SUBSET written
        BY <1>5, <2>1
    <2>3. out[i] # {} /\ out[i] \subseteq KeptOf(w)
        BY <1>1, <1>2
    <2> QED  BY <1>2, <1>3, <2>2, <2>3
<1>8. ASSUME NEW f \in NewFiles(out), NEW g \in NewFiles(out), f.num = g.num
      PROVE  f = g
    <2>1. PICK i \in 1 .. n : f = file[i]
        BY <1>4
    <2>2. PICK j \in 1 .. n : g = file[j]
        BY <1>4
    <2>3. nextFile + i - 1 = nextFile + j - 1
        BY <1>5, <1>8, <2>1, <2>2
    <2>4. i = j
        BY <1>3, <2>3
    <2> QED  BY <2>1, <2>2, <2>4
<1>9. ASSUME NEW e \in KeptOf(w)
      PROVE  \E f \in NewFiles(out) : e \in f.ents
    <2>1. PICK i \in 1 .. n : e \in out[i]
        BY <1>1, <1>2
    <2> QED  BY <1>4, <1>5, <2>1
<1> QED  BY <1>2, <1>6, <1>7, <1>8, <1>9

\* What a step of FinishCompaction does, in the words of the proofs: the work w at
\* level l leaves the files out.
Finishes(w, l, out) ==
    /\ comp = <<w>> /\ WorkOK(w) /\ w.c.level = l /\ out = Outputs(w)
    /\ Input(w) \in SUBSET written
    /\ l \in Level /\ l + 1 \in Level /\ l # l + 1
    /\ Install([files EXCEPT ![l] = @ \ w.c.in0,
                             ![l + 1] = (@ \ w.c.in1) \cup NewFiles(out)])
    /\ nextFile' = nextFile + Len(out)
    /\ manual' = IF ~w.isManual THEN manual
                 ELSE <<[manual[1] EXCEPT !.set = FALSE,
                                          !.begin = Hi(Last(InOrder(w.c.in0)))]>>
    /\ comp' = <<>>
    /\ mem' = mem /\ imm' = imm /\ snapshots' = snapshots /\ written' = written

LEMMA FinishSteps ==
    ASSUME LevelAssumption, LevelsInv, FinishCompaction
    PROVE  \E w, out : \E l \in 0 .. Deepest : Finishes(w, l, out)
<1>1. comp # <<>> /\ comp = <<comp[1]>> /\ WorkOK(comp[1])
    BY DEF FinishCompaction, LevelsInv
<1>2. PICK w : w = comp[1]
    OBVIOUS
<1>3. Range(comp) = {w} /\ comp = <<w>> /\ WorkOK(w)
    <2>1. comp = <<w>> /\ WorkOK(w)
        BY <1>1, <1>2
    <2>2. DOMAIN <<w>> = {1} /\ <<w>>[1] = w
        OBVIOUS
    <2> QED  BY <2>1, <2>2 DEF Range
<1>4. PICK l \in 0 .. Deepest : w.c.level = l
    BY <1>3 DEF WorkOK
<1>5. l \in Level /\ l + 1 \in Level /\ l # l + 1
    BY LevelNumbers DEF Level, Deepest
<1>6. Input(w) \in SUBSET written
    <2>1. \A f \in w.c.in0 \cup w.c.in1 : f.ents \in SUBSET written
        BY <1>3, <1>4, <1>5, CurrentFiles DEF WorkOK
    <2> QED  BY <2>1 DEF Input, Contents
<1>7. PICK out : out = Outputs(w)
    OBVIOUS
<1>8. \E v \in Range(comp), o \in {Outputs(comp[1])} :
         /\ Install([files EXCEPT ![v.c.level] = @ \ v.c.in0,
                                  ![v.c.level + 1] = (@ \ v.c.in1) \cup NewFiles(o)])
         /\ nextFile' = nextFile + Len(o)
         /\ manual' = IF ~v.isManual THEN manual
                      ELSE <<[manual[1] EXCEPT !.set = FALSE,
                                               !.begin = Hi(Last(InOrder(v.c.in0)))]>>
    BY DEF FinishCompaction, NewFiles
<1>9. PICK v \in Range(comp), o \in {Outputs(comp[1])} :
         /\ Install([files EXCEPT ![v.c.level] = @ \ v.c.in0,
                                  ![v.c.level + 1] = (@ \ v.c.in1) \cup NewFiles(o)])
         /\ nextFile' = nextFile + Len(o)
         /\ manual' = IF ~v.isManual THEN manual
                      ELSE <<[manual[1] EXCEPT !.set = FALSE,
                                               !.begin = Hi(Last(InOrder(v.c.in0)))]>>
    BY <1>8
<1>10. v = w /\ o = out
    BY <1>2, <1>3, <1>7, <1>9
<1>11. comp' = <<>> /\ mem' = mem /\ imm' = imm /\ snapshots' = snapshots /\ written' = written
    BY DEF FinishCompaction
<1>12. /\ Install([files EXCEPT ![l] = @ \ w.c.in0,
                                ![l + 1] = (@ \ w.c.in1) \cup NewFiles(out)])
       /\ nextFile' = nextFile + Len(out)
       /\ manual' = IF ~w.isManual THEN manual
                    ELSE <<[manual[1] EXCEPT !.set = FALSE,
                                             !.begin = Hi(Last(InOrder(w.c.in0)))]>>
    BY <1>4, <1>9, <1>10
<1>13. Finishes(w, l, out)
    BY <1>3, <1>4, <1>5, <1>6, <1>7, <1>11, <1>12 DEF Finishes
<1> QED  BY <1>13

LEMMA FinishedFiles ==
    ASSUME LevelAssumption, LevelsInv, NEW w, NEW l \in 0 .. Deepest, NEW out, Finishes(w, l, out)
    PROVE  /\ files' = [m \in Level |-> files'[m]]
           /\ files'[l] = files[l] \ w.c.in0
           /\ files'[l + 1] = (files[l + 1] \ w.c.in1) \cup NewFiles(out)
           /\ \A m \in Level : m # l /\ m # l + 1 => files'[m] = files[m]
           /\ w.c.in0 \subseteq files[l] /\ w.c.in0 # {} /\ w.c.in1 \subseteq files[l + 1]
<1>1. /\ l \in Level /\ l + 1 \in Level /\ l # l + 1
      /\ files' = [files EXCEPT ![l] = @ \ w.c.in0,
                                ![l + 1] = (@ \ w.c.in1) \cup NewFiles(out)]
    BY DEF Finishes, Install
<1>2. /\ files' = [m \in Level |-> files'[m]]
      /\ files'[l] = files[l] \ w.c.in0
      /\ files'[l + 1] = (files[l + 1] \ w.c.in1) \cup NewFiles(out)
      /\ \A m \in Level : m # l /\ m # l + 1 => files'[m] = files[m]
    BY <1>1, CurrentFiles
<1>3. w.c.in0 \subseteq files[l] /\ w.c.in0 # {} /\ w.c.in1 \subseteq files[l + 1]
    BY DEF Finishes, WorkOK
<1> QED  BY <1>2, <1>3

LEMMA FinishKeepsLevels ==
    ASSUME LevelAssumption, LevelsInv, FinishCompaction
    PROVE  LevelsInv'
<1>1. PICK w, out : \E l \in 0 .. Deepest : Finishes(w, l, out)
    BY FinishSteps
<1>2. PICK l \in 0 .. Deepest : Finishes(w, l, out)
    BY <1>1
<1>3. /\ comp = <<w>> /\ WorkOK(w) /\ out = Outputs(w) /\ Input(w) \in SUBSET written
      /\ l \in Level /\ l + 1 \in Level /\ l # l + 1
      /\ nextFile' = nextFile + Len(out)
      /\ manual' = IF ~w.isManual THEN manual
                   ELSE <<[manual[1] EXCEPT !.set = FALSE,
                                            !.begin = Hi(Last(InOrder(w.c.in0)))]>>
      /\ comp' = <<>>
      /\ mem' = mem /\ imm' = imm /\ snapshots' = snapshots /\ written' = written
    BY <1>2 DEF Finishes
<1>4. /\ files' = [m \in Level |-> files'[m]]
      /\ files'[l] = files[l] \ w.c.in0
      /\ files'[l + 1] = (files[l + 1] \ w.c.in1) \cup NewFiles(out)
      /\ \A m \in Level : m # l /\ m # l + 1 => files'[m] = files[m]
      /\ w.c.in0 \subseteq files[l] /\ w.c.in0 # {} /\ w.c.in1 \subseteq files[l + 1]
    BY <1>2, FinishedFiles
<1>5. /\ IsFiniteSet(NewFiles(out)) /\ Len(out) \in Nat
      /\ \A f \in NewFiles(out) :
             /\ f \in File /\ f.ents \in SUBSET written /\ f.ents # {} /\ f.num \in Nat
             /\ f.num >= nextFile /\ f.num < nextFile + Len(out)
      /\ \A f, g \in NewFiles(out) : f.num = g.num => f = g
    BY <1>3, NewFilesHold
<1>6. nextFile' \in Nat
    BY <1>3, <1>5, CurrentFiles
<1>7. ASSUME NEW m \in Level
      PROVE  /\ IsFiniteSet(files'[m])
             /\ \A f \in files'[m] : /\ f \in File /\ f.ents \in SUBSET written /\ f.ents # {}
                                     /\ f.num < nextFile'
    <2>1. IsFiniteSet(files'[m])
        <3>1. IsFiniteSet(files[l] \ w.c.in0) /\ IsFiniteSet(files[l + 1] \ w.c.in1)
            <4>1. IsFiniteSet(files[l]) /\ IsFiniteSet(files[l + 1])
                BY <1>3, CurrentFiles
            <4> QED  BY <4>1, FS_Subset
        <3>2. IsFiniteSet((files[l + 1] \ w.c.in1) \cup NewFiles(out))
            BY <1>5, <3>1, FS_Union
        <3> QED  BY <1>4, <3>1, <3>2, CurrentFiles
    <2>2. ASSUME NEW f \in files'[m]
          PROVE  /\ f \in File /\ f.ents \in SUBSET written /\ f.ents # {}
                 /\ f.num < nextFile'
        <3>1. f \in files[m] \/ f \in NewFiles(out)
            BY <1>4
        <3>2. CASE f \in files[m]
            <4>1. /\ f \in File /\ f.ents \in SUBSET written /\ f.ents # {}
                  /\ f.num < nextFile /\ f.num \in Nat
                BY <3>2, CurrentFiles
            <4>2. f.num < nextFile + Len(out)
                BY <1>5, <4>1, CurrentFiles
            <4> QED  BY <1>3, <4>1, <4>2
        <3>3. CASE f \in NewFiles(out)
            BY <1>3, <1>5, <3>3
        <3> QED  BY <3>1, <3>2, <3>3
    <2> QED  BY <2>1, <2>2
<1>8. ASSUME NEW m \in Level, NEW o \in Level, NEW f \in files'[m], NEW g \in files'[o], f.num = g.num
      PROVE  f = g /\ m = o
    <2>1. \A p \in Level : \A x \in files[p] : \A y \in NewFiles(out) : x.num # y.num
        <3> SUFFICES ASSUME NEW p \in Level, NEW x \in files[p], NEW y \in NewFiles(out)
                     PROVE x.num # y.num
            OBVIOUS
        <3>1. x.num \in Nat /\ x.num < nextFile /\ nextFile \in Nat
            BY CurrentFiles
        <3>2. y.num \in Nat /\ y.num >= nextFile
            BY <1>5
        <3> QED  BY <3>1, <3>2
    <2>2. f \in files[m] \/ (f \in NewFiles(out) /\ m = l + 1)
        BY <1>4
    <2>3. g \in files[o] \/ (g \in NewFiles(out) /\ o = l + 1)
        BY <1>4
    <2> QED  BY <1>5, <1>8, <2>1, <2>2, <2>3, CurrentFiles
<1>9. HistoryOK' /\ LastSequence' = LastSequence /\ LevelsOK' /\ SnapshotsOK' /\ SeekOK' /\ LevelTypeOK'
    <2>1. PICK fs : fs = files'
        OBVIOUS
    <2>2. Install(fs)
        BY <1>2, <2>1 DEF Finishes, Install
    <2>3. fs = [m \in Level |-> fs[m]]
        BY <1>4, <2>1
    <2>4. \A m \in Level :
               /\ IsFiniteSet(fs[m])
               /\ \A f \in fs[m] : /\ f \in File /\ f.ents \in SUBSET written /\ f.ents # {}
                                   /\ f.num < nextFile'
        BY <1>7, <2>1
    <2>5. \A m, o \in Level : \A f \in fs[m], g \in fs[o] : f.num = g.num => f = g /\ m = o
        BY <1>8, <2>1
    <2> QED  BY <1>3, <1>6, <2>2, <2>3, <2>4, <2>5, InstalledVersion
<1>10. ManualOK'
    <2>1. CASE ~w.isManual
        BY <1>3, <2>1 DEF LevelsInv, ManualOK
    <2>2. CASE w.isManual
        <3>1. /\ manual = <<manual[1]>>
              /\ manual[1] \in [level : 0 .. Deepest, begin : Key, end : Key, set : BOOLEAN]
            BY <1>3, <2>2 DEF LevelsInv, ManualOK, WorkOK, ManualDue
        <3>2. Hi(Last(InOrder(w.c.in0))) \in Key
            <4>1. FilesOK(w.c.in0)
                <5>1. IsFiniteSet(w.c.in0)
                    BY <1>3, <1>4, CurrentFiles, FS_Subset
                <5> QED  BY <1>3, <1>4, <5>1 DEF LevelsInv, LevelsOK, FilesOK
            <4>2. PICK q : q = InOrder(w.c.in0)
                OBVIOUS
            <4> DEFINE n == Cardinality(w.c.in0)
            <4>3. /\ n \in Nat /\ q = [i \in 1 .. n |-> q[i]]
                  /\ \A i \in 1 .. n : q[i] \in w.c.in0
                  /\ \A f \in w.c.in0 : \E i \in 1 .. n : q[i] = f
                <5> HistoryOK
                    BY DEF LevelsInv
                <5> HIDE DEF n
                <5>1. PICK fs : fs = w.c.in0
                    OBVIOUS
                <5>2. FilesOK(fs)
                    BY <4>1, <5>1
                <5>3. /\ Cardinality(fs) \in Nat
                      /\ InOrder(fs) = [i \in 1 .. Cardinality(fs) |-> InOrder(fs)[i]]
                      /\ \A i \in 1 .. Cardinality(fs) : InOrder(fs)[i] \in fs
                      /\ \A f \in fs : \E i \in 1 .. Cardinality(fs) : InOrder(fs)[i] = f
                    BY <5>2, FilesInOrder
                <5>4. n = Cardinality(fs) /\ q = InOrder(fs)
                    BY <4>2, <5>1 DEF n
                <5> QED  BY <5>1, <5>3, <5>4
            <4> HIDE DEF n
            <4>4. n # 0
                BY <1>4, <4>3
            <4>5. Last(q) = q[n] /\ n \in 1 .. n
                <5>1. Len(q) = n
                    BY <4>3
                <5> QED  BY <4>4, <5>1 DEF Last
            <4>6. Last(q) \in files[l]
                BY <1>4, <4>3, <4>5
            <4> QED  BY <1>3, <4>2, <4>6, RangesOf DEF LevelsInv
        <3>3. PICK b \in Key : b = Hi(Last(InOrder(w.c.in0)))
            BY <3>2
        <3>4. manual' = <<[manual[1] EXCEPT !.set = FALSE, !.begin = b]>>
            BY <1>3, <2>2, <3>3
        <3>5. [manual[1] EXCEPT !.set = FALSE, !.begin = b]
                  \in [level : 0 .. Deepest, begin : Key, end : Key, set : BOOLEAN]
            BY <3>1
        <3> QED  BY <3>4, <3>5 DEF ManualOK
    <2> QED  BY <2>1, <2>2
<1> QED  BY <1>3, <1>6, <1>9, <1>10 DEF LevelsInv

\* What BackgroundCompaction may pick, and the manual compaction as well.
LEMMA ChosenChoice ==
    ASSUME LevelAssumption, LevelsInv
    PROVE  /\ NeedsCompaction => \E l \in 0 .. Deepest : ChoiceOK(Picked, l)
           /\ ManualDue /\ RangeInputs(manual[1]) # {} =>
                  \E l \in 0 .. Deepest : ChoiceOK(Setup(manual[1].level, RangeInputs(manual[1])), l)
<1>1. NeedsCompaction => \E l \in 0 .. Deepest : ChoiceOK(Picked, l)
    BY PickedChoice DEF LevelsInv, SeekOK
<1>2. ASSUME ManualDue, RangeInputs(manual[1]) # {}
      PROVE  \E l \in 0 .. Deepest : ChoiceOK(Setup(manual[1].level, RangeInputs(manual[1])), l)
    <2>1. /\ manual[1].level \in 0 .. Deepest /\ manual[1].begin \in Key /\ manual[1].end \in Key
        BY <1>2 DEF LevelsInv, ManualOK, ManualDue
    <2> QED  BY <1>2, <2>1, ManualChoice DEF LevelsInv
<1> QED  BY <1>1, <1>2

-----------------------------------------------------------------------------
(* The levels stay sound.                                                  *)

\* A version without flaws has its files in order.
LEMMA NoFlaws ==
    ASSUME NEW fs, Install(fs), spoilt' = {}
    PROVE  spoilt = {} /\ Separate'
<1>1. spoilt = {} /\ Flaws(fs) = {} /\ files' = fs
    BY DEF Install
<1>2. ASSUME NEW l \in Level \ {0}, NEW f \in fs[l], NEW g \in fs[l], f # g
      PROVE  Disjoint(f, g) /\ ~SharesKey(f, g)
    <2> DEFINE pairs == UNION {{{x, y} : x, y \in fs[m]} : m \in Level \ {0}}
    <2>1. {f, g} \in pairs
        OBVIOUS
    <2>2. Flaws(fs) =
              {"overlap" : p \in {q \in pairs : \E x, y \in q : x # y /\ ~Disjoint(x, y)}}
              \cup {"split" : p \in {q \in pairs : \E x, y \in q : x # y /\ SharesKey(x, y)}}
        BY DEF Flaws
    <2> HIDE DEF pairs
    <2>3. /\ \A q \in pairs : ~\E x, y \in q : x # y /\ ~Disjoint(x, y)
          /\ \A q \in pairs : ~\E x, y \in q : x # y /\ SharesKey(x, y)
        <3>1. /\ {"overlap" : p \in {q \in pairs : \E x, y \in q : x # y /\ ~Disjoint(x, y)}} = {}
              /\ {"split" : p \in {q \in pairs : \E x, y \in q : x # y /\ SharesKey(x, y)}} = {}
            BY <1>1, <2>2
        <3> QED  BY <3>1
    <2> QED  BY <1>2, <2>1, <2>3
<1> QED  BY <1>1, <1>2 DEF Separate

\* What a step that leaves the entries where they are keeps.
LEMMA SameEntries ==
    ASSUME Sound, mem' = mem, imm' = imm, files' = files, written' = written, spoilt' = spoilt,
           LastSequence' = LastSequence, Readable' \subseteq Readable,
           spoilt = {} /\ Separate /\ Ordered /\ comp' # <<>> => InputsSafe(comp[1])'
    PROVE  Sound'
<1>1. (Separate <=> Separate') /\ (Ordered <=> Ordered')
    BY DEF Separate, Ordered
<1>2. \A s, k : Scan(k, s)' = Scan(k, s)
    BY DEF Scan
<1>3. Complete => Complete'
    BY <1>2 DEF Complete
<1> QED  BY <1>1, <1>3 DEF Sound

LEMMA SameInputs ==
    ASSUME files' = files, NEW w, InputsSafe(w)
    PROVE  InputsSafe(w)'
BY DEF InputsSafe

\* The entries there are, all written.
Present == mem \cup imm \cup AllFiles

LEMMA PresentWritten ==
    ASSUME LevelAssumption, LevelsInv
    PROVE  /\ Present \in SUBSET written /\ AllFiles \in SUBSET written
           /\ \A k, s : Scan(k, s) = Reads(Present, k, s)
<1>1. AllFiles \in SUBSET written
    BY EndsOK, InAllFiles DEF LevelsInv
<1>2. \A k, s : Scan(k, s) = Reads(Present, k, s)
    BY DEF Scan, Present, AllFiles
<1> QED  BY <1>1, <1>2 DEF Present, LevelsInv, LevelTypeOK

\* A reader at s, or at the latest sequence number if s is the next one, tells X from Y
\* by nothing it reads of k.
AgreeUpTo(s, X, Y, k) ==
    \/ s \in Nat /\ s <= LastSequence /\ Reads(X, k, s) = Reads(Y, k, s)
    \/ s = LastSequence + 1 /\ Reads(X, k, LastSequence) = Reads(Y, k, LastSequence)

\* A write is read alike in two sets of older entries that were read alike.
LEMMA NextReads ==
    ASSUME LevelAssumption, HistoryOK, NEW X \in SUBSET written, NEW Y \in SUBSET written,
           NEW k, NEW e, LastSequence \in Nat, e.seq = LastSequence + 1, NEW s,
           AgreeUpTo(s, X, Y, k)
    PROVE  Reads(X \cup {e}, k, s) = Reads(Y \cup {e}, k, s)
<1>1. \A f \in X \cup Y : /\ f.seq \in Nat /\ f.seq <= LastSequence
                           /\ f.seq < e.seq /\ f.seq <= e.seq
    BY DEF HistoryOK
<1>2. CASE s \in Nat /\ s <= LastSequence /\ Reads(X, k, s) = Reads(Y, k, s)
    <2>1. ~(e.seq <= s)
        BY <1>2
    <2>2. Answer(X \cup {e}, k, s) = Answer(X, k, s)
        BY <2>1 DEF Answer
    <2>3. Answer(Y \cup {e}, k, s) = Answer(Y, k, s)
        BY <2>1 DEF Answer
    <2> QED  BY <1>2, <2>2, <2>3 DEF Reads
<1>3. ASSUME s = LastSequence + 1, e.key = k
      PROVE  Reads(X \cup {e}, k, s) = Reads(Y \cup {e}, k, s)
    <2>1. ASSUME NEW Z \in {X, Y}  PROVE Answer(Z \cup {e}, k, s) = {e}
        <3>1. e \in Answer(Z \cup {e}, k, s)
            BY <1>1, <1>3 DEF Answer
        <3>2. \A f \in Z : f \notin Answer(Z \cup {e}, k, s) \/ f = e
            BY <1>1, <1>3 DEF Answer
        <3>3. \A f \in Answer(Z \cup {e}, k, s) : f \in Z \/ f = e
            BY DEF Answer
        <3> QED  BY <3>1, <3>2, <3>3
    <2> QED  BY <2>1 DEF Reads
<1>4. ASSUME s = LastSequence + 1, Reads(X, k, LastSequence) = Reads(Y, k, LastSequence), e.key # k
      PROVE  Reads(X \cup {e}, k, s) = Reads(Y \cup {e}, k, s)
    <2>1. \A f \in X \cup Y : f.seq <= LastSequence /\ f.seq <= s
        BY <1>1, <1>4
    <2>2. Answer(X \cup {e}, k, s) = Answer(X, k, LastSequence)
        BY <1>4, <2>1 DEF Answer
    <2>3. Answer(Y \cup {e}, k, s) = Answer(Y, k, LastSequence)
        BY <1>4, <2>1 DEF Answer
    <2> QED  BY <1>4, <2>2, <2>3 DEF Reads
<1> QED  BY <1>2, <1>3, <1>4 DEF AgreeUpTo

LEMMA WriteKeepsSound ==
    ASSUME LevelAssumption, IInv, LevelsInv', NEW k \in Key, NEW del \in BOOLEAN, Write(k, del)
    PROVE  Sound'
<1>1. /\ files' = files /\ snapshots' = snapshots /\ comp' = comp /\ spoilt' = spoilt
      /\ imm' = imm
    BY DEF Write
<1>2. PICK e : e = [key |-> k, seq |-> LastSequence + 1, del |-> del]
    OBVIOUS
<1>3. mem' = mem \cup {e} /\ written' = written \cup {e} /\ e.seq = LastSequence + 1 /\ e.key = k
    BY <1>2 DEF Write
<1>4. /\ LastSequence \in Nat /\ LastSequence' = LastSequence + 1
      /\ \A f \in written : e.seq > f.seq
    BY <1>2, <1>3, HistoryGrows DEF IInv, LevelsInv
<1> SUFFICES ASSUME spoilt = {}
             PROVE  Separate' /\ Ordered' /\ Complete' /\ (comp # <<>> => InputsSafe(comp[1])')
    BY <1>1 DEF Sound
<1>5. Separate /\ Ordered /\ Complete /\ (comp # <<>> => InputsSafe(comp[1]))
    BY DEF IInv, Sound
<1>6. Separate'
    BY <1>1, <1>5 DEF Separate
<1>7. Ordered'
    <2>1. imm \subseteq written /\ \A l \in Level : \A f \in files[l] : f.ents \subseteq written
        BY CurrentFiles DEF IInv, LevelsInv, LevelTypeOK
    <2>2. \A A \in SUBSET written : Newer({e}, A)
        BY <1>4 DEF Newer
    <2>3. \A A \in SUBSET written : Newer(mem, A) => Newer(mem \cup {e}, A)
        BY <2>2 DEF Newer
    <2> QED  BY <1>1, <1>3, <1>5, <2>1, <2>3 DEF Ordered
<1>8. comp # <<>> => InputsSafe(comp[1])'
    BY <1>1, <1>5, SameInputs
<1>9. Complete'
    <2>1. /\ Present \in SUBSET written
          /\ \A x, s : Scan(x, s) = Reads(Present, x, s)
        BY PresentWritten DEF IInv
    <2>2. \A x, s : Scan(x, s)' = Reads(Present \cup {e}, x, s)
        <3>1. Present' = Present \cup {e}
            BY <1>1, <1>3 DEF Present, AllFiles
        <3>2. \A x, s : Scan(x, s)' = Reads(Present', x, s)
            BY DEF Scan, Present, AllFiles
        <3> QED  BY <3>1, <3>2
    <2>3. /\ Readable' = {LastSequence + 1} \cup Range(snapshots)
          /\ Readable = {LastSequence} \cup Range(snapshots)
        BY <1>1, <1>4 DEF Readable
    <2>4. \A s \in Range(snapshots) : s \in Nat /\ s <= LastSequence
        <3>1. snapshots \in Seq(Nat) /\ \A i \in DOMAIN snapshots : snapshots[i] <= LastSequence
            BY DEF IInv, LevelsInv, SnapshotsOK
        <3>2. \A i \in DOMAIN snapshots : snapshots[i] \in Nat
            BY <3>1, LenProperties
        <3> QED  BY <3>1, <3>2 DEF Range
    <2> SUFFICES ASSUME NEW s \in Readable', NEW x \in Key
                 PROVE  Reads(Present \cup {e}, x, s) = Reads(written \cup {e}, x, s)
        BY <1>3, <2>2 DEF Complete
    <2>5. PICK W \in SUBSET written : W = written
        OBVIOUS
    <2>6. \/ s \in Nat /\ s <= LastSequence /\ Reads(Present, x, s) = Reads(W, x, s)
          \/ s = LastSequence + 1 /\ Reads(Present, x, LastSequence) = Reads(W, x, LastSequence)
        BY <1>5, <2>1, <2>3, <2>4, <2>5 DEF Complete
    <2>7. Reads(Present \cup {e}, x, s) = Reads(W \cup {e}, x, s)
        <3>1. HistoryOK /\ e.seq = LastSequence + 1 /\ LastSequence \in Nat
            BY <1>3, <1>4 DEF IInv, LevelsInv
        <3>2. PICK P \in SUBSET written : P = Present
            BY <2>1
        <3>3. AgreeUpTo(s, P, W, x)
            BY <2>6, <3>2 DEF AgreeUpTo
        <3>4. Reads(P \cup {e}, x, s) = Reads(W \cup {e}, x, s)
            BY <3>1, <3>3, NextReads
        <3> QED  BY <3>2, <3>4
    <2> QED  BY <2>5, <2>7
<1> QED  BY <1>6, <1>7, <1>8, <1>9

LEMMA SwitchKeepsSound ==
    ASSUME LevelAssumption, IInv, SwitchMemTable
    PROVE  Sound'
<1>1. /\ files' = files /\ snapshots' = snapshots /\ comp' = comp /\ spoilt' = spoilt
      /\ written' = written /\ imm' = mem /\ mem' = {} /\ imm = {}
    BY DEF SwitchMemTable
<1> SUFFICES ASSUME spoilt = {}
             PROVE  Separate' /\ Ordered' /\ Complete' /\ (comp # <<>> => InputsSafe(comp[1])')
    BY <1>1 DEF Sound
<1>2. Separate /\ Ordered /\ Complete /\ (comp # <<>> => InputsSafe(comp[1]))
    BY DEF IInv, Sound
<1>3. Separate' /\ Ordered'
    BY <1>1, <1>2 DEF Separate, Ordered, Newer
<1>4. \A s, k : Scan(k, s)' = Scan(k, s)
    <2>1. mem' \cup imm' = mem \cup imm
        BY <1>1
    <2> QED  BY <1>1, <2>1 DEF Scan
<1>5. Readable' = Readable
    BY <1>1 DEF Readable, LastSequence
<1>6. Complete'
    BY <1>1, <1>2, <1>4, <1>5 DEF Complete
<1>7. comp # <<>> => InputsSafe(comp[1])'
    BY <1>1, <1>2, SameInputs
<1> QED  BY <1>3, <1>6, <1>7

\* A new snapshot covers what is read now; fewer snapshots ask for less.
LEMMA SnapshotsKeepSound ==
    ASSUME LevelAssumption, IInv, GetSnapshot \/ \E i : ReleaseSnapshot(i)
    PROVE  Sound'
<1>1. /\ files' = files /\ comp' = comp /\ spoilt' = spoilt /\ mem' = mem /\ imm' = imm
      /\ written' = written /\ LastSequence' = LastSequence
    BY DEF GetSnapshot, ReleaseSnapshot, LastSequence
<1>2. Readable' \subseteq Readable
    <2>1. CASE GetSnapshot
        <3>1. PICK q : q = snapshots'
            OBVIOUS
        <3>2. snapshots \in Seq(Nat) /\ q = Append(snapshots, LastSequence)
            BY <2>1, <3>1 DEF GetSnapshot, IInv, LevelsInv, SnapshotsOK
        <3>3. PICK n \in Nat : n = Len(snapshots) /\ DOMAIN snapshots = 1 .. n
            BY <3>2, LenProperties
        <3>4. LastSequence \in Nat
            BY FS_CardinalityType DEF IInv, LevelsInv, HistoryOK, LastSequence
        <3>5. DOMAIN q = 1 .. n + 1 /\ q[n + 1] = LastSequence /\ \A i \in 1 .. n : q[i] = snapshots[i]
            BY <3>2, <3>3, <3>4, AppendProperties, LenProperties
        <3>6. \A i \in DOMAIN q : q[i] = LastSequence \/ q[i] \in Range(snapshots)
            <4> SUFFICES ASSUME NEW i \in DOMAIN q  PROVE q[i] = LastSequence \/ q[i] \in Range(snapshots)
                OBVIOUS
            <4>1. i = n + 1 \/ i \in 1 .. n
                BY <3>3, <3>5
            <4> QED  BY <3>3, <3>5, <4>1 DEF Range
        <3>7. Range(q) \subseteq {LastSequence} \cup Range(snapshots)
            BY <3>6 DEF Range
        <3>8. Range(snapshots)' = Range(q)
            BY <3>1 DEF Range
        <3> QED  BY <1>1, <3>7, <3>8 DEF Readable
    <2>2. ASSUME NEW i, ReleaseSnapshot(i)  PROVE Readable' \subseteq Readable
        <3>1. \A j \in DOMAIN snapshots' : \E m \in DOMAIN snapshots : snapshots'[j] = snapshots[m]
            BY <2>2, ReleaseKeepsLevels DEF IInv
        <3>2. Range(snapshots)' \subseteq Range(snapshots)
            BY <3>1 DEF Range
        <3> QED  BY <1>1, <3>2 DEF Readable
    <2> QED  BY <2>1, <2>2
<1>3. spoilt = {} /\ Separate /\ Ordered /\ comp' # <<>> => InputsSafe(comp[1])'
    BY <1>1, SameInputs DEF IInv, Sound
<1> QED  BY <1>1, <1>2, <1>3, SameEntries DEF IInv

\* Steps that touch neither entries nor snapshots nor the work under way.
LEMMA OthersKeepSound ==
    ASSUME LevelAssumption, IInv,
           UNCHANGED <<mem, imm, files, snapshots, comp, written, spoilt>>
    PROVE  Sound'
<1>1. /\ files' = files /\ comp' = comp /\ spoilt' = spoilt /\ mem' = mem /\ imm' = imm
      /\ written' = written /\ snapshots' = snapshots
    OBVIOUS
<1>2. LastSequence' = LastSequence /\ Readable' \subseteq Readable
    BY <1>1 DEF LastSequence, Readable
<1>3. spoilt = {} /\ Separate /\ Ordered /\ comp' # <<>> => InputsSafe(comp[1])'
    BY <1>1, SameInputs DEF IInv, Sound
<1> QED  BY <1>1, <1>2, <1>3, SameEntries DEF IInv

\* The files chosen for a compaction may be moved down.
LEMMA ChoiceSafe ==
    ASSUME LevelAssumption, LevelsInv, Separate, NEW c, NEW l \in 0 .. Deepest, ChoiceOK(c, l),
           NEW w, w.c = c, w.base = files
    PROVE  InputsSafe(w)
<1>1. /\ c.level = l /\ c.in0 \subseteq files[l] /\ c.in0 # {} /\ c.in1 \subseteq files[l + 1]
      /\ l = 0 => \A f \in files[l] \ c.in0, g \in c.in0 : Apart(f, g)
      /\ \A f \in files[l + 1] \ c.in1, g \in c.in0 : Apart(f, g)
      /\ l \in Level /\ l + 1 \in Level
    BY LevelNumbers DEF ChoiceOK, Level, Deepest
<1>2. \A m \in Level : \A f \in files[m] : \A e \in f.ents :
          Lo(f) \in Nat /\ Hi(f) \in Nat /\ e.key \in Nat /\ Lo(f) <= e.key /\ e.key <= Hi(f)
          /\ e.key \in Key
    <2> SUFFICES ASSUME NEW m \in Level, NEW f \in files[m], NEW e \in f.ents
                 PROVE Lo(f) \in Nat /\ Hi(f) \in Nat /\ e.key \in Nat /\ Lo(f) <= e.key /\ e.key <= Hi(f)
                       /\ e.key \in Key
        OBVIOUS
    <2>1. e.key \in Key
        BY CurrentFiles DEF LevelsInv, HistoryOK, Entries
    <2>2. Lo(f) \in Key /\ Hi(f) \in Key /\ Lo(f) <= e.key /\ e.key <= Hi(f)
        BY RangesOf DEF LevelsInv
    <2>3. \A k \in Key : k \in Nat
        BY DEF Key, LevelAssumption
    <2> QED  BY <2>1, <2>2, <2>3
<1>3. ASSUME NEW m \in Level, NEW n \in Level, NEW f \in files[m], NEW g \in files[n], Apart(f, g)
      PROVE  \A d \in f.ents, e \in g.ents : d.key # e.key
    <2> SUFFICES ASSUME NEW d \in f.ents, NEW e \in g.ents  PROVE d.key # e.key
        OBVIOUS
    <2> QED  BY <1>2, <1>3 DEF Apart
<1>4. ASSUME NEW f \in files[l] \ c.in0, NEW g \in c.in0  PROVE Newer(f.ents, g.ents)
    <2>1. CASE l = 0
        BY <1>1, <1>3, <2>1 DEF Newer
    <2>2. CASE l # 0
        <3>1. ~SharesKey(f, g)
            BY <1>1, <2>2 DEF Separate
        <3> QED  BY <3>1 DEF SharesKey, Newer
    <2> QED  BY <2>1, <2>2
<1>5. ASSUME NEW f \in files[l + 1] \ c.in1, NEW g \in c.in0
      PROVE  \A d \in f.ents, e \in g.ents : d.key # e.key
    BY <1>1, <1>3
<1>6. ASSUME NEW m \in Level, m > l + 1, NEW f \in files[m], NEW d \in f.ents, NEW e \in Input(w),
             d.key = e.key
      PROVE  e.key \in DeeperKeys(w)
    <2>1. Touches(f, e.key, e.key) /\ e.key \in Key
        BY <1>2, <1>6 DEF Touches
    <2>2. m \in w.c.level + 2 .. NumLevels - 1
        BY <1>1, <1>6, LevelNumbers DEF Level
    <2> QED  BY <2>1, <2>2 DEF DeeperKeys
<1> QED  BY <1>1, <1>4, <1>5, <1>6 DEF InputsSafe

LEMMA StartKeepsSound ==
    ASSUME LevelAssumption, IInv, NEW c, NEW l \in 0 .. Deepest, ChoiceOK(c, l), NEW isManual,
           UNCHANGED <<mem, imm, files, snapshots, written, spoilt>>,
           comp' = <<Compaction(c, isManual)>>
    PROVE  Sound'
<1>1. /\ files' = files /\ spoilt' = spoilt /\ mem' = mem /\ imm' = imm
      /\ written' = written /\ snapshots' = snapshots
    OBVIOUS
<1>2. LastSequence' = LastSequence /\ Readable' \subseteq Readable
    BY <1>1 DEF LastSequence, Readable
<1>3. PICK w : w = Compaction(c, isManual)
    OBVIOUS
<1>4. w.c = c /\ w.base = files /\ comp' = <<w>> /\ comp'[1] = w
    BY <1>3 DEF Compaction
<1>5. Separate => InputsSafe(w)
    BY <1>4, ChoiceSafe DEF IInv
<1>6. Separate => InputsSafe(comp[1])'
    <2>1. Separate => InputsSafe(w)'
        BY <1>1, <1>5, SameInputs
    <2> QED  BY <1>4, <2>1
<1> QED  BY <1>1, <1>2, <1>6, SameEntries DEF IInv

\* A file whose range touches none of a level's has none of its keys.
LEMMA Untouched ==
    ASSUME LevelAssumption, LevelsInv, NEW m \in Level, NEW g \in files[m],
           NEW f, f.ents \in SUBSET written, f.ents # {}, ~OverlapInLevel(m, Lo(f), Hi(f))
    PROVE  \A d \in g.ents, e \in f.ents : d.key # e.key
<1>1. /\ Lo(f) \in Key /\ Hi(f) \in Key /\ \A e \in f.ents : Lo(f) <= e.key /\ e.key <= Hi(f)
    BY FileRange DEF LevelsInv
<1>2. g.ents \in SUBSET written /\ g.ents # {}
    BY CurrentFiles
<1>3. /\ Lo(g) \in Key /\ Hi(g) \in Key /\ \A e \in g.ents : Lo(g) <= e.key /\ e.key <= Hi(g)
    BY <1>2, FileRange DEF LevelsInv
<1>4. ~Touches(g, Lo(f), Hi(f))
    BY DEF OverlapInLevel
<1>5. \A e \in written : e.key \in Nat
    BY DEF LevelsInv, HistoryOK, Entries, Key, LevelAssumption
<1>6. Lo(f) \in Nat /\ Hi(f) \in Nat /\ Lo(g) \in Nat /\ Hi(g) \in Nat
    BY <1>1, <1>3 DEF Key, LevelAssumption
<1> QED  BY <1>1, <1>2, <1>3, <1>4, <1>5, <1>6 DEF Touches

LEMMA FlushKeepsSound ==
    ASSUME LevelAssumption, IInv, CompactMemTable
    PROVE  Sound'
<1>1. /\ mem' = mem /\ imm' = {} /\ snapshots' = snapshots
      /\ written' = written /\ comp' = comp /\ imm # {}
    BY DEF CompactMemTable
<1>2. PICK f : f = [num |-> nextFile, ents |-> imm]
    OBVIOUS
<1>3. PICK l \in Level : l = PickLevel(Lo(f), Hi(f))
    BY PickedLevel
<1>4. PICK fs : fs = [files EXCEPT ![l] = @ \cup {f}]
    OBVIOUS
<1>5. Install(fs) /\ files' = fs
    BY <1>2, <1>3, <1>4 DEF CompactMemTable, Install
<1>6. /\ files'[l] = files[l] \cup {f}
      /\ \A m \in Level : m # l => files'[m] = files[m]
    BY <1>4, <1>5, CurrentFiles DEF IInv
<1>7. f.ents = imm /\ f.num = nextFile /\ imm \in SUBSET written
    BY <1>2 DEF IInv, LevelsInv, LevelTypeOK
<1> SUFFICES ASSUME spoilt' = {}
             PROVE  Separate' /\ Ordered' /\ Complete' /\ (comp # <<>> => InputsSafe(comp[1])')
    BY <1>1 DEF Sound
<1>8. spoilt = {} /\ Separate'
    BY <1>5, NoFlaws
<1>9. Separate /\ Ordered /\ Complete /\ (comp # <<>> => InputsSafe(comp[1]))
    BY <1>8 DEF IInv, Sound
<1>10. \A m \in Level : \A g \in files'[m] : g \in files[m] \/ (g = f /\ m = l)
    BY <1>6
<1>11. ASSUME NEW m \in Level, m <= l, NEW g \in files[m], l # 0
       PROVE  \A d \in g.ents, e \in imm : d.key # e.key
    <2>1. \A n \in 0 .. l : ~OverlapInLevel(n, Lo(f), Hi(f))
        BY <1>3, <1>11, PickedLevel
    <2>2. ~OverlapInLevel(m, Lo(f), Hi(f))
        BY <1>11, <2>1 DEF Level
    <2> QED  BY <1>1, <1>7, <2>2, Untouched DEF IInv
<1>12. Ordered'
    <2>1. Newer(mem', imm')
        BY <1>1 DEF Newer
    <2>2. \A m \in Level : \A g \in files'[m] : Newer(mem', g.ents) /\ Newer(imm', g.ents)
        <3>1. \A m \in Level : \A g \in files'[m] : Newer(mem, g.ents)
            BY <1>7, <1>9, <1>10 DEF Ordered
        <3>2. \A A : Newer({}, A)
            BY DEF Newer
        <3> QED  BY <1>1, <3>1, <3>2
    <2>3. \A g, h \in files'[0] : g.num > h.num => Newer(g.ents, h.ents)
        <3>1. 0 \in Level
            BY LevelNumbers
        <3>2. \A x \in files[0] : x.num \in Nat /\ x.num < nextFile /\ nextFile \in Nat
            BY <3>1, CurrentFiles DEF IInv
        <3> SUFFICES ASSUME NEW g \in files'[0], NEW h \in files'[0], g.num > h.num
                     PROVE  Newer(g.ents, h.ents)
            OBVIOUS
        <3>3. nextFile \in Nat
            BY DEF IInv, LevelsInv
        <3>4. h \in files[0] \/ h = f
            BY <1>10, <3>1
        <3>5. g \in files[0] \/ g = f
            BY <1>10, <3>1
        <3>6. CASE h = f
            BY <1>7, <3>2, <3>3, <3>5, <3>6
        <3>7. CASE h \in files[0] /\ g = f
            BY <1>7, <1>9, <3>1, <3>7 DEF Ordered
        <3>8. CASE h \in files[0] /\ g \in files[0]
            BY <1>9, <3>8 DEF Ordered
        <3> QED  BY <3>4, <3>5, <3>6, <3>7, <3>8
    <2>4. ASSUME NEW m \in Level, NEW n \in Level, m < n, NEW g \in files'[m], NEW h \in files'[n]
          PROVE  Newer(g.ents, h.ents)
        <3>1. CASE g \in files[m] /\ h \in files[n]
            BY <1>9, <2>4, <3>1 DEF Ordered
        <3>2. CASE g = f /\ h \in files[n]
            BY <1>7, <1>9, <3>2 DEF Ordered
        <3>3. CASE h = f /\ n = l /\ g \in files[m]
            <4>1. l # 0 /\ m <= l
                BY <2>4, <3>3 DEF Level, LevelAssumption
            <4> QED  BY <1>7, <1>11, <3>3, <4>1 DEF Newer
        <3>4. g # f \/ h # f
            <4>1. \A p \in Level : f \notin files[p]
                <5> SUFFICES ASSUME NEW p \in Level, f \in files[p]  PROVE FALSE
                    OBVIOUS
                <5>1. f.num < nextFile /\ nextFile \in Nat
                    BY CurrentFiles DEF IInv
                <5> QED  BY <1>7, <5>1
            <4>2. g = f /\ h = f => m = n
                BY <1>10, <4>1
            <4>3. m \in Nat /\ n \in Nat
                BY DEF Level, LevelAssumption
            <4> QED  BY <2>4, <4>2, <4>3
        <3> QED  BY <1>10, <2>4, <3>1, <3>2, <3>3, <3>4
    <2> QED  BY <2>1, <2>2, <2>3, <2>4 DEF Ordered
<1>13. Complete'
    <2>1. \A e : e \in Present' <=> e \in Present
        <3>1. \A e : e \in AllFiles' <=> e \in AllFiles \/ e \in imm
            <4>1. \A e : e \in AllFiles' <=> \E m \in Level : \E g \in files'[m] : e \in g.ents
                BY DEF AllFiles, Contents
            <4>2. \A e : e \in AllFiles <=> \E m \in Level : \E g \in files[m] : e \in g.ents
                BY DEF AllFiles, Contents
            <4>3. \A m \in Level : files[m] \subseteq files'[m]
                BY <1>6
            <4> QED  BY <1>6, <1>7, <1>10, <4>1, <4>2, <4>3
        <3> QED  BY <1>1, <3>1 DEF Present
    <2>2. Present' = Present
        BY <2>1
    <2>3. \A k, s : Scan(k, s)' = Reads(Present', k, s)
        BY DEF Scan, Present, AllFiles
    <2>4. \A k, s : Scan(k, s) = Reads(Present, k, s)
        BY PresentWritten DEF IInv
    <2>5. Readable' = Readable
        BY <1>1 DEF Readable, LastSequence
    <2> QED  BY <1>1, <1>9, <2>2, <2>3, <2>4, <2>5 DEF Complete
<1>14. ASSUME comp # <<>>  PROVE InputsSafe(comp[1])'
    <2>1. PICK w : w = comp[1] /\ WorkOK(w) /\ InputsSafe(w)
        BY <1>9, <1>14 DEF IInv, LevelsInv
    <2>2. PICK o \in 0 .. Deepest : o = w.c.level
        BY <2>1 DEF WorkOK
    <2>3. /\ o \in Level /\ o + 1 \in Level /\ o \in Nat /\ l \in Nat
          /\ w.c.in0 \subseteq files[o] /\ w.c.in1 \subseteq files[o + 1]
        BY <2>1, <2>2, LevelNumbers DEF WorkOK, Level, Deepest
    <2>4. /\ \A g \in files[o] \ w.c.in0, h \in w.c.in0 : Newer(g.ents, h.ents)
          /\ \A g \in files[o + 1] \ w.c.in1, h \in w.c.in0 :
                 \A d \in g.ents, e \in h.ents : d.key # e.key
          /\ \A m \in Level : m > o + 1 =>
                 \A g \in files[m] : \A d \in g.ents, e \in Input(w) :
                     d.key = e.key => e.key \in DeeperKeys(w)
        BY <2>1, <2>2 DEF InputsSafe
    <2>5. ASSUME NEW g \in files'[o] \ w.c.in0, NEW h \in w.c.in0  PROVE Newer(g.ents, h.ents)
        <3>1. CASE g \in files[o]
            BY <2>4, <2>5, <3>1
        <3>2. CASE g = f
            BY <1>7, <1>9, <2>3, <3>2 DEF Ordered
        <3> QED  BY <1>10, <2>3, <3>1, <3>2
    <2>6. ASSUME NEW g \in files'[o + 1] \ w.c.in1, NEW h \in w.c.in0,
                 NEW d \in g.ents, NEW e \in h.ents
          PROVE  d.key # e.key
        <3>1. CASE g \in files[o + 1]
            BY <2>4, <2>6, <3>1
        <3>2. CASE g = f /\ o + 1 = l
            <4>1. l # 0 /\ o <= l /\ h \in files[o] /\ d \in imm
                BY <1>7, <2>3, <2>6, <3>2
            <4>2. \A y \in h.ents, x \in imm : y.key # x.key
                BY <1>11, <2>3, <4>1
            <4> QED  BY <2>6, <4>1, <4>2
        <3> QED  BY <1>10, <2>3, <2>6, <3>1, <3>2
    <2>7. ASSUME NEW m \in Level, m > o + 1, NEW g \in files'[m], NEW d \in g.ents,
                 NEW e \in Input(w), d.key = e.key
          PROVE  e.key \in DeeperKeys(w)
        <3>1. CASE g \in files[m]
            BY <2>4, <2>7, <3>1
        <3>2. CASE g = f /\ m = l
            <4>1. PICK h \in w.c.in0 \cup w.c.in1 : e \in h.ents
                BY DEF Input, Contents
            <4>2. l # 0 /\ o <= l /\ o + 1 <= l /\ d \in imm
                BY <1>7, <2>3, <2>7, <3>2
            <4>3. PICK n \in Level : n <= l /\ h \in files[n]
                BY <2>3, <4>2
            <4>4. \A y \in h.ents, x \in imm : y.key # x.key
                BY <1>11, <4>2, <4>3
            <4> QED  BY <2>7, <4>1, <4>2, <4>4
        <3> QED  BY <1>10, <2>7, <3>1, <3>2
    <2>8. InputsSafe(w)'
        BY <2>2, <2>5, <2>6, <2>7 DEF InputsSafe
    <2> QED  BY <1>1, <2>1, <2>8
<1> QED  BY <1>8, <1>12, <1>13, <1>14

\* A file that moves down is older than what is left of its level.
LEMMA MoveKeepsSound ==
    ASSUME LevelAssumption, IInv, NEW c, NEW l \in 0 .. Deepest, ChoiceOK(c, l),
           Install([files EXCEPT ![c.level] = @ \ c.in0, ![c.level + 1] = @ \cup c.in0]),
           comp = <<>>, UNCHANGED <<mem, imm, snapshots, comp, written>>
    PROVE  Sound'
<1>1. /\ mem' = mem /\ imm' = imm /\ snapshots' = snapshots /\ written' = written /\ comp' = <<>>
    OBVIOUS
<1>2. /\ c.level = l /\ c.in0 \subseteq files[l] /\ l \in Level /\ l + 1 \in Level /\ l \in Nat
    BY LevelNumbers DEF ChoiceOK, Level, Deepest
<1>3. PICK fs : fs = [files EXCEPT ![c.level] = @ \ c.in0, ![c.level + 1] = @ \cup c.in0]
    OBVIOUS
<1>4. Install(fs) /\ files' = fs
    BY <1>3 DEF Install
<1>5. /\ files'[l] = files[l] \ c.in0 /\ files'[l + 1] = files[l + 1] \cup c.in0
      /\ \A m \in Level : m # l /\ m # l + 1 => files'[m] = files[m]
    <2>1. l # l + 1
        BY <1>2
    <2> QED  BY <1>2, <1>3, <1>4, <2>1, CurrentFiles DEF IInv
<1> SUFFICES ASSUME spoilt' = {}
             PROVE  Separate' /\ Ordered' /\ Complete'
    BY <1>1 DEF Sound
<1>6. spoilt = {} /\ Separate'
    BY <1>4, NoFlaws
<1>7. Separate /\ Ordered /\ Complete
    BY <1>6 DEF IInv, Sound
<1>8. \A f \in files[l] \ c.in0, g \in c.in0 : Newer(f.ents, g.ents)
    <2>1. PICK w : w = [c |-> c, base |-> files]
        OBVIOUS
    <2>2. w.c = c /\ w.base = files
        BY <2>1
    <2>3. InputsSafe(w)
        BY <1>7, <2>2, ChoiceSafe DEF IInv
    <2> QED  BY <1>2, <2>2, <2>3 DEF InputsSafe
<1>9. \A m \in Level : \A f \in files'[m] :
          \/ f \in files[m] /\ (m = l => f \notin c.in0)
          \/ m = l + 1 /\ f \in c.in0 /\ f \in files[l]
    BY <1>2, <1>5
<1>10. Ordered'
    <2>1. \A m \in Level : \A f \in files'[m] : \E n \in Level : f \in files[n]
        BY <1>2, <1>9
    <2>2. Newer(mem', imm')
          /\ \A m \in Level : \A f \in files'[m] : Newer(mem', f.ents) /\ Newer(imm', f.ents)
        BY <1>1, <1>7, <2>1 DEF Ordered
    <2>3. \A f, g \in files'[0] : f.num > g.num => Newer(f.ents, g.ents)
        <3>1. files'[0] \subseteq files[0]
            BY <1>2, <1>9, LevelNumbers
        <3> QED  BY <1>7, <3>1 DEF Ordered
    <2>4. ASSUME NEW m \in Level, NEW n \in Level, m < n, NEW f \in files'[m], NEW g \in files'[n]
          PROVE  Newer(f.ents, g.ents)
        <3>1. m \in Nat /\ n \in Nat
            BY DEF Level, LevelAssumption
        <3>2. CASE f \in files[m] /\ g \in files[n]
            BY <1>7, <2>4, <3>2 DEF Ordered
        <3>3. CASE m = l + 1 /\ f \in files[l] /\ g \in files[n]
            <4>1. l < n
                BY <1>2, <2>4, <3>1, <3>3
            <4> QED  BY <1>2, <1>7, <3>3, <4>1 DEF Ordered
        <3>4. CASE n = l + 1 /\ g \in c.in0 /\ f \in files[m] /\ (m = l => f \notin c.in0)
            <4>1. m = l \/ m < l
                BY <1>2, <2>4, <3>1, <3>4
            <4>2. CASE m = l
                BY <1>8, <3>4, <4>2
            <4>3. CASE m < l
                BY <1>2, <1>7, <3>4, <4>3 DEF Ordered
            <4> QED  BY <4>1, <4>2, <4>3
        <3>5. ~(m = l + 1 /\ n = l + 1)
            BY <2>4, <3>1, <1>2
        <3> QED  BY <1>9, <3>2, <3>3, <3>4, <3>5
    <2> QED  BY <2>2, <2>3, <2>4 DEF Ordered
<1>11. Complete'
    <2>1. \A e : e \in AllFiles' <=> e \in AllFiles
        <3>1. \A e : e \in AllFiles' <=> \E m \in Level : \E g \in files'[m] : e \in g.ents
            BY DEF AllFiles, Contents
        <3>2. \A e : e \in AllFiles <=> \E m \in Level : \E g \in files[m] : e \in g.ents
            BY DEF AllFiles, Contents
        <3>3. \A m \in Level : \A f \in files'[m] : \E n \in Level : f \in files[n]
            BY <1>2, <1>9
        <3>4. \A m \in Level : \A f \in files[m] : \E n \in Level : f \in files'[n]
            BY <1>2, <1>5
        <3> QED  BY <3>1, <3>2, <3>3, <3>4
    <2>2. Present' = Present
        BY <1>1, <2>1 DEF Present
    <2>3. \A k, s : Scan(k, s)' = Reads(Present', k, s)
        BY DEF Scan, Present, AllFiles
    <2>4. \A k, s : Scan(k, s) = Reads(Present, k, s)
        BY PresentWritten DEF IInv
    <2>5. Readable' = Readable
        BY <1>1 DEF Readable, LastSequence
    <2> QED  BY <1>1, <1>7, <2>2, <2>3, <2>4, <2>5 DEF Complete
<1> QED  BY <1>6, <1>10, <1>11

\* The outputs of a compaction take the place of its inputs.
LEMMA FinishKeepsSound ==
    ASSUME LevelAssumption, IInv, FinishCompaction
    PROVE  Sound'
<1>1. PICK w, out : \E l \in 0 .. Deepest : Finishes(w, l, out)
    BY FinishSteps DEF IInv
<1>2. PICK l \in 0 .. Deepest : Finishes(w, l, out)
    BY <1>1
<1>3. /\ comp = <<w>> /\ WorkOK(w) /\ w.c.level = l /\ out = Outputs(w) /\ Input(w) \in SUBSET written
      /\ l \in Level /\ l + 1 \in Level /\ l # l + 1 /\ l \in Nat
      /\ comp' = <<>> /\ comp # <<>> /\ comp[1] = w
      /\ mem' = mem /\ imm' = imm /\ snapshots' = snapshots /\ written' = written
    BY <1>2 DEF Finishes
<1>4. /\ files'[l] = files[l] \ w.c.in0
      /\ files'[l + 1] = (files[l + 1] \ w.c.in1) \cup NewFiles(out)
      /\ \A m \in Level : m # l /\ m # l + 1 => files'[m] = files[m]
      /\ w.c.in0 \subseteq files[l] /\ w.c.in0 # {} /\ w.c.in1 \subseteq files[l + 1]
    <2>1. LevelsInv
        BY DEF IInv
    <2>2. /\ files' = [m \in Level |-> files'[m]]
          /\ files'[l] = files[l] \ w.c.in0
          /\ files'[l + 1] = (files[l + 1] \ w.c.in1) \cup NewFiles(out)
          /\ \A m \in Level : m # l /\ m # l + 1 => files'[m] = files[m]
          /\ w.c.in0 \subseteq files[l] /\ w.c.in0 # {} /\ w.c.in1 \subseteq files[l + 1]
        BY <1>2, <2>1, FinishedFiles
    <2> QED  BY <2>2
<1>5. /\ \A f \in NewFiles(out) : f.ents \subseteq KeptOf(w)
      /\ \A e : e \in KeptOf(w) <=> \E f \in NewFiles(out) : e \in f.ents
    BY <1>3, NewFilesHold DEF IInv
<1>6. KeptOf(w) \subseteq Input(w)
    BY DEF KeptOf, Kept
<1>7. \A e : e \in Input(w) <=> \E g \in w.c.in0 \cup w.c.in1 : e \in g.ents
    BY DEF Input, Contents
<1> SUFFICES ASSUME spoilt' = {}
             PROVE  Separate' /\ Ordered' /\ Complete'
    BY <1>3 DEF Sound
<1>8. spoilt = {} /\ Separate'
    <2>1. PICK fs : Install(fs)
        BY <1>2 DEF Finishes
    <2> QED  BY <2>1, NoFlaws
<1>9. Separate /\ Ordered /\ Complete /\ InputsSafe(w)
    BY <1>3, <1>8 DEF IInv, Sound
<1>10. /\ \A f \in files[l] \ w.c.in0, g \in w.c.in0 : Newer(f.ents, g.ents)
       /\ \A f \in files[l + 1] \ w.c.in1, g \in w.c.in0 :
              \A d \in f.ents, e \in g.ents : d.key # e.key
       /\ \A m \in Level : m > l + 1 =>
              \A f \in files[m] : \A d \in f.ents, e \in Input(w) :
                  d.key = e.key => e.key \in DeeperKeys(w)
    BY <1>3, <1>9 DEF InputsSafe
<1>11. \A m \in Level : \A f \in files'[m] :
           \/ f \in files[m] /\ (m = l => f \notin w.c.in0) /\ (m = l + 1 => f \notin w.c.in1)
           \/ m = l + 1 /\ f \in NewFiles(out)
    BY <1>3, <1>4
<1>12. \A f \in NewFiles(out) : \A e \in f.ents :
           \E g : e \in g.ents /\ (g \in w.c.in0 \/ g \in w.c.in1)
    BY <1>5, <1>6, <1>7
<1>13. Ordered'
    <2>1. ASSUME NEW A, \A m \in Level : \A f \in files[m] : Newer(A, f.ents)
          PROVE  \A m \in Level : \A f \in files'[m] : Newer(A, f.ents)
        <3>1. ASSUME NEW f \in NewFiles(out)  PROVE Newer(A, f.ents)
            <4> SUFFICES ASSUME NEW a \in A, NEW e \in f.ents, a.key = e.key  PROVE a.seq > e.seq
                BY DEF Newer
            <4>1. PICK g : e \in g.ents /\ (g \in w.c.in0 \/ g \in w.c.in1)
                BY <1>12
            <4>2. Newer(A, g.ents)
                BY <1>3, <1>4, <2>1, <4>1
            <4> QED  BY <4>1, <4>2 DEF Newer
        <3> QED  BY <1>11, <2>1, <3>1
    <2>2. Newer(mem', imm')
          /\ \A m \in Level : \A f \in files'[m] : Newer(mem', f.ents) /\ Newer(imm', f.ents)
        BY <1>3, <1>9, <2>1 DEF Ordered
    <2>3. \A f, g \in files'[0] : f.num > g.num => Newer(f.ents, g.ents)
        <3>1. files'[0] \subseteq files[0]
            BY <1>3, <1>11, LevelNumbers
        <3> QED  BY <1>9, <3>1 DEF Ordered
    <2>4. ASSUME NEW m \in Level, NEW n \in Level, m < n, NEW f \in files'[m], NEW g \in files'[n]
          PROVE  Newer(f.ents, g.ents)
        <3>1. m \in Nat /\ n \in Nat
            BY DEF Level, LevelAssumption
        <3>2. CASE f \in files[m] /\ g \in files[n]
            BY <1>9, <2>4, <3>2 DEF Ordered
        <3>3. CASE m = l + 1 /\ f \in NewFiles(out) /\ g \in files[n]
            <4> SUFFICES ASSUME NEW a \in f.ents, NEW e \in g.ents, a.key = e.key  PROVE a.seq > e.seq
                BY DEF Newer
            <4>1. PICK h : a \in h.ents /\ (h \in w.c.in0 \/ h \in w.c.in1)
                BY <1>12, <3>3
            <4>2. l < n /\ l + 1 < n
                BY <1>3, <2>4, <3>1, <3>3
            <4>3. Newer(h.ents, g.ents)
                BY <1>3, <1>4, <1>9, <3>3, <4>1, <4>2 DEF Ordered
            <4> QED  BY <4>1, <4>3 DEF Newer
        <3>4. CASE /\ n = l + 1 /\ g \in NewFiles(out) /\ f \in files[m]
                   /\ (m = l => f \notin w.c.in0)
            <4> SUFFICES ASSUME NEW a \in f.ents, NEW e \in g.ents, a.key = e.key  PROVE a.seq > e.seq
                BY DEF Newer
            <4>1. PICK h : e \in h.ents /\ (h \in w.c.in0 \/ h \in w.c.in1)
                BY <1>12, <3>4
            <4>2. m = l \/ m < l
                BY <1>3, <2>4, <3>1, <3>4
            <4>3. Newer(f.ents, h.ents)
                <5>1. CASE h \in w.c.in1
                    BY <1>3, <1>4, <1>9, <2>4, <3>4, <5>1 DEF Ordered
                <5>2. CASE h \in w.c.in0 /\ m = l
                    BY <1>10, <3>4, <5>2
                <5>3. CASE h \in w.c.in0 /\ m < l
                    BY <1>3, <1>4, <1>9, <3>4, <5>3 DEF Ordered
                <5> QED  BY <4>1, <4>2, <5>1, <5>2, <5>3
            <4> QED  BY <4>1, <4>3 DEF Newer
        <3>5. ~(m = l + 1 /\ n = l + 1)
            BY <2>4, <3>1, <1>3
        <3> QED  BY <1>11, <3>2, <3>3, <3>4, <3>5
    <2> QED  BY <2>2, <2>3, <2>4 DEF Ordered
<1> DEFINE Left(m, f) == ~(m = l /\ f \in w.c.in0) /\ ~(m = l + 1 /\ f \in w.c.in1)
           left == {e \in written : \E m \in Level : \E f \in files[m] : Left(m, f) /\ e \in f.ents}
           rest == mem \cup imm \cup left
<1>14. /\ rest \in SUBSET written
       /\ \A e : e \in AllFiles <=> e \in Input(w) \cup left
       /\ \A e : e \in AllFiles' <=> e \in KeptOf(w) \cup left
    <2>1. rest \in SUBSET written
        BY DEF IInv, LevelsInv, LevelTypeOK
    <2>2. \A m \in Level : \A f \in files[m] : f.ents \subseteq written
        BY CurrentFiles DEF IInv
    <2>3. ASSUME NEW e  PROVE e \in AllFiles <=> e \in Input(w) \cup left
        <3>1. e \in AllFiles <=> \E m \in Level : \E f \in files[m] : e \in f.ents
            BY InAllFiles
        <3>2. e \in Input(w) => e \in AllFiles
            BY <1>3, <1>4, <1>7, <3>1
        <3>3. ASSUME NEW m \in Level, NEW f \in files[m], e \in f.ents  PROVE e \in Input(w) \cup left
            BY <1>7, <2>2, <3>3
        <3>4. e \in left => e \in AllFiles
            BY <3>1
        <3> QED  BY <3>1, <3>2, <3>3, <3>4
    <2>4. ASSUME NEW e  PROVE e \in AllFiles' <=> e \in KeptOf(w) \cup left
        <3>1. e \in AllFiles' <=> \E m \in Level : \E f \in files'[m] : e \in f.ents
            BY DEF AllFiles, Contents
        <3>2. e \in KeptOf(w) => e \in AllFiles'
            BY <1>3, <1>4, <1>5, <3>1
        <3>3. e \in left => e \in AllFiles'
            <4> SUFFICES ASSUME NEW m \in Level, NEW f \in files[m], Left(m, f), e \in f.ents
                         PROVE  e \in AllFiles'
                OBVIOUS
            <4>1. f \in files'[m]
                BY <1>3, <1>4
            <4> QED  BY <3>1, <4>1
        <3>4. ASSUME NEW m \in Level, NEW f \in files'[m], e \in f.ents  PROVE e \in KeptOf(w) \cup left
            <4>1. CASE f \in files[m] /\ Left(m, f)
                BY <2>2, <3>4, <4>1
            <4>2. CASE f \in NewFiles(out)
                BY <1>5, <3>4, <4>2
            <4> QED  BY <1>3, <1>11, <4>1, <4>2
        <3> QED  BY <3>1, <3>2, <3>3, <3>4
    <2> QED  BY <2>1, <2>3, <2>4
<1>15. ASSUME NEW e \in Input(w), NEW r \in rest, r.key = e.key,
              ObsoleteMarker(e, w.smallest, DeeperKeys(w))
       PROVE  r.seq > e.seq
    <2>1. PICK g : e \in g.ents /\ (g \in w.c.in0 \/ g \in w.c.in1)
        BY <1>7
    <2>2. e.key \notin DeeperKeys(w)
        BY <1>15 DEF ObsoleteMarker
    <2>3. CASE r \in mem \/ r \in imm
        <3>1. Newer(mem, g.ents) /\ Newer(imm, g.ents)
            BY <1>3, <1>4, <1>9, <2>1 DEF Ordered
        <3> QED  BY <1>15, <2>1, <2>3, <3>1 DEF Newer
    <2>4. CASE r \in left
        <3>1. PICK m \in Level : \E f \in files[m] : Left(m, f) /\ r \in f.ents
            BY <2>4
        <3>2. PICK f \in files[m] : Left(m, f) /\ r \in f.ents
            BY <3>1
        <3>3. m \in Nat
            BY DEF Level, LevelAssumption
        <3>4. CASE m < l
            <4>1. Newer(f.ents, g.ents)
                BY <1>3, <1>4, <1>9, <2>1, <3>3, <3>4 DEF Ordered
            <4> QED  BY <1>15, <2>1, <3>2, <4>1 DEF Newer
        <3>5. CASE m = l
            <4>1. Newer(f.ents, g.ents)
                <5>1. CASE g \in w.c.in0
                    BY <1>10, <3>2, <3>5, <5>1
                <5>2. CASE g \in w.c.in1
                    BY <1>3, <1>4, <1>9, <3>5, <5>2 DEF Ordered
                <5> QED  BY <2>1, <5>1, <5>2
            <4> QED  BY <1>15, <2>1, <3>2, <4>1 DEF Newer
        <3>6. CASE m = l + 1
            <4>1. f \in files[l + 1] \ w.c.in1
                BY <3>2, <3>6
            <4>2. CASE g \in w.c.in0
                BY <1>10, <1>15, <2>1, <3>2, <4>1, <4>2
            <4>3. CASE g \in w.c.in1
                <5>1. f # g /\ g \in files[l + 1] /\ l + 1 \in Level \ {0}
                    BY <1>3, <1>4, <4>1, <4>3
                <5>2. ~SharesKey(f, g)
                    BY <1>9, <4>1, <5>1 DEF Separate
                <5> QED  BY <1>15, <2>1, <3>2, <5>2 DEF SharesKey
            <4> QED  BY <2>1, <4>2, <4>3
        <3>7. CASE m > l + 1
            BY <1>10, <1>15, <2>2, <3>2, <3>7
        <3> QED  BY <1>3, <3>3, <3>4, <3>5, <3>6, <3>7
    <2> QED  BY <2>3, <2>4
<1>16. Complete'
    <2>1. Present = Input(w) \cup rest
        BY <1>14 DEF Present
    <2>2. Present' = KeptOf(w) \cup rest
        <3>1. \A e : e \in Present' <=> e \in mem \/ e \in imm \/ e \in AllFiles'
            BY <1>3 DEF Present
        <3>2. \A e : e \in Present' <=> e \in KeptOf(w) \cup rest
            BY <1>14, <3>1
        <3> QED  BY <3>2
    <2> HIDE DEF rest
    <2>3. \A k, s : Scan(k, s)' = Reads(Present', k, s)
        BY DEF Scan, Present, AllFiles
    <2>4. \A k, s : Scan(k, s) = Reads(Present, k, s)
        BY PresentWritten DEF IInv
    <2>5. Readable' = Readable
        BY <1>3 DEF Readable, LastSequence
    <2>6. \A s \in Readable : s \in Nat /\ s >= w.smallest
        <3>1. snapshots \in Seq(Nat) /\ LastSequence \in Nat
            BY FS_CardinalityType DEF IInv, LevelsInv, SnapshotsOK, HistoryOK, LastSequence
        <3>2. /\ w.smallest \in Nat /\ w.smallest <= LastSequence
              /\ \A i \in DOMAIN snapshots : w.smallest <= snapshots[i]
            BY <1>3 DEF WorkOK
        <3>3. \A i \in DOMAIN snapshots : snapshots[i] \in Nat
            BY <3>1, LenProperties
        <3> QED  BY <3>1, <3>2, <3>3 DEF Readable, Range
    <2>7. ASSUME NEW s \in Readable, NEW k \in Key
          PROVE  Reads(KeptOf(w) \cup rest, k, s) = Reads(Input(w) \cup rest, k, s)
        <3>1. PICK input, others, deeper :
                  input = Input(w) /\ others = rest /\ deeper = DeeperKeys(w)
            OBVIOUS
        <3>2. PICK oldest \in Nat : oldest = w.smallest
            BY <1>3 DEF WorkOK
        <3>3. NoOlderLeft(input, others, oldest, deeper)
            BY <1>15, <3>1, <3>2 DEF NoOlderLeft
        <3>4. s \in Nat /\ s >= oldest
            BY <2>6, <3>2
        <3>5. Typed(input \cup others)
            BY <1>3, <1>14, <3>1 DEF IInv, LevelsInv, HistoryOK, Entries, Typed
        <3>6. Reads(Kept(input, oldest, deeper) \cup others, k, s) = Reads(input \cup others, k, s)
            BY <3>3, <3>4, <3>5, KeptReads
        <3> QED  BY <3>1, <3>2, <3>6 DEF KeptOf
    <2> QED  BY <1>3, <1>9, <2>1, <2>2, <2>3, <2>4, <2>5, <2>7 DEF Complete
<1> QED  BY <1>8, <1>13, <1>16

-----------------------------------------------------------------------------
(* Every step, and the theorems.                                           *)

LEMMA ChargeKeeps ==
    ASSUME LevelAssumption, IInv, NEW k, NEW s, ChargeSeek(k, s)
    PROVE  IInv'
<1>1. LevelsInv'
    BY ChargeKeepsLevels DEF IInv
<1>2. UNCHANGED <<mem, imm, files, snapshots, comp, written, spoilt>>
    BY DEF ChargeSeek
<1> QED  BY <1>1, <1>2, OthersKeepSound DEF IInv

LEMMA StartKeeps ==
    ASSUME LevelAssumption, IInv, StartCompaction \/ StartManual
    PROVE  IInv'
<1>1. LevelsInv
    BY DEF IInv
<1>2. UNCHANGED <<mem, imm, files, nextFile, seekFile, snapshots, manual, written, spoilt>>
    BY DEF StartCompaction, StartManual
<1>3. UNCHANGED <<mem, imm, files, snapshots, written, spoilt>>
    BY <1>2
<1>4. \E c : \E l \in 0 .. Deepest : \E isManual :
          ChoiceOK(c, l) /\ (isManual => ManualDue) /\ comp' = <<Compaction(c, isManual)>>
    <2>1. CASE StartCompaction
        <3>1. NeedsCompaction /\ comp' = <<Compaction(Picked, FALSE)>>
            BY <2>1 DEF StartCompaction
        <3> QED  BY <1>1, <3>1, ChosenChoice
    <2>2. CASE StartManual
        <3>1. PICK c : /\ ManualDue /\ RangeInputs(manual[1]) # {}
                       /\ c = Setup(manual[1].level, RangeInputs(manual[1]))
                       /\ comp' = <<Compaction(c, TRUE)>>
            BY <2>2 DEF StartManual
        <3>2. \E l \in 0 .. Deepest : ChoiceOK(c, l)
            BY <1>1, <3>1, ChosenChoice
        <3> QED  BY <3>1, <3>2
    <2> QED  BY <2>1, <2>2
<1>5. PICK c : \E l \in 0 .. Deepest : \E isManual :
          ChoiceOK(c, l) /\ (isManual => ManualDue) /\ comp' = <<Compaction(c, isManual)>>
    BY <1>4
<1>6. PICK l \in 0 .. Deepest : \E isManual :
          ChoiceOK(c, l) /\ (isManual => ManualDue) /\ comp' = <<Compaction(c, isManual)>>
    BY <1>5
<1>7. PICK isManual :
          ChoiceOK(c, l) /\ (isManual => ManualDue) /\ comp' = <<Compaction(c, isManual)>>
    BY <1>6
<1>8. LevelsInv'
    BY <1>1, <1>2, <1>7, StartKeepsLevels
<1>9. Sound'
    BY <1>3, <1>7, StartKeepsSound
<1> QED  BY <1>8, <1>9 DEF IInv

LEMMA MoveKeeps ==
    ASSUME LevelAssumption, IInv, MoveFile
    PROVE  IInv'
<1>1. LevelsInv
    BY DEF IInv
<1>2. PICK c : /\ c = Picked /\ NeedsCompaction /\ comp = <<>>
               /\ Install([files EXCEPT ![c.level] = @ \ c.in0, ![c.level + 1] = @ \cup c.in0])
               /\ UNCHANGED <<mem, imm, nextFile, snapshots, comp, manual, written>>
    BY DEF MoveFile
<1>3. PICK l \in 0 .. Deepest : ChoiceOK(c, l)
    BY <1>1, <1>2, ChosenChoice
<1>4. LevelsInv'
    BY <1>1, <1>2, <1>3, MoveKeepsLevels
<1>5. UNCHANGED <<mem, imm, snapshots, comp, written>>
    BY <1>2
<1>6. Sound'
    BY <1>2, <1>3, <1>5, MoveKeepsSound
<1> QED  BY <1>4, <1>6 DEF IInv

LEMMA LevelsStep ==
    ASSUME LevelAssumption, IInv, [Next]_vars
    PROVE  IInv'
<1>1. LevelsInv
    BY DEF IInv
<1>2. CASE \E k \in Key, del \in BOOLEAN : Write(k, del)
    <2>1. PICK k \in Key, del \in BOOLEAN : Write(k, del)
        BY <1>2
    <2>2. LevelsInv'
        BY <1>1, <2>1, WriteKeepsLevels
    <2> QED  BY <2>1, <2>2, WriteKeepsSound DEF IInv
<1>3. CASE \E i \in 1 .. MaxSnapshots : ReleaseSnapshot(i)
    <2>1. PICK i \in 1 .. MaxSnapshots : ReleaseSnapshot(i)
        BY <1>3
    <2>2. LevelsInv'
        BY <1>1, <2>1, ReleaseKeepsLevels
    <2> QED  BY <2>1, <2>2, SnapshotsKeepSound DEF IInv
<1>4. CASE SwitchMemTable
    BY <1>1, <1>4, SwitchKeepsLevels, SwitchKeepsSound DEF IInv
<1>5. CASE GetSnapshot
    BY <1>1, <1>5, SnapshotKeepsLevels, SnapshotsKeepSound DEF IInv
<1>6. CASE \E k \in Key, s \in 0 .. MaxSeq : ChargeSeek(k, s)
    BY <1>6, ChargeKeeps
<1>7. CASE \/ SetManual \/ ManualDone
           \/ \E l \in 0 .. NumLevels - 2, lo, hi \in ManualKeys : RequestCompaction(l, lo, hi)
    <2>1. /\ LevelsInv'
          /\ UNCHANGED <<mem, imm, files, nextFile, seekFile, snapshots, comp, written, spoilt>>
        BY <1>1, <1>7, ManualKeepsLevels
    <2>2. UNCHANGED <<mem, imm, files, snapshots, comp, written, spoilt>>
        BY <2>1
    <2> QED  BY <2>1, <2>2, OthersKeepSound DEF IInv
<1>8. CASE CompactMemTable
    BY <1>1, <1>8, FlushKeepsLevels, FlushKeepsSound DEF IInv
<1>9. CASE MoveFile
    BY <1>9, MoveKeeps
<1>10. CASE StartCompaction \/ StartManual
    BY <1>10, StartKeeps
<1>11. CASE FinishCompaction
    BY <1>1, <1>11, FinishKeepsLevels, FinishKeepsSound DEF IInv
<1>12. CASE UNCHANGED vars
    BY <1>12, LevelsStutter
<1> QED  BY <1>2, <1>3, <1>4, <1>5, <1>6, <1>7, <1>8, <1>9, <1>10, <1>11, <1>12
         DEF Next, User, Background

LEMMA LevelsInvariant == Spec => []IInv
<1>1. Init => IInv
    BY InitLevels, LevelAssumption
<1>2. IInv /\ [Next]_vars => IInv'
    BY LevelsStep, LevelAssumption
<1> QED  BY <1>1, <1>2, PTL DEF Spec

\* Whatever is flushed, moved or merged, and however far the levels are out of order:
\* a version has only files that are not empty and whose entries were written, no file
\* number is used twice or in two levels, and a manual compaction at work is still
\* asked for (VersionSet::NewFileNumber, VersionSet::Builder, BackgroundCompaction).
THEOREM LevelTypeCorrect == Spec => []LevelTypeOK
<1>1. IInv => LevelTypeOK
    BY DEF IInv, LevelsInv
<1> QED  BY <1>1, LevelsInvariant, PTL

\* As long as no level below 0 has had files that overlap or share a key, DBImpl::Get and
\* an iterator both see, at every snapshot held and at the latest sequence number,
\* exactly the newest write that it covers: writes, flushes and moves of files may
\* happen while a compaction is at work, and what its loop drops (DoCompactionWork,
\* IsBaseLevelForKey) is read by nobody.
THEOREM LevelSnapshotsStable == Spec => []SnapshotsStable
<1>1. IInv => SnapshotsStable
    <2> SUFFICES ASSUME IInv, spoilt = {}, NEW s \in Readable, NEW k \in Key
                 PROVE  Get(k, s) = Reads(written, k, s) /\ Scan(k, s) = Reads(written, k, s)
        BY DEF SnapshotsStable
    <2>1. HistoryOK /\ LevelsOK /\ SnapshotsOK /\ mem \in SUBSET written /\ imm \in SUBSET written
        BY DEF IInv, LevelsInv, LevelTypeOK
    <2>2. Separate /\ Ordered /\ Complete
        BY DEF IInv, Sound
    <2>3. s \in Nat
        <3>1. LastSequence \in Nat
            BY <2>1, FS_CardinalityType DEF HistoryOK, LastSequence
        <3> QED  BY <2>1, <3>1 DEF Readable, Range, SnapshotsOK
    <2>4. Get(k, s) = Scan(k, s)
        BY <2>1, <2>2, <2>3, GetScans, LevelAssumption
    <2>5. Scan(k, s) = Reads(written, k, s)
        BY <2>2 DEF Complete
    <2> QED  BY <2>4, <2>5
<1> QED  BY <1>1, LevelsInvariant, PTL

\* What version_set.cc:346 says of the levels, that entries never hop across them, is
\* true as long as no level below 0 has had files that overlap or share a key: the
\* entries of a key are the newer, the higher the level they are in.
THEOREM LevelEntriesNeverHop == Spec => [](spoilt = {} => EntriesNeverHop)
<1>1. IInv => (spoilt = {} => EntriesNeverHop)
    <2> SUFFICES ASSUME Ordered, NEW l \in Level, NEW m \in Level, l < m,
                        NEW e \in Contents(files[l]), NEW f \in Contents(files[m]), e.key = f.key
                 PROVE  e.seq > f.seq
        BY DEF IInv, Sound, EntriesNeverHop
    <2>1. PICK g \in files[l] : e \in g.ents
        BY DEF Contents
    <2>2. PICK h \in files[m] : f \in h.ents
        BY DEF Contents
    <2> QED  BY <2>1, <2>2 DEF Ordered, Newer
<1> QED  BY <1>1, LevelsInvariant, PTL
=============================================================================
