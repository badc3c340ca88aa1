---------------------------- MODULE LevelDB_proof ----------------------------
(***************************************************************************)
(* Proofs about LevelDB, for every number of threads, calls, flushes,      *)
(* failing file operations and crashes, and every limit of its options:    *)
(* types and queue (BaseInv), file numbers (NumbersInv), files in use      *)
(* (FilesInv), the manifest after a crash (CurrentInv) and sequence        *)
(* numbers (SeqInv).                                                       *)
(***************************************************************************)
EXTENDS LevelDB, FiniteSetTheorems, SequenceTheorems, TLAPS

-----------------------------------------------------------------------------
(* Greatest and least members.                                             *)

LEMMA LeastExists ==
    ASSUME NEW S \in SUBSET Nat, S # {}
    PROVE  Min(S) \in S /\ \A x \in S : Min(S) <= x
<1>1. PICK m \in S : \A k \in S : ~ (<<k, m>> \in OpToRel(<, Nat))
  BY NatLessThanWellFounded, WFMin
<1>2. \A x \in S : m <= x
  <2>1. ASSUME NEW x \in S  PROVE ~ (x < m)
    BY <1>1, <2>1 DEF OpToRel
  <2> QED  BY <2>1
<1> QED  BY <1>2 DEF Min

LEMMA GreatestExists ==
    ASSUME NEW S \in SUBSET Nat, S # {}, NEW b \in Nat, \A x \in S : x <= b
    PROVE  Max(S) \in S /\ \A x \in S : x <= Max(S)
<1> DEFINE below == {b - x : x \in S}
<1>1. below \in SUBSET Nat /\ below # {}
  <2>1. \A x \in S : b - x \in Nat
    OBVIOUS
  <2> QED  BY <2>1
<1>2. PICK m \in below : \A k \in below : m <= k
  <2> HIDE DEF below
  <2> QED  BY <1>1, LeastExists
<1>3. PICK g \in S : m = b - g
  OBVIOUS
<1>4. \A x \in S : g >= x
  <2>1. ASSUME NEW x \in S  PROVE g >= x
    <3>1. b - x \in below
      OBVIOUS
    <3> QED  BY <1>2, <1>3, <3>1
  <2> QED  BY <2>1
<1> QED  BY <1>4 DEF Max

-----------------------------------------------------------------------------
(* The queue of writers.  Every writer in Write is in it, unless it has    *)
(* been told that another has written for it, and is in it once; only its  *)
(* front is awake and at work.                                             *)

FrontPcs == {"room", "roomwait", "log", "sync", "finish", "syncerror"}
WritePcs == {"log", "sync", "finish", "syncerror"}

CallOf == [pc : Pcs \ {"idle"}, id : Nat, sync : BOOLEAN, batch : BOOLEAN, delay : BOOLEAN,
           group : Nat, done : BOOLEAN, ok : BOOLEAN]

InQueue(c) == c.pc \in FrontPcs \cup {"asleep"} \/ (c.pc = "woken" /\ ~c.done)

WriterOK(q, w, c) ==
    /\ InQueue(c) <=> w \in Range(q)
    /\ c.pc \in FrontPcs => q # <<>> /\ w = Head(q)
    /\ InQueue(c) => ~c.done
    /\ c.pc \in WritePcs => c.group \in 1 .. Len(q) /\ c.batch
    /\ c.pc \in {"flush", "flushwait"} => ~c.batch

Queued(q, c) ==
    /\ q \in Seq(Writer) /\ IsInjective(q)
    /\ c \in [Writer -> {Idle} \cup CallOf]
    /\ \A w \in Writer : WriterOK(q, w, c[w])

QueueInv ==
    /\ Queued(queue, call)
    /\ calls \in Nat /\ flushes \in Nat
    /\ db.up # "open" => queue = <<>> /\ call = [w \in Writer |-> Idle]

\* What is left of a queue when its first n writers leave it.
Left(q, n, r) ==
    /\ r \in Seq(Writer) /\ IsInjective(r) /\ Len(r) = Len(q) - n
    /\ \A i \in 1 .. Len(r) : r[i] = q[i + n]
    /\ \A v \in Range(q) : v \in Range(SubSeq(q, 1, n)) <=> v \notin Range(r)
    /\ Range(r) \subseteq Range(q) /\ Range(SubSeq(q, 1, n)) \subseteq Range(q)
    /\ Head(q) \in Range(SubSeq(q, 1, n))
    /\ n < Len(q) => q[n + 1] \in Range(r) /\ q[n + 1] \in Writer

LEMMA QueueLeft ==
    ASSUME NEW q \in Seq(Writer), IsInjective(q), NEW n \in 1 .. Len(q)
    PROVE  Left(q, n, SubSeq(q, n + 1, Len(q)))
<1> DEFINE r == SubSeq(q, n + 1, Len(q))
           first == SubSeq(q, 1, n)
<1>1. /\ n \in Nat /\ Len(q) \in Nat /\ DOMAIN q = 1 .. Len(q)
      /\ \A i \in 1 .. Len(q) : q[i] \in Writer
      /\ \A i, j \in 1 .. Len(q) : q[i] = q[j] => i = j
      /\ n + 1 \in 1 .. Len(q) + 1 /\ n <= Len(q)
  BY DEF IsInjective
<1>2. r \in Seq(Writer) /\ Len(r) = Len(q) - n /\ \A i \in 1 .. Len(r) : r[i] = q[i + n]
  <2>1. \A i \in n + 1 .. Len(q) : q[i] \in Writer
    BY <1>1
  <2>2. /\ r \in Seq(Writer)
        /\ Len(r) = IF n + 1 <= Len(q) THEN Len(q) - (n + 1) + 1 ELSE 0
        /\ \A i \in 1 .. Len(q) - (n + 1) + 1 : r[i] = q[n + 1 + i - 1]
    <3>1. n + 1 \in Int /\ Len(q) \in Int
      BY <1>1
    <3> QED  BY <2>1, <3>1, SubSeqProperties
  <2> HIDE DEF r
  <2>3. Len(r) = Len(q) - n /\ Len(q) - (n + 1) + 1 = Len(q) - n
    <3>1. n \in Nat /\ Len(q) \in Nat /\ n <= Len(q)
      BY <1>1
    <3>2. Len(r) = IF n + 1 <= Len(q) THEN Len(q) - (n + 1) + 1 ELSE 0
      BY <2>2
    <3> QED  BY <3>1, <3>2
  <2>4. ASSUME NEW i \in 1 .. Len(r)  PROVE r[i] = q[i + n]
    <3>1. n + 1 + i - 1 = i + n
      BY <1>1, <2>3
    <3> QED  BY <2>2, <2>3, <3>1
  <2> QED  BY <2>2, <2>3, <2>4
<1>5. DOMAIN first = 1 .. n /\ \A i \in 1 .. n : first[i] = q[i] /\ i \in 1 .. Len(q)
  BY <1>1
<1> HIDE DEF first, r
<1>3. DOMAIN r = 1 .. Len(r) /\ \A i \in 1 .. Len(r) : i + n \in 1 .. Len(q)
  BY <1>1, <1>2
<1>4. IsInjective(r)
  <2>1. ASSUME NEW i \in 1 .. Len(r), NEW j \in 1 .. Len(r), r[i] = r[j]  PROVE i = j
    <3>1. i + n = j + n
      BY <1>1, <1>2, <1>3, <2>1
    <3> QED  BY <1>1, <1>2, <3>1
  <2> QED  BY <1>3, <2>1 DEF IsInjective
<1>6. \A v : v \in Range(r) <=> \E i \in n + 1 .. Len(q) : v = q[i]
  <2>1. ASSUME NEW v \in Range(r)  PROVE \E i \in n + 1 .. Len(q) : v = q[i]
    <3>1. PICK i \in 1 .. Len(r) : v = r[i]
      BY <1>3, <2>1 DEF Range
    <3>2. i + n \in n + 1 .. Len(q) /\ v = q[i + n]
      BY <1>1, <1>2, <3>1
    <3> QED  BY <3>2
  <2>2. ASSUME NEW i \in n + 1 .. Len(q)  PROVE q[i] \in Range(r)
    <3>1. i - n \in 1 .. Len(r) /\ (i - n) + n = i
      BY <1>1, <1>2
    <3>2. r[i - n] = q[i]
      BY <1>2, <3>1
    <3> QED  BY <1>3, <3>1, <3>2 DEF Range
  <2> QED  BY <2>1, <2>2
<1>7. \A v : v \in Range(first) <=> \E i \in 1 .. n : v = q[i]
  BY <1>5 DEF Range
<1>8. \A v : v \in Range(q) <=> \E i \in 1 .. Len(q) : v = q[i]
  BY <1>1 DEF Range
<1>9. Range(r) \subseteq Range(q)
  BY <1>1, <1>6, <1>8
<1>10. Range(first) \subseteq Range(q)
  BY <1>5, <1>7, <1>8
<1>11. ASSUME NEW v \in Range(q)  PROVE v \in Range(first) <=> v \notin Range(r)
  <2>1. PICK i \in 1 .. Len(q) : v = q[i]
    BY <1>8
  <2>2. CASE i <= n
    <3>1. v \in Range(first)
      BY <1>1, <1>7, <2>1, <2>2
    <3>2. ASSUME NEW j \in n + 1 .. Len(q)  PROVE v # q[j]
      BY <1>1, <2>1, <2>2
    <3> QED  BY <1>6, <3>1, <3>2
  <2>3. CASE i > n
    <3>1. v \in Range(r)
      <4>1. i \in n + 1 .. Len(q)
        BY <1>1, <2>3
      <4> QED  BY <1>6, <2>1, <4>1
    <3>2. ASSUME NEW j \in 1 .. n  PROVE v # q[j]
      BY <1>1, <2>1, <2>3
    <3> QED  BY <1>7, <3>1, <3>2
  <2> QED  BY <1>1, <2>2, <2>3
<1>12. Head(q) \in Range(first)
  <2>1. Head(q) = q[1] /\ 1 \in 1 .. n
    BY <1>1
  <2> QED  BY <1>7, <2>1
<1>13. n < Len(q) => q[n + 1] \in Range(r) /\ q[n + 1] \in Writer
  <2>1. n < Len(q) => n + 1 \in n + 1 .. Len(q) /\ n + 1 \in 1 .. Len(q)
    BY <1>1
  <2> QED  BY <1>1, <1>6, <2>1
<1> QED  BY <1>2, <1>4, <1>9, <1>10, <1>11, <1>12, <1>13 DEF first, r, Left

\* Who leaves the queue is told, and the new front is, if it sleeps.
LEMMA LeaveQueued ==
    ASSUME NEW c, Queued(queue, c), queue # <<>>, NEW w \in Writer, w = Head(queue),
           c[w].pc \in FrontPcs, NEW n \in 1 .. Len(queue), NEW ok \in BOOLEAN,
           Leave(w, n, ok, c)
    PROVE  Queued(queue', call')
<1> DEFINE first == Range(SubSeq(queue, 1, n))
           rest  == Range(queue')
<1>1. queue \in Seq(Writer) /\ IsInjective(queue) /\ c \in [Writer -> {Idle} \cup CallOf]
      /\ \A v \in Writer : WriterOK(queue, v, c[v])
  BY DEF Queued
<1>2. Left(queue, n, queue')
  BY <1>1, QueueLeft DEF Leave
<1>3. /\ \A v \in Range(queue) : v \in first <=> v \notin rest
      /\ rest \subseteq Range(queue) /\ first \subseteq Range(queue) /\ w \in first
      /\ n < Len(queue) => queue[n + 1] \in rest /\ queue[n + 1] \in Writer
      /\ queue' \in Seq(Writer) /\ IsInjective(queue')
  BY <1>2 DEF Left
<1>4. call' = [v \in Writer |->
            CASE v = w -> AfterWrite(c[w], ok)
              [] v # w /\ v \in first -> Signalled([c[v] EXCEPT !.done = TRUE, !.ok = ok])
              [] n < Len(queue) /\ v = queue[n + 1] -> Signalled(c[v])
              [] OTHER -> c[v]]
  BY DEF Leave
<1> HIDE DEF first, rest
<1>5. ASSUME NEW v \in Writer
      PROVE  call'[v] \in {Idle} \cup CallOf /\ WriterOK(queue', v, call'[v])
  <2>1. WriterOK(queue, v, c[v]) /\ c[v] \in {Idle} \cup CallOf
    BY <1>1
  <2>2. CASE v = w
    <3>0. c[w] \in CallOf
      <4>1. c[w] \in {Idle} \cup CallOf /\ c[w].pc # "idle"
        BY <1>1 DEF FrontPcs
      <4> QED  BY <4>1 DEF Idle
    <3>1. call'[v] = AfterWrite(c[w], ok) /\ c[w] \in CallOf /\ w \notin rest
      <4>1. w \in Range(queue)
        BY <1>3
      <4>2. call'[v] = AfterWrite(c[w], ok)
        BY <1>3, <1>4, <2>2, <4>1
      <4> QED  BY <1>3, <3>0, <4>1, <4>2
    <3>2. call'[v] \in {Idle} \cup CallOf /\ call'[v].pc \in {"idle", "flush"}
          /\ (call'[v].pc = "flush" => ~call'[v].batch)
      BY <3>1 DEF AfterWrite, Idle, CallOf, Pcs
    <3> QED  BY <2>2, <3>1, <3>2 DEF WriterOK, InQueue, FrontPcs, WritePcs, rest
  <2>3. CASE v # w /\ v \in first
    <3>1. call'[v] = Signalled([c[v] EXCEPT !.done = TRUE, !.ok = ok]) /\ v \notin rest
      BY <1>3, <1>4, <2>3
    <3>2. v \in Range(queue) /\ InQueue(c[v]) /\ c[v].pc \notin FrontPcs
      BY <1>3, <2>1, <2>3 DEF WriterOK
    <3>3. c[v] \in CallOf /\ c[v].pc \in {"asleep", "woken"}
      BY <2>1, <3>2 DEF InQueue, Idle, FrontPcs
    <3>4. call'[v] \in CallOf /\ call'[v].pc = "woken" /\ call'[v].done
      <4> DEFINE d == [c[v] EXCEPT !.done = TRUE, !.ok = ok]
      <4>1. d \in CallOf /\ d.pc \in {"asleep", "woken"} /\ d.done
        BY <3>3 DEF CallOf
      <4> HIDE DEF d
      <4>2. Signalled(d) \in CallOf /\ Signalled(d).pc = "woken" /\ Signalled(d).done
        BY <4>1 DEF Signalled, CallOf, Pcs
      <4> QED  BY <3>1, <4>2 DEF d
    <3> QED  BY <3>1, <3>4 DEF WriterOK, InQueue, FrontPcs, WritePcs, rest
  <2>4. CASE v # w /\ v \notin first /\ n < Len(queue) /\ v = queue[n + 1]
    <3>1. call'[v] = Signalled(c[v]) /\ v \in rest
      BY <1>3, <1>4, <2>4
    <3>2. v \in Range(queue) /\ InQueue(c[v]) /\ c[v].pc \notin FrontPcs /\ ~c[v].done
      BY <1>3, <2>1, <2>4, <3>1 DEF WriterOK
    <3>3. c[v] \in CallOf /\ c[v].pc \in {"asleep", "woken"}
      BY <2>1, <3>2 DEF InQueue, Idle, FrontPcs
    <3>4. call'[v] \in CallOf /\ call'[v].pc = "woken" /\ ~call'[v].done
      BY <3>1, <3>2, <3>3 DEF Signalled, CallOf, Pcs
    <3> QED  BY <3>1, <3>4 DEF WriterOK, InQueue, FrontPcs, WritePcs, rest
  <2>5. CASE v # w /\ v \notin first /\ ~(n < Len(queue) /\ v = queue[n + 1])
    <3>1. call'[v] = c[v] /\ (v \in rest <=> v \in Range(queue)) /\ c[v].pc \notin FrontPcs
      BY <1>3, <1>4, <2>1, <2>5 DEF WriterOK
    <3> QED  BY <2>1, <3>1 DEF WriterOK, InQueue, FrontPcs, WritePcs, rest
  <2> QED  BY <2>2, <2>3, <2>4, <2>5
<1>6. call' \in [Writer -> {Idle} \cup CallOf]
  BY <1>4, <1>5
<1> QED  BY <1>3, <1>5, <1>6 DEF Queued

LEMMA SignalAllQueued ==
    ASSUME NEW q, NEW c, Queued(q, c)
    PROVE  /\ Queued(q, SignalAll(c))
           /\ \A w \in Writer : c[w].pc \notin {"roomwait", "flushwait"} => SignalAll(c)[w] = c[w]
           /\ c = [w \in Writer |-> Idle] => SignalAll(c) = c
<1>1. ASSUME NEW w \in Writer
      PROVE  SignalAll(c)[w] \in {Idle} \cup CallOf /\ WriterOK(q, w, SignalAll(c)[w])
  <2>1. WriterOK(q, w, c[w]) /\ c[w] \in {Idle} \cup CallOf
    BY DEF Queued
  <2>2. CASE c[w].pc = "roomwait"
    <3>1. SignalAll(c)[w] = [c[w] EXCEPT !.pc = "room"] /\ c[w] \in CallOf
      BY <2>1, <2>2 DEF SignalAll, Idle
    <3>2. SignalAll(c)[w] \in CallOf /\ SignalAll(c)[w].pc = "room" /\ SignalAll(c)[w].done = c[w].done
      BY <3>1 DEF CallOf, Pcs
    <3>3. w \in Range(q) /\ q # <<>> /\ w = Head(q) /\ ~c[w].done
      BY <2>1, <2>2 DEF WriterOK, InQueue, FrontPcs
    <3> QED  BY <3>2, <3>3 DEF WriterOK, InQueue, FrontPcs, WritePcs
  <2>3. CASE c[w].pc = "flushwait"
    <3>1. SignalAll(c)[w] = [c[w] EXCEPT !.pc = "flush"] /\ c[w] \in CallOf
      BY <2>1, <2>3 DEF SignalAll, Idle
    <3>2. SignalAll(c)[w] \in CallOf /\ SignalAll(c)[w].pc = "flush"
          /\ SignalAll(c)[w].batch = c[w].batch
      BY <3>1 DEF CallOf, Pcs
    <3>3. w \notin Range(q) /\ ~c[w].batch
      BY <2>1, <2>3 DEF WriterOK, InQueue, FrontPcs
    <3> QED  BY <3>2, <3>3 DEF WriterOK, InQueue, FrontPcs, WritePcs
  <2>4. CASE c[w].pc \notin {"roomwait", "flushwait"}
    <3>1. SignalAll(c)[w] = c[w]
      BY <2>4 DEF SignalAll
    <3> QED  BY <2>1, <3>1
  <2> QED  BY <2>2, <2>3, <2>4
<1>2. SignalAll(c) \in [Writer -> {Idle} \cup CallOf]
  BY <1>1 DEF SignalAll
<1>3. \A w \in Writer : c[w].pc \notin {"roomwait", "flushwait"} => SignalAll(c)[w] = c[w]
  BY DEF SignalAll
<1>4. c = [w \in Writer |-> Idle] => SignalAll(c) = c
  BY DEF SignalAll, Idle
<1> QED  BY <1>1, <1>2, <1>3, <1>4 DEF Queued

\* The front writes for itself, at least, and for no more than there are.
LEMMA GroupIsQueued ==
    ASSUME Queued(queue, call), queue # <<>>, NEW w \in Writer
    PROVE  /\ GroupSize(w) \in 1 .. Len(queue)
           /\ \A i \in 2 .. GroupSize(w) : call[queue[i]].sync => call[w].sync
<1> DEFINE sizes == {n \in DOMAIN queue : /\ Cardinality(Batched(n)) <= MaxGroup
                                          /\ \A i \in 2 .. n : call[queue[i]].sync => call[w].sync}
<1>1. queue \in Seq(Writer) /\ Len(queue) \in Nat /\ DOMAIN queue = 1 .. Len(queue)
      /\ 1 \in DOMAIN queue
  BY DEF Queued
<1>2. Cardinality(Batched(1)) <= MaxGroup
  <2>1. Batched(1) = {} \/ Batched(1) = {1}
    BY DEF Batched
  <2>2. Cardinality(Batched(1)) \in {0, 1}
    BY <2>1, FS_EmptySet, FS_Singleton
  <2> QED  BY <2>2, LevelDBAssumption
<1>3. 1 \in sizes
  BY <1>1, <1>2
<1>4. sizes \in SUBSET Nat /\ \A x \in sizes : x <= Len(queue)
  BY <1>1
<1>5. Max(sizes) \in sizes
  <2> HIDE DEF sizes
  <2> QED  BY <1>1, <1>3, <1>4, GreatestExists
<1>6. GroupSize(w) \in sizes
  BY <1>5 DEF GroupSize
<1> QED  BY <1>1, <1>6

-----------------------------------------------------------------------------
(* The types of the other variables.                                       *)

Entry  == [id : Nat, seq : Nat]
Table  == Nat \X {0, 1}
EditOf == [log : Nat, next : Nat, last : Nat, add : SUBSET Table, del : SUBSET Table]

ImmOf  == {<<>>} \cup {<<m>> : m \in SUBSET Entry}

EditsOf == {<<>>} \cup {<<e>> : e \in EditOf}

DbOf == [up : {"down", "logs", "current", "open", "corrupt"}, mem : SUBSET Entry,
         imm : ImmOf, lastSeq : Nat, nextFile : Nat,
         logfile : Nat, logNumber : Nat, manifest : Nat, version : SUBSET Table,
         pending : SUBSET Nat, error : BOOLEAN]

BgOf == [pc : BgPcs, num : Nat, edit : EditsOf, inputs : SUBSET Table,
         out : {{}} \cup {{n} : n \in Nat}, written : BOOLEAN, inWork : BOOLEAN]

FileOf(R)  == [recs : Seq(R), synced : Nat]
LogOf      == [recs : Seq([ents : SUBSET Entry] \cup {Torn}), synced : Nat]
ManifestOf == [recs : Seq(EditOf \cup {Torn}), synced : Nat]

\* What the tables hold is typed where files are known to exist.
DiskTyped ==
    /\ DOMAIN disk = {"logs", "tables", "manifests", "current"}
    /\ DOMAIN disk.logs \subseteq Nat /\ DOMAIN disk.manifests \subseteq Nat
    /\ DOMAIN disk.tables \subseteq Nat /\ disk.current \in Nat
    /\ \A n \in DOMAIN disk.logs : disk.logs[n] \in LogOf
    /\ \A n \in DOMAIN disk.manifests : disk.manifests[n] \in ManifestOf

\* The sequence numbers in the logs have a greatest.
SeqsBounded ==
    \E b \in Nat : \A n \in DOMAIN disk.logs : \A i \in DOMAIN disk.logs[n].recs :
        ~IsTorn(disk.logs[n].recs[i]) => \A e \in disk.logs[n].recs[i].ents : e.seq <= b

BgTyped ==
    /\ bg \in BgOf
    /\ bg.pc = "build" => db.imm # <<>>
    /\ bg.pc \in {"manifest", "install"} => bg.edit # <<>>

\* Only an open database has a background thread and iterators.
QuietInv ==
    /\ db.up # "open" => bg = BgOff /\ pinned = {}
    /\ db.up \in {"down", "corrupt"} => db = [Closed EXCEPT !.up = db.up]
    /\ db.up \in {"logs", "current"} => db.mem = {} /\ db.imm = <<>> /\ db.pending = {} /\ ~db.error

TypeInv ==
    /\ db \in DbOf /\ DiskTyped /\ SeqsBounded /\ BgTyped /\ QuietInv
    /\ pinned \in SUBSET SUBSET Table
    /\ owed \subseteq [id : Nat, sync : BOOLEAN] /\ behind \subseteq Nat

BaseInv == QueueInv /\ TypeInv

LEMMA InitBase == Init => BaseInv
<1> SUFFICES ASSUME Init PROVE BaseInv
  OBVIOUS
<1>1. db = Closed /\ queue = <<>> /\ call = [w \in Writer |-> Idle] /\ bg = BgOff
      /\ pinned = {} /\ owed = {} /\ behind = {} /\ calls = 0 /\ flushes = 0
  BY DEF Init
<1>2. disk = [logs |-> <<>>, tables |-> <<>>, manifests |-> <<>>, current |-> 0]
  BY DEF Init
<1>3. queue \in Seq(Writer) /\ Range(queue) = {} /\ IsInjective(queue)
  BY <1>1 DEF Range, IsInjective
<1>4. QueueInv
  <2>1. \A w \in Writer : call[w] = Idle
    BY <1>1
  <2>2. \A w \in Writer : WriterOK(queue, w, call[w])
    BY <1>3, <2>1 DEF WriterOK, InQueue, FrontPcs, WritePcs, Idle
  <2> QED  BY <1>1, <1>3, <2>2 DEF QueueInv, Queued
<1>5. db \in DbOf /\ db.up = "down" /\ db = [Closed EXCEPT !.up = db.up]
  BY <1>1 DEF Closed, DbOf, ImmOf
<1>6. bg \in BgOf /\ bg.pc = "off"
  BY <1>1 DEF BgOff, BgOf, BgPcs, EditsOf
<1>7. DOMAIN disk.logs = {} /\ DOMAIN disk.manifests = {} /\ DOMAIN disk.tables = {}
  BY <1>2
<1>8. DiskTyped /\ SeqsBounded
  BY <1>2, <1>7 DEF DiskTyped, SeqsBounded
<1> QED  BY <1>1, <1>4, <1>5, <1>6, <1>8 DEF BaseInv, TypeInv, BgTyped, QuietInv

\* A writer that is in its call has a database that is open.
LEMMA WritingOpen ==
    ASSUME BaseInv, NEW w \in Writer, call[w].pc # "idle"
    PROVE  db.up = "open" /\ call[w] \in CallOf
<1>1. call[w] \in CallOf
  BY DEF BaseInv, QueueInv, Queued, Idle
<1>2. db.up = "open"
  BY DEF BaseInv, QueueInv, Idle
<1> QED  BY <1>1, <1>2

LEMMA FrontWrites ==
    ASSUME BaseInv, NEW w \in Writer, call[w].pc \in FrontPcs
    PROVE  /\ queue \in Seq(Writer) /\ queue # <<>> /\ w = Head(queue) /\ db.up = "open"
           /\ call[w] \in CallOf /\ w \in Range(queue) /\ 1 \in 1 .. Len(queue) /\ ~call[w].done
           /\ call[w].pc \in WritePcs => call[w].group \in 1 .. Len(queue) /\ call[w].batch
<1>1. WriterOK(queue, w, call[w]) /\ queue \in Seq(Writer)
  BY DEF BaseInv, QueueInv, Queued
<1>2. queue # <<>> /\ w = Head(queue) /\ w \in Range(queue) /\ ~call[w].done
      /\ (call[w].pc \in WritePcs => call[w].group \in 1 .. Len(queue) /\ call[w].batch)
  BY <1>1 DEF WriterOK, InQueue
<1>3. call[w].pc # "idle"
  BY DEF FrontPcs
<1>4. 1 \in 1 .. Len(queue)
  BY <1>1, <1>2
<1> QED  BY <1>1, <1>2, <1>3, <1>4, WritingOpen

-----------------------------------------------------------------------------
(* What every step does to the queue.                                      *)

LEMMA OneMoves ==
    ASSUME BaseInv, NEW w \in Writer, NEW c \in {Idle} \cup CallOf, WriterOK(queue, w, c),
           queue' = queue, call' = [call EXCEPT ![w] = c]
    PROVE  Queued(queue', call')
<1>1. Queued(queue, call)
  BY DEF BaseInv, QueueInv
<1>2. \A v \in Writer : call'[v] = IF v = w THEN c ELSE call[v]
  BY <1>1 DEF Queued
<1>3. call' \in [Writer -> {Idle} \cup CallOf]
  BY <1>1 DEF Queued
<1> QED  BY <1>1, <1>2, <1>3 DEF Queued

\* The steps of a writer at the front that stays there.
LEMMA FrontQueued ==
    ASSUME BaseInv, NEW w \in Writer, NEW pc \in FrontPcs, NEW n \in Nat, NEW delay \in BOOLEAN,
           NEW ok \in BOOLEAN, call[w].pc \in FrontPcs, queue' = queue,
           call' = [call EXCEPT ![w] = [@ EXCEPT !.pc = pc, !.group = n, !.delay = delay, !.ok = ok]],
           pc \in WritePcs => n \in 1 .. Len(queue) /\ call[w].batch
    PROVE  Queued(queue', call')
<1> DEFINE c == [call[w] EXCEPT !.pc = pc, !.group = n, !.delay = delay, !.ok = ok]
<1>1. /\ queue # <<>> /\ w = Head(queue) /\ call[w] \in CallOf /\ w \in Range(queue) /\ ~call[w].done
  BY FrontWrites
<1>2. pc \in Pcs \ {"idle"}
  BY DEF FrontPcs, Pcs
<1>3. c \in CallOf
  BY <1>1, <1>2 DEF CallOf
<1>4. c.pc = pc /\ c.done = call[w].done /\ c.group = n /\ c.batch = call[w].batch
  BY <1>1 DEF CallOf
<1>5. pc \notin {"flush", "flushwait", "woken", "asleep"}
  BY DEF FrontPcs
<1> HIDE DEF c
<1>6. WriterOK(queue, w, c)
  BY <1>1, <1>4, <1>5 DEF WriterOK, InQueue
<1> QED  BY <1>3, <1>6, OneMoves DEF c

LEMMA ThreadQueued ==
    ASSUME BaseInv, NEW w \in Writer, Thread(w)
    PROVE  Queued(queue', call')
<1> USE DEF FrontPcs
<1>0. Queued(queue, call) /\ call[w] \in {Idle} \cup CallOf /\ WriterOK(queue, w, call[w])
  BY DEF BaseInv, QueueInv, Queued
<1>1. CASE Wake(w)
  <2>1. call[w] \in CallOf /\ call[w].pc = "woken"
    BY <1>1, WritingOpen DEF Wake
  <2>2. CASE call[w].done
    <3>1. w \notin Range(queue)
      BY <1>0, <2>1, <2>2 DEF WriterOK, InQueue
    <3> DEFINE c == AfterWrite(call[w], call[w].ok)
    <3>2. c \in {Idle} \cup CallOf /\ c.pc \in {"idle", "flush"} /\ (c.pc = "flush" => ~c.batch)
      BY <2>1 DEF AfterWrite, Idle, CallOf, Pcs
    <3>3. call' = [call EXCEPT ![w] = c] /\ queue' = queue
      BY <1>1, <2>2 DEF Wake
    <3> HIDE DEF c
    <3>4. WriterOK(queue, w, c)
      BY <3>1, <3>2 DEF WriterOK, InQueue, WritePcs
    <3> QED  BY <3>2, <3>3, <3>4, OneMoves
  <2>3. CASE ~call[w].done
    <3>1. w \in Range(queue) /\ queue # <<>>
      BY <1>0, <2>1, <2>3 DEF WriterOK, InQueue, Range
    <3> DEFINE pc == IF Head(queue) = w THEN "room" ELSE "asleep"
               c  == [call[w] EXCEPT !.pc = pc]
    <3>2. c \in CallOf /\ c.pc = pc /\ ~c.done
      BY <2>1, <2>3 DEF CallOf, Pcs
    <3>3. call' = [call EXCEPT ![w] = c] /\ queue' = queue
      BY <1>1, <2>3 DEF Wake
    <3> HIDE DEF c
    <3>4. WriterOK(queue, w, c)
      BY <3>1, <3>2 DEF WriterOK, InQueue, WritePcs
    <3> QED  BY <3>2, <3>3, <3>4, OneMoves
  <2> QED  BY <2>2, <2>3
<1>2. ASSUME NEW n \in 1 .. Len(queue), NEW ok \in BOOLEAN, call[w].pc \in FrontPcs, Leave(w, n, ok, call)
      PROVE  Queued(queue', call')
  <2>1. queue # <<>> /\ w = Head(queue)
    BY <1>2, FrontWrites
  <2> QED  BY <1>0, <1>2, <2>1, LeaveQueued
<1>3. CASE RoomError(w)
  BY <1>2, <1>3, FrontWrites DEF RoomError
<1>4. CASE Delay(w)
  <2>1. call[w].pc = "room" /\ call[w] \in CallOf
    BY <1>4, FrontWrites DEF Delay
  <2>2. queue' = queue /\ call' = [call EXCEPT ![w] = [@ EXCEPT !.delay = FALSE]]
    BY <1>4 DEF Delay
  <2>3. [call[w] EXCEPT !.delay = FALSE]
          = [call[w] EXCEPT !.pc = "room", !.group = call[w].group, !.delay = FALSE, !.ok = call[w].ok]
    BY <2>1 DEF CallOf
  <2>4. call[w].group \in Nat /\ call[w].ok \in BOOLEAN
    BY <2>1 DEF CallOf
  <2> QED  BY <2>1, <2>2, <2>3, <2>4, FrontQueued DEF WritePcs
<1>5. CASE WaitForRoom(w)
  <2>1. call[w].pc = "room" /\ call[w] \in CallOf
    BY <1>5, FrontWrites DEF WaitForRoom
  <2>2. queue' = queue /\ call' = [call EXCEPT ![w] = [@ EXCEPT !.pc = "roomwait"]]
    BY <1>5 DEF WaitForRoom
  <2>3. [call[w] EXCEPT !.pc = "roomwait"]
          = [call[w] EXCEPT !.pc = "roomwait", !.group = call[w].group, !.delay = call[w].delay, !.ok = call[w].ok]
    BY <2>1 DEF CallOf
  <2>4. call[w].group \in Nat /\ call[w].ok \in BOOLEAN /\ call[w].delay \in BOOLEAN
    BY <2>1 DEF CallOf
  <2> QED  BY <2>1, <2>2, <2>3, <2>4, FrontQueued DEF WritePcs
<1>6. ASSUME call[w].pc = "room", call[w].batch, queue' = queue,
             call' = [call EXCEPT ![w].pc = "log", ![w].group = GroupSize(w)]
      PROVE  Queued(queue', call')
  <2>1. call[w] \in CallOf /\ queue # <<>>
    BY <1>6, FrontWrites
  <2>2. GroupSize(w) \in 1 .. Len(queue) /\ Len(queue) \in Nat
    BY <1>0, <2>1, GroupIsQueued DEF Queued
  <2>3. call' = [call EXCEPT ![w] = [@ EXCEPT !.pc = "log", !.group = GroupSize(w)]]
    BY <1>0, <1>6 DEF Queued
  <2>4. [call[w] EXCEPT !.pc = "log", !.group = GroupSize(w)]
          = [call[w] EXCEPT !.pc = "log", !.group = GroupSize(w), !.delay = call[w].delay, !.ok = call[w].ok]
    BY <2>1 DEF CallOf
  <2>5. GroupSize(w) \in Nat /\ call[w].ok \in BOOLEAN /\ call[w].delay \in BOOLEAN
    BY <2>1, <2>2 DEF CallOf
  <2> QED  BY <1>6, <2>2, <2>3, <2>4, <2>5, FrontQueued
<1>7. CASE TakeRoom(w)
  BY <1>6, <1>7 DEF TakeRoom, HasRoom
<1>8. CASE SwitchMemTable(w)
  <2>1. CASE call[w].batch
    BY <1>6, <1>8, <2>1 DEF SwitchMemTable
  <2>2. CASE ~call[w].batch
    BY <1>2, <1>8, <2>2, FrontWrites DEF SwitchMemTable
  <2> QED  BY <2>1, <2>2
<1>9. CASE NewLogFails(w)
  BY <1>2, <1>9, FrontWrites DEF NewLogFails
<1>10. ASSUME NEW pc \in {"sync", "finish", "syncerror"}, NEW ok \in BOOLEAN, call[w].pc \in WritePcs,
              queue' = queue, call' = [call EXCEPT ![w] = [@ EXCEPT !.pc = pc, !.ok = ok]]
       PROVE  Queued(queue', call')
  <2>1. call[w] \in CallOf /\ call[w].group \in 1 .. Len(queue) /\ call[w].batch
    BY <1>10, FrontWrites DEF WritePcs
  <2>2. [call[w] EXCEPT !.pc = pc, !.ok = ok]
          = [call[w] EXCEPT !.pc = pc, !.group = call[w].group, !.delay = call[w].delay, !.ok = ok]
    BY <2>1 DEF CallOf
  <2>3. call[w].group \in Nat /\ call[w].delay \in BOOLEAN
    BY <2>1 DEF CallOf
  <2>4. call' = [call EXCEPT ![w] = [@ EXCEPT !.pc = pc, !.group = call[w].group,
                                              !.delay = call[w].delay, !.ok = ok]]
    BY <1>10, <2>2
  <2>5. pc \in FrontPcs /\ call[w].pc \in FrontPcs
    BY <1>10 DEF WritePcs
  <2> QED  BY <1>10, <2>1, <2>3, <2>4, <2>5, FrontQueued
<1>11. ASSUME NEW pc \in {"sync", "finish"}, call[w].pc \in WritePcs, queue' = queue,
              call' = [call EXCEPT ![w].pc = pc]
       PROVE  Queued(queue', call')
  <2>1. call[w] \in CallOf
    BY <1>11, FrontWrites DEF WritePcs
  <2>2. [call[w] EXCEPT !.pc = pc] = [call[w] EXCEPT !.pc = pc, !.ok = call[w].ok] /\ call[w].ok \in BOOLEAN
    BY <2>1 DEF CallOf
  <2>3. call' = [call EXCEPT ![w] = [@ EXCEPT !.pc = pc, !.ok = call[w].ok]]
    BY <1>11, <2>2
  <2> QED  BY <1>10, <1>11, <2>2, <2>3
<1>12. ASSUME NEW pc \in {"finish", "syncerror"}, call[w].pc \in WritePcs, queue' = queue,
              call' = [call EXCEPT ![w].pc = pc, ![w].ok = FALSE]
       PROVE  Queued(queue', call')
  <2>1. call' = [call EXCEPT ![w] = [@ EXCEPT !.pc = pc, !.ok = FALSE]]
    BY <1>0, <1>12 DEF Queued
  <2> QED  BY <1>10, <1>12, <2>1
<1>13. CASE AddRecord(w)
  BY <1>11, <1>13 DEF AddRecord, WritePcs
<1>14. CASE AddRecordFails(w)
  BY <1>12, <1>14 DEF AddRecordFails, WritePcs
<1>15. CASE SyncLog(w)
  BY <1>11, <1>15 DEF SyncLog, WritePcs
<1>16. CASE SyncLogFails(w)
  BY <1>12, <1>16 DEF SyncLogFails, WritePcs
<1>17. CASE Finish(w)
  <2>1. call[w].pc \in WritePcs /\ call[w].pc \in FrontPcs /\ call[w].pc # "roomwait"
        /\ call[w].pc # "flushwait"
    BY <1>17 DEF Finish, WritePcs
  <2>2. /\ queue # <<>> /\ w = Head(queue) /\ call[w].group \in 1 .. Len(queue)
        /\ call[w].ok \in BOOLEAN
    BY <2>1, FrontWrites DEF CallOf
  <2>3. CASE call[w].pc = "finish"
    BY <1>2, <1>17, <2>1, <2>2, <2>3 DEF Finish
  <2>4. CASE call[w].pc # "finish"
    <3>1. Leave(w, call[w].group, FALSE, SignalAll(call))
      BY <1>17, <2>4 DEF Finish
    <3>2. Queued(queue, SignalAll(call)) /\ SignalAll(call)[w] = call[w]
      BY <1>0, <2>1, SignalAllQueued
    <3> QED  BY <2>1, <2>2, <3>1, <3>2, LeaveQueued
  <2> QED  BY <2>3, <2>4
<1>18. CASE WaitForFlush(w)
  <2>1. call[w].pc = "flush" /\ call[w] \in CallOf /\ queue' = queue
    BY <1>18, WritingOpen DEF WaitForFlush
  <2>2. w \notin Range(queue) /\ ~call[w].batch
    BY <1>0, <2>1 DEF WriterOK, InQueue
  <2> DEFINE c == [call[w] EXCEPT !.pc = "flushwait"]
  <2>3. c \in CallOf /\ c.pc = "flushwait" /\ ~c.batch
    BY <2>1, <2>2 DEF CallOf, Pcs
  <2>4. WriterOK(queue, w, c)
    <3> HIDE DEF c
    <3> QED  BY <2>2, <2>3 DEF WriterOK, InQueue, WritePcs
  <2>5. WriterOK(queue, w, Idle)
    BY <2>2 DEF WriterOK, InQueue, WritePcs, Idle
  <2>6. call' = [call EXCEPT ![w] = Idle] \/ call' = [call EXCEPT ![w] = c]
    BY <1>18 DEF WaitForFlush
  <2> HIDE DEF c
  <2> QED  BY <2>1, <2>3, <2>4, <2>5, <2>6, OneMoves
<1> QED  BY <1>1, <1>3, <1>4, <1>5, <1>7, <1>8, <1>9, <1>13, <1>14, <1>15, <1>16, <1>17, <1>18 DEF Thread

\* An open database stays open but for a crash, and a closed one has no writers.
LEMMA StaysOpen ==
    ASSUME BaseInv, \/ \E w \in Writer : Thread(w) \/ \E sync, batch \in BOOLEAN : Call(w, sync, batch)
                    \/ Background \/ PinVersion \/ UnpinVersion
    PROVE  db'.up = db.up
<1> USE DEF BaseInv, TypeInv, DbOf
<1>1. ASSUME NEW w \in Writer, Thread(w)  PROVE db'.up = db.up
  BY <1>1 DEF Thread, Wake, RoomError, Delay, WaitForRoom, TakeRoom, SwitchMemTable, NewLogFails,
              AddRecord, AddRecordFails, SyncLog, SyncLogFails, Finish, WaitForFlush, OverToLog, Failed
<1>2. ASSUME Background  PROVE db'.up = db.up
  BY <1>2 DEF Background, NothingToDo, StartFlush, BuildTable, BuildTableFails, StartMove, StartCompaction,
              OpenOutput, WriteOutput, EndWork, WorkFails, WriteManifest, WriteManifestFails,
              InstallVersion, Failed
<1> QED  BY <1>1, <1>2 DEF Call, PinVersion, UnpinVersion

LEMMA CallQueued ==
    ASSUME BaseInv, NEW w \in Writer, NEW sync \in BOOLEAN, NEW batch \in BOOLEAN, Call(w, sync, batch)
    PROVE  Queued(queue', call')
<1>0. /\ queue \in Seq(Writer) /\ IsInjective(queue) /\ call \in [Writer -> {Idle} \cup CallOf]
      /\ \A v \in Writer : WriterOK(queue, v, call[v])
      /\ calls \in Nat /\ flushes \in Nat /\ call[w].pc = "idle"
      /\ queue' = Append(queue, w)
  BY DEF BaseInv, QueueInv, Queued, Call
<1>1. w \notin Range(queue)
  BY <1>0 DEF WriterOK, InQueue, FrontPcs
<1> DEFINE pc == IF queue = <<>> THEN "room" ELSE "asleep"
           c  == [pc |-> pc, id |-> calls', sync |-> sync, batch |-> batch, delay |-> batch,
                  group |-> 0, done |-> FALSE, ok |-> TRUE]
<1>2. call' = [call EXCEPT ![w] = c]
  BY DEF Call
<1>3. c \in CallOf /\ c.pc = pc /\ ~c.done
  <2>1. calls' \in Nat
    BY <1>0 DEF Call
  <2> QED  BY <2>1 DEF CallOf, Pcs
<1> HIDE DEF c
<1>4. /\ queue' \in Seq(Writer) /\ Len(queue') = Len(queue) + 1
      /\ \A i \in 1 .. Len(queue) : queue'[i] = queue[i]
      /\ queue'[Len(queue) + 1] = w /\ queue' # <<>>
  BY <1>0, AppendProperties
<1>5. Len(queue) \in Nat /\ DOMAIN queue = 1 .. Len(queue) /\ DOMAIN queue' = 1 .. Len(queue) + 1
  BY <1>0, <1>4
<1>6. \A v : v \in Range(queue') <=> v \in Range(queue) \/ v = w
  <2>1. ASSUME NEW v \in Range(queue')  PROVE v \in Range(queue) \/ v = w
    <3>1. PICK i \in 1 .. Len(queue) + 1 : v = queue'[i]
      BY <1>5 DEF Range
    <3>2. i \in 1 .. Len(queue) \/ i = Len(queue) + 1
      BY <1>5
    <3> QED  BY <1>4, <1>5, <3>1, <3>2 DEF Range
  <2>2. Len(queue) + 1 \in DOMAIN queue' /\ \A i \in DOMAIN queue : i \in DOMAIN queue'
    BY <1>5
  <2>3. w \in Range(queue')
    BY <1>4, <2>2 DEF Range
  <2>4. \A v \in Range(queue) : v \in Range(queue')
    BY <1>4, <1>5, <2>2 DEF Range
  <2> QED  BY <2>1, <2>3, <2>4
<1>7. IsInjective(queue')
  <2>1. ASSUME NEW i \in 1 .. Len(queue) + 1, NEW j \in 1 .. Len(queue) + 1, queue'[i] = queue'[j]
        PROVE  i = j
    <3>1. \A k \in 1 .. Len(queue) : queue'[k] \in Range(queue)
      BY <1>4, <1>5 DEF Range
    <3>2. \A k \in 1 .. Len(queue) + 1 : k \in 1 .. Len(queue) \/ k = Len(queue) + 1
      BY <1>5
    <3>3. CASE i \in 1 .. Len(queue) /\ j \in 1 .. Len(queue)
      BY <1>0, <1>4, <1>5, <2>1, <3>3 DEF IsInjective
    <3>4. CASE i = Len(queue) + 1
      BY <1>1, <1>4, <2>1, <3>1, <3>2, <3>4
    <3>5. CASE j = Len(queue) + 1
      BY <1>1, <1>4, <2>1, <3>1, <3>2, <3>5
    <3> QED  BY <3>2, <3>3, <3>4, <3>5
  <2> QED  BY <1>5, <2>1 DEF IsInjective
<1>8. /\ queue # <<>> => Head(queue') = Head(queue)
      /\ queue = <<>> => Head(queue') = w
  <2>1. Head(queue') = queue'[1]
    BY <1>4
  <2>2. queue # <<>> => Head(queue) = queue[1] /\ 1 \in 1 .. Len(queue)
    BY <1>0
  <2>3. queue = <<>> => Len(queue) + 1 = 1
    BY <1>0
  <2> QED  BY <1>4, <2>1, <2>2, <2>3
<1>9. ASSUME NEW v \in Writer  PROVE WriterOK(queue', v, call'[v])
  <2>1. CASE v = w
    <3>1. call'[v] = c
      BY <1>0, <1>2, <2>1
    <3> QED  BY <1>3, <1>4, <1>6, <1>8, <2>1, <3>1 DEF WriterOK, InQueue, FrontPcs, WritePcs
  <2>2. CASE v # w
    <3>1. call'[v] = call[v] /\ WriterOK(queue, v, call[v]) /\ (v \in Range(queue') <=> v \in Range(queue))
      BY <1>0, <1>2, <1>6, <2>2
    <3>2. call[v].pc \in FrontPcs => queue' # <<>> /\ v = Head(queue')
      BY <1>4, <1>8, <3>1 DEF WriterOK
    <3>3. call[v].pc \in WritePcs => call[v].group \in 1 .. Len(queue') /\ call[v].batch
      BY <1>4, <1>5, <3>1 DEF WriterOK
    <3> QED  BY <3>1, <3>2, <3>3 DEF WriterOK
  <2> QED  BY <2>1, <2>2
<1>10. call' \in [Writer -> {Idle} \cup CallOf]
  BY <1>0, <1>2, <1>3
<1> QED  BY <1>4, <1>7, <1>9, <1>10 DEF Queued

LEMMA QueueStep == BaseInv /\ [Next]_vars => QueueInv'
<1> SUFFICES ASSUME BaseInv, [Next]_vars  PROVE QueueInv'
  OBVIOUS
<1>0. Queued(queue, call) /\ calls \in Nat /\ flushes \in Nat
      /\ (db.up # "open" => queue = <<>> /\ call = [w \in Writer |-> Idle])
  BY DEF BaseInv, QueueInv
<1>1. CASE UNCHANGED vars
  BY <1>0, <1>1 DEF vars, counters, QueueInv
<1>2. ASSUME NEW w \in Writer, Thread(w)  PROVE QueueInv'
  <2>1. call[w].pc # "idle"
    BY <1>2 DEF Thread, Wake, RoomError, Delay, WaitForRoom, TakeRoom, SwitchMemTable, NewLogFails,
                AddRecord, AddRecordFails, SyncLog, SyncLogFails, Finish, WaitForFlush
  <2>2. db'.up = "open"
    BY <1>2, <2>1, StaysOpen, WritingOpen
  <2>3. UNCHANGED <<calls, flushes>>
    BY <1>2 DEF Thread, Wake, RoomError, Delay, WaitForRoom, TakeRoom, SwitchMemTable, NewLogFails,
                AddRecord, AddRecordFails, SyncLog, SyncLogFails, Finish, WaitForFlush, counters
  <2> QED  BY <1>0, <1>2, <2>2, <2>3, ThreadQueued DEF QueueInv
<1>3. ASSUME NEW w \in Writer, NEW sync \in BOOLEAN, NEW batch \in BOOLEAN, Call(w, sync, batch)
      PROVE  QueueInv'
  <2>1. db'.up = "open" /\ calls' \in Nat /\ flushes' \in Nat
    BY <1>0, <1>3 DEF Call
  <2> QED  BY <1>3, <2>1, CallQueued DEF QueueInv
<1>4. CASE Background
  <2>1. UNCHANGED <<queue, calls, flushes>> /\ call' \in {call, SignalAll(call)}
    BY <1>4 DEF Background, NothingToDo, StartFlush, BuildTable, BuildTableFails, StartMove, StartCompaction,
                OpenOutput, WriteOutput, EndWork, WorkFails, WriteManifest, WriteManifestFails,
                InstallVersion, FlushEnded, Ended, counters
  <2>2. db'.up = db.up
    BY <1>4, StaysOpen
  <2>3. Queued(queue, SignalAll(call)) /\ (call = [w \in Writer |-> Idle] => SignalAll(call) = call)
    BY <1>0, SignalAllQueued
  <2> QED  BY <1>0, <2>1, <2>2, <2>3 DEF QueueInv
<1>5. CASE PinVersion \/ UnpinVersion
  <2>1. UNCHANGED <<queue, call, db, calls, flushes>>
    BY <1>5 DEF PinVersion, UnpinVersion, counters
  <2> QED  BY <1>0, <2>1 DEF QueueInv
<1>6. CASE Open
  <2>1. db.up # "open" /\ UNCHANGED <<queue, call, calls, flushes>>
    BY <1>6 DEF Open, NewDB, Recover, RecoverLog, NewManifest, SetCurrent, OpenStep, counters
  <2> QED  BY <1>0, <2>1 DEF QueueInv
<1>7. CASE ProcessCrash \/ MachineCrash
  <2>1. queue' = <<>> /\ call' = [w \in Writer |-> Idle] /\ UNCHANGED <<calls, flushes>>
    BY <1>7 DEF ProcessCrash, MachineCrash, Crash
  <2>2. queue' \in Seq(Writer) /\ Range(queue') = {} /\ IsInjective(queue')
    BY <2>1 DEF Range, IsInjective
  <2>3. \A w \in Writer : call'[w] = Idle
    BY <2>1
  <2>4. \A w \in Writer : WriterOK(queue', w, call'[w])
    BY <2>2, <2>3 DEF WriterOK, InQueue, FrontPcs, WritePcs, Idle
  <2> QED  BY <1>0, <2>1, <2>2, <2>4 DEF QueueInv, Queued
<1> QED  BY <1>1, <1>2, <1>3, <1>4, <1>5, <1>6, <1>7 DEF Next

-----------------------------------------------------------------------------
(* The entries of a group: one for every batch, with numbers of their own  *)
(* after the last.                                                         *)

LEMMA BatchedGrows ==
    ASSUME NEW n \in Nat
    PROVE  /\ Batched(n) \subseteq 1 .. n /\ IsFiniteSet(Batched(n)) /\ Cardinality(Batched(n)) \in Nat
           /\ \A i \in 1 .. n : Cardinality(Batched(i)) <= Cardinality(Batched(n))
           /\ \A i \in Batched(n) : 1 <= Cardinality(Batched(i))
           /\ \A i, j \in Batched(n) : i < j => Cardinality(Batched(i)) < Cardinality(Batched(j))
<1>1. ASSUME NEW k \in Nat
      PROVE  Batched(k) \subseteq 1 .. k /\ IsFiniteSet(Batched(k)) /\ Cardinality(Batched(k)) \in Nat
  <2>1. Batched(k) \subseteq 1 .. k
    BY DEF Batched
  <2>2. IsFiniteSet(1 .. k)
    BY FS_Interval
  <2> QED  BY <2>1, <2>2, FS_Subset, FS_CardinalityType
<1>2. ASSUME NEW i \in 1 .. n  PROVE Cardinality(Batched(i)) <= Cardinality(Batched(n))
  <2>1. Batched(i) \subseteq Batched(n)
    BY DEF Batched
  <2> QED  BY <1>1, <2>1, FS_Subset
<1>3. ASSUME NEW i \in Batched(n)  PROVE i \in 1 .. n /\ i \in Nat /\ i \in Batched(i)
  BY DEF Batched
<1>4. ASSUME NEW i \in Batched(n)  PROVE 1 <= Cardinality(Batched(i))
  <2>1. {i} \subseteq Batched(i)
    BY <1>3
  <2>2. Cardinality({i}) <= Cardinality(Batched(i)) /\ Cardinality({i}) = 1
    BY <1>1, <1>3, <2>1, FS_Subset, FS_Singleton
  <2> QED  BY <2>2
<1>5. ASSUME NEW i \in Batched(n), NEW j \in Batched(n), i < j
      PROVE  Cardinality(Batched(i)) < Cardinality(Batched(j))
  <2>1. i \in Nat /\ j \in Nat /\ IsFiniteSet(Batched(i)) /\ IsFiniteSet(Batched(j))
        /\ Cardinality(Batched(i)) \in Nat /\ Cardinality(Batched(j)) \in Nat
    BY <1>1, <1>3
  <2>2. j \notin Batched(i)
    BY <1>5, <2>1 DEF Batched
  <2>3. Batched(i) \cup {j} \subseteq Batched(j)
    BY <1>3, <1>5, <2>1 DEF Batched
  <2>4. Cardinality(Batched(i) \cup {j}) = Cardinality(Batched(i)) + 1
    BY <2>1, <2>2, FS_AddElement
  <2>5. Cardinality(Batched(i) \cup {j}) <= Cardinality(Batched(j))
    BY <2>1, <2>3, FS_Subset
  <2> QED  BY <2>1, <2>4, <2>5
<1> QED  BY <1>1, <1>2, <1>4, <1>5

LEMMA GroupTyped ==
    ASSUME BaseInv, NEW w \in Writer, call[w].pc \in WritePcs
    PROVE  /\ GroupEntries(w) \subseteq Entry /\ Cardinality(GroupEntries(w)) \in Nat
           /\ \A e \in GroupEntries(w) : /\ db.lastSeq < e.seq
                                         /\ e.seq <= db.lastSeq + Cardinality(GroupEntries(w))
           /\ \A e, f \in GroupEntries(w) : e.seq = f.seq => e = f
<1> DEFINE n == call[w].group
           B == Batched(n)
           seq(i) == db.lastSeq + Cardinality(Batched(i))
           entry == [i \in B |-> [id |-> call[queue[i]].id, seq |-> seq(i)]]
<1>1. n \in 1 .. Len(queue) /\ n \in Nat /\ queue \in Seq(Writer) /\ db.lastSeq \in Nat
  BY FrontWrites DEF WritePcs, FrontPcs, BaseInv, TypeInv, DbOf
<1>2. ASSUME NEW i \in B
      PROVE  i \in 1 .. n /\ Cardinality(Batched(i)) \in Nat /\ call[queue[i]].id \in Nat
  <2>0. B \subseteq 1 .. n
    BY <1>1, BatchedGrows
  <2>1. i \in 1 .. n /\ i \in Nat /\ i \in 1 .. Len(queue)
    <3>1. i \in 1 .. n
      BY <2>0
    <3> QED  BY <1>1, <3>1
  <2>2. queue[i] \in Writer /\ queue[i] \in Range(queue)
    BY <1>1, <2>1 DEF Range
  <2>3. WriterOK(queue, queue[i], call[queue[i]]) /\ call[queue[i]] \in {Idle} \cup CallOf
    BY <2>2 DEF BaseInv, QueueInv, Queued
  <2>4. call[queue[i]].pc # "idle"
    BY <2>2, <2>3 DEF WriterOK, InQueue, FrontPcs
  <2>5. call[queue[i]].id \in Nat
    BY <2>3, <2>4 DEF Idle, CallOf
  <2> QED  BY <2>1, <2>5, BatchedGrows
<1>3. /\ IsFiniteSet(B) /\ Cardinality(B) \in Nat
      /\ \A i \in 1 .. n : Cardinality(Batched(i)) <= Cardinality(B)
      /\ \A i \in B : 1 <= Cardinality(Batched(i))
      /\ \A i, j \in B : i < j => Cardinality(Batched(i)) < Cardinality(Batched(j))
  BY <1>1, BatchedGrows
<1>4. \A i \in B : /\ entry[i] \in Entry /\ entry[i].seq = seq(i) /\ seq(i) \in Nat
                   /\ db.lastSeq < seq(i) /\ seq(i) <= db.lastSeq + Cardinality(B)
  BY <1>1, <1>2, <1>3 DEF Entry
<1>5. \A i, j \in B : seq(i) = seq(j) => i = j
  <2>1. ASSUME NEW i \in B, NEW j \in B, seq(i) = seq(j)  PROVE i = j
    <3>1. ~ (i < j) /\ ~ (j < i)
      BY <1>1, <1>2, <1>3, <2>1
    <3> QED  BY <1>1, <1>2, <3>1
  <2> QED  BY <2>1
<1>6. GroupEntries(w) = {entry[i] : i \in B}
  BY DEF GroupEntries
<1> HIDE DEF seq, B
<1>7. entry \in Injection(B, GroupEntries(w)) /\ entry \in Surjection(B, GroupEntries(w))
  <2>1. \A i \in B : entry[i] = [id |-> call[queue[i]].id, seq |-> seq(i)] /\ DOMAIN entry = B
    OBVIOUS
  <2> HIDE DEF entry
  <2>2. entry \in [B -> GroupEntries(w)]
    BY <1>6, <2>1 DEF entry
  <2>3. \A i, j \in B : entry[i] = entry[j] => i = j
    BY <1>4, <1>5
  <2> QED  BY <1>6, <2>2, <2>3 DEF Injection, Surjection, IsInjective
<1>8. Cardinality(GroupEntries(w)) = Cardinality(B)
  BY <1>3, <1>7, FS_Surjection
<1> HIDE DEF entry
<1>9. \A e \in GroupEntries(w) : \E i \in B : e = entry[i]
  BY <1>6
<1>10. \A e \in GroupEntries(w) : /\ e \in Entry /\ db.lastSeq < e.seq
                                  /\ e.seq <= db.lastSeq + Cardinality(GroupEntries(w))
  BY <1>4, <1>8, <1>9
<1>11. ASSUME NEW e \in GroupEntries(w), NEW f \in GroupEntries(w), e.seq = f.seq  PROVE e = f
  <2>1. PICK i \in B : e = entry[i]
    BY <1>9
  <2>2. PICK j \in B : f = entry[j]
    BY <1>9
  <2>3. seq(i) = seq(j)
    BY <1>4, <1>11, <2>1, <2>2
  <2> QED  BY <1>5, <2>1, <2>2, <2>3
<1> QED  BY <1>3, <1>8, <1>10, <1>11

-----------------------------------------------------------------------------
(* Files that are read as far as they are whole.                           *)

LEMMA TornRecords ==
    /\ IsTorn(Torn)
    /\ \A e \in EditOf : ~IsTorn(e)
    /\ \A r \in [ents : SUBSET Entry] : ~IsTorn(r)
    /\ \A r \in EditOf \cup {Torn} : ~IsTorn(r) => r \in EditOf
    /\ \A r \in [ents : SUBSET Entry] \cup {Torn} : ~IsTorn(r) => r \in [ents : SUBSET Entry]
<1>1. IsTorn(Torn)
  BY DEF IsTorn, Torn
<1>2. \A e \in EditOf : ~IsTorn(e)
  BY DEF IsTorn, EditOf
<1>3. \A r \in [ents : SUBSET Entry] : ~IsTorn(r)
  BY DEF IsTorn
<1> QED  BY <1>1, <1>2, <1>3

LEMMA WholeRecords ==
    ASSUME NEW R, NEW f, f.recs \in Seq(R)
    PROVE  /\ Whole(f) \subseteq 1 .. Len(f.recs)
           /\ \A i \in Whole(f) : ~IsTorn(f.recs[i]) /\ \A j \in 1 .. i : j \in Whole(f)
<1>1. Len(f.recs) \in Nat /\ DOMAIN f.recs = 1 .. Len(f.recs)
  OBVIOUS
<1>2. ASSUME NEW i \in Whole(f)
      PROVE  i \in 1 .. Len(f.recs) /\ ~IsTorn(f.recs[i]) /\ \A j \in 1 .. i : j \in Whole(f)
  BY <1>1 DEF Whole
<1> QED  BY <1>2

\* A manifest that can be read has a last edit.
LEMMA ReadableManifest ==
    ASSUME NEW m \in ManifestOf, Readable(m)
    PROVE  \E k \in 1 .. Len(m.recs) : /\ Whole(m) = 1 .. k /\ k >= Len(m.recs) - 1
                                       /\ LastEdit(m) = m.recs[k] /\ LastEdit(m) \in EditOf
<1> DEFINE n == Len(m.recs)
<1>1. /\ m.recs \in Seq(EditOf \cup {Torn}) /\ n \in Nat /\ DOMAIN m.recs = 1 .. n /\ n >= 1
      /\ \A i \in 1 .. n : m.recs[i] \in EditOf \cup {Torn} /\ (IsTorn(m.recs[i]) => i = n /\ i > 1)
  BY DEF ManifestOf, Readable
<1>2. PICK k \in 1 .. n : k >= n - 1 /\ (~IsTorn(m.recs[n]) => k = n) /\ (IsTorn(m.recs[n]) => k = n - 1)
  <2>1. CASE IsTorn(m.recs[n])
    <3>1. n > 1 /\ n - 1 \in 1 .. n
      BY <1>1, <2>1
    <3>2. n - 1 >= n - 1 /\ (~IsTorn(m.recs[n]) => n - 1 = n)
      BY <1>1, <2>1
    <3> HIDE DEF n
    <3> QED  BY <2>1, <3>1, <3>2
  <2>2. CASE ~IsTorn(m.recs[n])
    BY <1>1, <2>2
  <2> QED  BY <2>1, <2>2
<1>3. \A i \in 1 .. k : i \in 1 .. n /\ ~IsTorn(m.recs[i])
  BY <1>1, <1>2
<1>4. Whole(m) = 1 .. k
  <2>1. ASSUME NEW i \in 1 .. k  PROVE i \in Whole(m)
    BY <1>1, <1>3 DEF Whole
  <2>2. ASSUME NEW i \in Whole(m)  PROVE i \in 1 .. k
    <3>1. i \in 1 .. n /\ ~IsTorn(m.recs[i])
      BY <1>1, WholeRecords
    <3> QED  BY <1>1, <1>2, <3>1
  <2> QED  BY <2>1, <2>2
<1>5. Max(1 .. k) = k
  <2>1. 1 .. k \in SUBSET Nat /\ k \in Nat /\ k \in 1 .. k /\ \A x \in 1 .. k : x <= k
    BY <1>1
  <2>2. Max(1 .. k) \in 1 .. k /\ k <= Max(1 .. k)
    BY <2>1, GreatestExists
  <2> QED  BY <2>1, <2>2
<1>6. m.recs[k] \in EditOf
  BY <1>1, <1>3, TornRecords
<1> QED  BY <1>2, <1>4, <1>5, <1>6 DEF LastEdit

\* The manifest names files.
LEMMA VersionTyped ==
    ASSUME NEW m \in ManifestOf
    PROVE  VersionOf(m) \subseteq Table
<1>1. ASSUME NEW i \in Whole(m)  PROVE m.recs[i].add \subseteq Table
  <2>1. m.recs \in Seq(EditOf \cup {Torn})
    BY DEF ManifestOf
  <2>2. m.recs[i] \in EditOf \cup {Torn} /\ ~IsTorn(m.recs[i])
    BY <2>1, WholeRecords
  <2> QED  BY <2>2, TornRecords DEF EditOf
<1> QED  BY <1>1 DEF VersionOf

-----------------------------------------------------------------------------
(* What the operations on files do to their types.                         *)

BoundedLog(f, b) == \A i \in DOMAIN f.recs : ~IsTorn(f.recs[i]) => \A e \in f.recs[i].ents : e.seq <= b

LEMMA AppendedTyped ==
    ASSUME NEW R, NEW f \in FileOf(R), NEW r \in R
    PROVE  /\ Appended(f, r) \in FileOf(R)
           /\ Appended(f, r).recs = Append(f.recs, r) /\ Appended(f, r).synced = f.synced
           /\ Len(Appended(f, r).recs) = Len(f.recs) + 1
           /\ \A i \in 1 .. Len(f.recs) : Appended(f, r).recs[i] = f.recs[i]
           /\ Appended(f, r).recs[Len(f.recs) + 1] = r
<1>1. f.recs \in Seq(R) /\ f.synced \in Nat /\ f \in [recs : Seq(R), synced : Nat]
  BY DEF FileOf
<1>2. /\ Append(f.recs, r) \in Seq(R) /\ Len(Append(f.recs, r)) = Len(f.recs) + 1
      /\ \A i \in 1 .. Len(f.recs) : Append(f.recs, r)[i] = f.recs[i]
      /\ Append(f.recs, r)[Len(f.recs) + 1] = r
  BY <1>1, AppendProperties
<1>3. Appended(f, r) = [f EXCEPT !.recs = Append(f.recs, r)]
  BY DEF Appended
<1>4. Appended(f, r).recs = Append(f.recs, r) /\ Appended(f, r).synced = f.synced
  BY <1>3
<1>5. Appended(f, r) \in FileOf(R)
  BY <1>1, <1>2, <1>3 DEF FileOf
<1> QED  BY <1>2, <1>4, <1>5

LEMMA SyncedTyped ==
    ASSUME NEW R, NEW f \in FileOf(R)
    PROVE  /\ Synced(f) \in FileOf(R)
           /\ Synced(f).recs = f.recs /\ Synced(f).synced = Len(f.recs)
  BY DEF Synced, FileOf

LEMMA AppendedLog ==
    ASSUME NEW old \in LogOf, NEW r \in [ents : SUBSET Entry] \cup {Torn}, NEW b \in Nat,
           ~IsTorn(r) => \A e \in r.ents : e.seq <= b,
           \E a \in Nat : BoundedLog(old, a)
    PROVE  Appended(old, r) \in LogOf /\ \E m \in Nat : BoundedLog(Appended(old, r), m)
<1> DEFINE f == Appended(old, r)
           R == [ents : SUBSET Entry] \cup {Torn}
<1>1. PICK a \in Nat : BoundedLog(old, a)
  OBVIOUS
<1>2. old \in FileOf(R) /\ r \in R
  BY DEF LogOf, FileOf
<1> HIDE DEF R
<1>3. /\ f \in FileOf(R) /\ Len(f.recs) = Len(old.recs) + 1
      /\ f.recs[Len(old.recs) + 1] = r /\ \A i \in 1 .. Len(old.recs) : f.recs[i] = old.recs[i]
  <2> HIDE DEF f
  <2> QED  BY <1>2, AppendedTyped DEF f
<1>4. f \in LogOf
  BY <1>3 DEF LogOf, FileOf, R
<1> HIDE DEF f
<1>5. /\ Len(old.recs) \in Nat /\ DOMAIN old.recs = 1 .. Len(old.recs) /\ DOMAIN f.recs = 1 .. Len(f.recs)
      /\ \A i \in DOMAIN f.recs : f.recs[i] \in R
  BY <1>2, <1>3 DEF FileOf
<1>6. a + b \in Nat /\ a <= a + b /\ b <= a + b
  OBVIOUS
<1>7. ASSUME NEW i \in DOMAIN f.recs, ~IsTorn(f.recs[i]), NEW e \in f.recs[i].ents  PROVE e.seq <= a + b
  <2>1. f.recs[i] \in [ents : SUBSET Entry]
    BY <1>5, <1>7, TornRecords DEF R
  <2>2. e.seq \in Nat
    BY <1>7, <2>1 DEF Entry
  <2>3. i \in 1 .. Len(old.recs) \/ i = Len(old.recs) + 1
    BY <1>3, <1>5
  <2>4. CASE i \in 1 .. Len(old.recs)
    <3>1. e.seq <= a
      BY <1>1, <1>3, <1>5, <1>7, <2>4 DEF BoundedLog
    <3> QED  BY <1>6, <2>2, <3>1
  <2>5. CASE i = Len(old.recs) + 1
    <3>1. e.seq <= b
      BY <1>3, <1>7, <2>5
    <3> QED  BY <1>6, <2>2, <3>1
  <2> QED  BY <2>3, <2>4, <2>5
<1>8. BoundedLog(f, a + b)
  BY <1>7 DEF BoundedLog
<1> QED  BY <1>4, <1>6, <1>8 DEF f

\* One log changes.
LEMMA LogTyped ==
    ASSUME DiskTyped, SeqsBounded, NEW k \in DOMAIN disk.logs, NEW f \in LogOf, NEW b \in Nat,
           BoundedLog(f, b), disk' = [disk EXCEPT !.logs[k] = f]
    PROVE  DiskTyped' /\ SeqsBounded'
<1>1. PICK c \in Nat : \A n \in DOMAIN disk.logs : BoundedLog(disk.logs[n], c)
  BY DEF SeqsBounded, BoundedLog
<1>2. DOMAIN disk'.logs = DOMAIN disk.logs
      /\ \A n \in DOMAIN disk.logs : disk'.logs[n] = IF n = k THEN f ELSE disk.logs[n]
  BY DEF DiskTyped
<1>3. DiskTyped'
  BY <1>2 DEF DiskTyped
<1>4. PICK m \in Nat : b <= m /\ c <= m
  <2>1. b + c \in Nat /\ b <= b + c /\ c <= b + c
    OBVIOUS
  <2> QED  BY <2>1
<1>5. ASSUME NEW g \in LogOf, NEW a \in Nat, BoundedLog(g, a), a <= m  PROVE BoundedLog(g, m)
  <2>1. ASSUME NEW i \in DOMAIN g.recs, ~IsTorn(g.recs[i]), NEW e \in g.recs[i].ents  PROVE e.seq <= m
    <3>1. e.seq <= a
      BY <1>5, <2>1 DEF BoundedLog
    <3>2. g.recs[i] \in [ents : SUBSET Entry]
      <4>1. g.recs[i] \in [ents : SUBSET Entry] \cup {Torn}
        BY <2>1 DEF LogOf
      <4> QED  BY <2>1, <4>1, TornRecords
    <3>3. e.seq \in Nat
      BY <2>1, <3>2 DEF Entry
    <3> QED  BY <1>5, <3>1, <3>3
  <2> QED  BY <2>1 DEF BoundedLog
<1>6. \A n \in DOMAIN disk'.logs : BoundedLog(disk'.logs[n], m)
  <2>1. ASSUME NEW n \in DOMAIN disk.logs  PROVE BoundedLog(disk'.logs[n], m)
    <3>1. CASE n = k
      BY <1>2, <1>4, <1>5, <3>1
    <3>2. CASE n # k
      BY <1>1, <1>2, <1>4, <1>5, <3>2 DEF DiskTyped
    <3> QED  BY <3>1, <3>2
  <2> QED  BY <1>2, <2>1
<1>7. SeqsBounded'
  BY <1>6 DEF SeqsBounded, BoundedLog
<1> QED  BY <1>3, <1>7

\* Every log there is now was there before, with the same or fewer records.
LEMMA LogsShrink ==
    ASSUME DiskTyped, SeqsBounded, DOMAIN disk' = DOMAIN disk, disk'.current \in Nat,
           DOMAIN disk'.tables \subseteq Nat, DOMAIN disk'.manifests \subseteq Nat,
           \A n \in DOMAIN disk'.manifests : disk'.manifests[n] \in ManifestOf,
           \A n \in DOMAIN disk'.logs : /\ n \in Nat /\ disk'.logs[n] \in LogOf
                                        /\ disk'.logs[n].recs # <<>> => n \in DOMAIN disk.logs
                                        /\ \A i \in DOMAIN disk'.logs[n].recs :
                                              /\ i \in DOMAIN disk.logs[n].recs
                                              /\ disk'.logs[n].recs[i] = disk.logs[n].recs[i]
    PROVE  DiskTyped' /\ SeqsBounded'
<1>1. DiskTyped'
  BY DEF DiskTyped
<1>2. PICK c \in Nat : \A n \in DOMAIN disk.logs : BoundedLog(disk.logs[n], c)
  BY DEF SeqsBounded, BoundedLog
<1>3. ASSUME NEW n \in DOMAIN disk'.logs  PROVE BoundedLog(disk'.logs[n], c)
  <2>1. CASE disk'.logs[n].recs = <<>>
    BY <2>1 DEF BoundedLog
  <2>2. CASE disk'.logs[n].recs # <<>>
    BY <1>2, <1>3, <2>2 DEF BoundedLog
  <2> QED  BY <2>1, <2>2
<1> QED  BY <1>1, <1>3 DEF SeqsBounded, BoundedLog

LEMMA FileTyped == File \in LogOf /\ File \in ManifestOf /\ File.recs = <<>> /\ File.synced = 0
  BY DEF File, LogOf, ManifestOf

LEMMA LogsSame ==
    ASSUME DiskTyped, SeqsBounded, DOMAIN disk' = DOMAIN disk, disk'.current \in Nat,
           DOMAIN disk'.tables \subseteq Nat, DOMAIN disk'.manifests \subseteq Nat,
           \A n \in DOMAIN disk'.manifests : disk'.manifests[n] \in ManifestOf,
           disk'.logs = disk.logs
    PROVE  DiskTyped' /\ SeqsBounded'
<1>1. DiskTyped'
  BY DEF DiskTyped
<1> QED  BY <1>1 DEF SeqsBounded

LEMMA LogCreated ==
    ASSUME DiskTyped, SeqsBounded, NEW k \in Nat, DOMAIN disk' = DOMAIN disk, disk'.current \in Nat,
           DOMAIN disk'.tables \subseteq Nat, DOMAIN disk'.manifests \subseteq Nat,
           \A n \in DOMAIN disk'.manifests : disk'.manifests[n] \in ManifestOf,
           disk'.logs = With(disk.logs, k, File)
    PROVE  DiskTyped' /\ SeqsBounded'
<1>1. DOMAIN disk'.logs = DOMAIN disk.logs \cup {k}
      /\ \A n \in DOMAIN disk'.logs : disk'.logs[n] = IF n = k THEN File ELSE disk.logs[n]
  BY DEF With
<1>2. ASSUME NEW n \in DOMAIN disk'.logs
      PROVE  /\ n \in Nat /\ disk'.logs[n] \in LogOf
             /\ disk'.logs[n].recs # <<>> => n \in DOMAIN disk.logs
             /\ \A i \in DOMAIN disk'.logs[n].recs :
                   i \in DOMAIN disk.logs[n].recs /\ disk'.logs[n].recs[i] = disk.logs[n].recs[i]
  <2>1. CASE n = k
    BY <1>1, <2>1, FileTyped
  <2>2. CASE n # k
    BY <1>1, <1>2, <2>2 DEF DiskTyped
  <2> QED  BY <2>1, <2>2
<1> QED  BY <1>2, LogsShrink

\* What DeleteObsoleteFiles leaves was there.
LEMMA CollectedFiles ==
    ASSUME NEW k, DOMAIN k = {"logs", "tables", "manifests", "current"}, NEW d, NEW held
    PROVE  LET c == Collected(k, d, held) IN
           /\ DOMAIN c = DOMAIN k /\ c.current = k.current
           /\ DOMAIN c.logs \subseteq DOMAIN k.logs /\ \A n \in DOMAIN c.logs : c.logs[n] = k.logs[n]
           /\ DOMAIN c.tables \subseteq DOMAIN k.tables /\ \A n \in DOMAIN c.tables : c.tables[n] = k.tables[n]
           /\ DOMAIN c.manifests \subseteq DOMAIN k.manifests
           /\ \A n \in DOMAIN c.manifests : c.manifests[n] = k.manifests[n]
           /\ d.error => c = k
           /\ ~d.error => /\ DOMAIN c.logs = {n \in DOMAIN k.logs : n >= d.logNumber}
                          /\ DOMAIN c.manifests = {n \in DOMAIN k.manifests : n >= d.manifest}
                          /\ DOMAIN c.tables = DOMAIN k.tables \cap Live(d, held)
<1>1. CASE d.error
  BY <1>1 DEF Collected
<1>2. CASE ~d.error
  <2> DEFINE l == Restrict(k.logs, {n \in DOMAIN k.logs : n >= d.logNumber})
             m == Restrict(k.manifests, {n \in DOMAIN k.manifests : n >= d.manifest})
             t == Restrict(k.tables, DOMAIN k.tables \cap Live(d, held))
  <2>1. Collected(k, d, held) = [k EXCEPT !.logs = l, !.manifests = m, !.tables = t]
    BY <1>2 DEF Collected
  <2>2. /\ DOMAIN l = {n \in DOMAIN k.logs : n >= d.logNumber} /\ \A n \in DOMAIN l : l[n] = k.logs[n]
        /\ DOMAIN m = {n \in DOMAIN k.manifests : n >= d.manifest}
        /\ \A n \in DOMAIN m : m[n] = k.manifests[n]
        /\ DOMAIN t = DOMAIN k.tables \cap Live(d, held) /\ \A n \in DOMAIN t : t[n] = k.tables[n]
    BY DEF Restrict
  <2> HIDE DEF l, m, t
  <2>3. LET c == Collected(k, d, held) IN
        /\ DOMAIN c = DOMAIN k /\ c.current = k.current /\ c.logs = l /\ c.manifests = m /\ c.tables = t
    BY <2>1
  <2> QED  BY <1>2, <2>2, <2>3
<1> QED  BY <1>1, <1>2

-----------------------------------------------------------------------------
(* Types after every step.                                                 *)

LEMMA OwedTyped ==
    ASSUME BaseInv, NEW c \in CallOf, NEW ok
    PROVE  NowOwed(c, ok) \subseteq [id : Nat, sync : BOOLEAN]
<1>1. [id |-> c.id, sync |-> c.sync] \in [id : Nat, sync : BOOLEAN]
  BY DEF CallOf
<1> QED  BY <1>1 DEF NowOwed, BaseInv, TypeInv

LEMMA ScheduledTyped ==
    ASSUME NEW b \in BgOf, NEW d
    PROVE  /\ Scheduled(b, d) \in BgOf
           /\ Scheduled(b, d) = [b EXCEPT !.pc = Scheduled(b, d).pc]
           /\ Scheduled(b, d).pc = b.pc \/ (b.pc = "off" /\ Scheduled(b, d).pc = "due")
           /\ \/ Scheduled(b, d) = b
              \/ Scheduled(b, d) = [b EXCEPT !.pc = "due"] /\ b.pc = "off" /\ ~d.error
                 /\ (d.imm # <<>> \/ NeedsCompaction(d.version))
<1>1. \/ Scheduled(b, d) = b
      \/ Scheduled(b, d) = [b EXCEPT !.pc = "due"] /\ b.pc = "off" /\ ~d.error
         /\ (d.imm # <<>> \/ NeedsCompaction(d.version))
  BY DEF Scheduled
<1>2. [b EXCEPT !.pc = "due"] \in BgOf /\ b = [b EXCEPT !.pc = b.pc]
      /\ [b EXCEPT !.pc = "due"].pc = "due"
  BY DEF BgOf, BgPcs
<1> QED  BY <1>1, <1>2

LEMMA SwitchedTyped ==
    ASSUME NEW d \in DbOf, NEW imm \in ImmOf
    PROVE  LET e == [d EXCEPT !.imm = imm, !.mem = {}, !.logfile = d.nextFile, !.nextFile = d.nextFile + 1]
           IN  e \in DbOf /\ e.imm = imm
<1>1. d.nextFile \in Nat /\ d.nextFile + 1 \in Nat /\ {} \in SUBSET Entry
  BY DEF DbOf
<1> QED  BY <1>1 DEF DbOf

LEMMA ThreadTyped ==
    ASSUME BaseInv, NEW w \in Writer, Thread(w)
    PROVE  TypeInv'
<1>0. /\ db \in DbOf /\ DiskTyped /\ SeqsBounded /\ BgTyped /\ QuietInv
      /\ pinned \in SUBSET SUBSET Table /\ owed \subseteq [id : Nat, sync : BOOLEAN] /\ behind \subseteq Nat
  BY DEF BaseInv, TypeInv
<1>1. call[w].pc # "idle" /\ UNCHANGED pinned
  BY DEF Thread, Wake, RoomError, Delay, WaitForRoom, TakeRoom, SwitchMemTable, NewLogFails,
         AddRecord, AddRecordFails, SyncLog, SyncLogFails, Finish, WaitForFlush
<1>2. db.up = "open" /\ call[w] \in CallOf /\ db'.up = "open"
  BY <1>1, WritingOpen, StaysOpen
<1>3. QuietInv'
  BY <1>2 DEF QuietInv
<1>4. ASSUME owed' = owed \/ owed' = NowOwed(call[w], TRUE) \/ owed' = NowOwed(call[w], FALSE)
             \/ owed' = NowOwed(call[w], call[w].ok)
      PROVE  owed' \subseteq [id : Nat, sync : BOOLEAN]
  BY <1>0, <1>2, <1>4, OwedTyped
<1>5. ASSUME UNCHANGED <<db, disk, bg, behind>>,
             owed' = owed \/ owed' = NowOwed(call[w], TRUE) \/ owed' = NowOwed(call[w], FALSE)
             \/ owed' = NowOwed(call[w], call[w].ok)
      PROVE  TypeInv'
  BY <1>0, <1>1, <1>3, <1>4, <1>5 DEF TypeInv, BgTyped, DiskTyped, SeqsBounded
<1>6. CASE Wake(w)
  BY <1>5, <1>6 DEF Wake
<1>7. CASE RoomError(w) \/ NewLogFails(w)
  BY <1>5, <1>7 DEF RoomError, NewLogFails, Leave
<1>8. CASE Delay(w) \/ WaitForRoom(w) \/ TakeRoom(w) \/ SyncLogFails(w) \/ WaitForFlush(w)
  BY <1>5, <1>8 DEF Delay, WaitForRoom, TakeRoom, SyncLogFails, WaitForFlush
<1>9. CASE SwitchMemTable(w)
  <2>1. db' = OverToLog(db) /\ bg' = Scheduled(bg, db') /\ UNCHANGED behind
        /\ disk' = [disk EXCEPT !.logs = With(@, db.nextFile, File)]
    BY <1>9 DEF SwitchMemTable
  <2>2. db' \in DbOf /\ db'.imm # <<>>
    <3> DEFINE imm == <<db.mem>>
    <3>1. imm \in ImmOf /\ imm # <<>>
      <4>1. db.mem \in SUBSET Entry
        BY <1>0 DEF DbOf
      <4> QED  BY <4>1 DEF ImmOf
    <3>2. db' = [db EXCEPT !.imm = imm, !.mem = {}, !.logfile = db.nextFile, !.nextFile = db.nextFile + 1]
      BY <2>1 DEF OverToLog
    <3> HIDE DEF imm
    <3>3. db' \in DbOf /\ db'.imm = imm
      BY <1>0, <3>1, <3>2, SwitchedTyped
    <3> QED  BY <3>1, <3>2, <3>3
  <2>3. BgTyped'
    BY <1>0, <2>1, <2>2, ScheduledTyped DEF BgTyped, BgOf
  <2>4. DiskTyped' /\ SeqsBounded'
    <3>1. db.nextFile \in Nat
      BY <1>0 DEF DbOf
    <3>2. /\ DOMAIN disk' = DOMAIN disk /\ disk'.current = disk.current /\ disk'.tables = disk.tables
          /\ disk'.manifests = disk.manifests /\ disk'.logs = With(disk.logs, db.nextFile, File)
      BY <1>0, <2>1 DEF DiskTyped
    <3> QED  BY <1>0, <3>1, <3>2, LogCreated DEF DiskTyped
  <2>5. owed' \subseteq [id : Nat, sync : BOOLEAN]
    BY <1>4, <1>9 DEF SwitchMemTable, Leave
  <2> QED  BY <1>0, <1>1, <1>3, <2>1, <2>2, <2>3, <2>4, <2>5 DEF TypeInv
<1>10. ASSUME NEW f \in LogOf, NEW b \in Nat, BoundedLog(f, b), db.logfile \in DOMAIN disk.logs,
              disk' = [disk EXCEPT !.logs[db.logfile] = f]
       PROVE  DiskTyped' /\ SeqsBounded'
  BY <1>0, <1>10, LogTyped
<1>11. ASSUME NEW f, db.logfile \notin DOMAIN disk.logs, disk' = [disk EXCEPT !.logs[db.logfile] = f]
       PROVE  DiskTyped' /\ SeqsBounded'
  <2>1. /\ DOMAIN disk' = DOMAIN disk /\ disk'.current = disk.current /\ disk'.tables = disk.tables
        /\ disk'.manifests = disk.manifests /\ disk'.logs = [disk.logs EXCEPT ![db.logfile] = f]
    BY <1>0, <1>11 DEF DiskTyped
  <2>2. DOMAIN disk'.logs = DOMAIN disk.logs /\ \A n \in DOMAIN disk.logs : disk'.logs[n] = disk.logs[n]
    BY <1>11, <2>1
  <2> QED  BY <1>0, <2>1, <2>2 DEF DiskTyped, SeqsBounded
<1>12. ASSUME NEW r \in [ents : SUBSET Entry] \cup {Torn}, NEW b \in Nat,
              ~IsTorn(r) => \A e \in r.ents : e.seq <= b,
              disk' = [disk EXCEPT !.logs[db.logfile] = Appended(@, r)]
       PROVE  DiskTyped' /\ SeqsBounded'
  <2>1. CASE db.logfile \notin DOMAIN disk.logs
    BY <1>11, <1>12, <2>1
  <2>2. CASE db.logfile \in DOMAIN disk.logs
    <3> DEFINE old == disk.logs[db.logfile]
    <3>1. old \in LogOf /\ \E a \in Nat : BoundedLog(old, a)
      BY <1>0, <2>2 DEF DiskTyped, SeqsBounded, BoundedLog
    <3>2. disk' = [disk EXCEPT !.logs[db.logfile] = Appended(old, r)]
      BY <1>12
    <3> HIDE DEF old
    <3>3. Appended(old, r) \in LogOf /\ \E m \in Nat : BoundedLog(Appended(old, r), m)
      BY <1>12, <3>1, AppendedLog
    <3> QED  BY <1>10, <2>2, <3>2, <3>3
  <2> QED  BY <2>1, <2>2
<1>13. CASE AddRecord(w)
  <2>1. call[w].pc \in WritePcs
    BY <1>13 DEF AddRecord, WritePcs
  <2>2. /\ GroupEntries(w) \subseteq Entry
        /\ \A e \in GroupEntries(w) : e.seq <= db.lastSeq + Cardinality(GroupEntries(w))
        /\ db.lastSeq + Cardinality(GroupEntries(w)) \in Nat
    BY <1>0, <2>1, GroupTyped DEF DbOf
  <2> DEFINE r == [ents |-> GroupEntries(w)]
  <2>3. r \in [ents : SUBSET Entry] \cup {Torn}
    BY <2>2
  <2>4. disk' = [disk EXCEPT !.logs[db.logfile] = Appended(@, r)] /\ UNCHANGED <<db, bg, owed>>
    BY <1>13 DEF AddRecord
  <2>5. behind' \subseteq Nat
    <3>1. {e.id : e \in GroupEntries(w)} \subseteq Nat
      BY <2>2 DEF Entry
    <3> QED  BY <1>0, <1>13, <3>1 DEF AddRecord
  <2>6. \A e \in r.ents : e.seq <= db.lastSeq + Cardinality(GroupEntries(w))
    BY <2>2
  <2> HIDE DEF r
  <2>7. DiskTyped' /\ SeqsBounded'
    BY <1>12, <2>2, <2>3, <2>4, <2>6
  <2> QED  BY <1>0, <1>1, <1>3, <2>4, <2>5, <2>7 DEF TypeInv, BgTyped
<1>14. CASE AddRecordFails(w)
  <2>1. DiskTyped' /\ SeqsBounded'
    <3>1. CASE UNCHANGED disk
      BY <1>0, <3>1 DEF DiskTyped, SeqsBounded
    <3>2. CASE disk' = [disk EXCEPT !.logs[db.logfile] = Appended(@, Torn)]
      <4>1. Torn \in [ents : SUBSET Entry] \cup {Torn} /\ IsTorn(Torn) /\ 0 \in Nat
        BY TornRecords
      <4> QED  BY <1>12, <3>2, <4>1
    <3> QED  BY <1>14, <3>1, <3>2 DEF AddRecordFails
  <2>2. UNCHANGED <<db, bg, owed, behind>>
    BY <1>14 DEF AddRecordFails
  <2> QED  BY <1>0, <1>1, <1>3, <2>1, <2>2 DEF TypeInv, BgTyped
<1>15. CASE SyncLog(w)
  <2>1. disk' = [disk EXCEPT !.logs[db.logfile] = Synced(@)] /\ UNCHANGED <<db, bg, owed, behind>>
    BY <1>15 DEF SyncLog
  <2>2. DiskTyped' /\ SeqsBounded'
    <3>1. CASE db.logfile \notin DOMAIN disk.logs
      BY <1>11, <2>1, <3>1
    <3>2. CASE db.logfile \in DOMAIN disk.logs
      <4> DEFINE old == disk.logs[db.logfile]
      <4>1. old \in LogOf /\ \E a \in Nat : BoundedLog(old, a)
        BY <1>0, <3>2 DEF DiskTyped, SeqsBounded, BoundedLog
      <4>2. Synced(old) \in LogOf /\ Synced(old).recs = old.recs
        BY <4>1, SyncedTyped DEF LogOf, FileOf
      <4>3. PICK a \in Nat : BoundedLog(Synced(old), a)
        BY <4>1, <4>2 DEF BoundedLog
      <4>4. disk' = [disk EXCEPT !.logs[db.logfile] = Synced(old)]
        BY <2>1
      <4> HIDE DEF old
      <4> QED  BY <1>10, <3>2, <4>2, <4>3, <4>4
    <3> QED  BY <3>1, <3>2
  <2> QED  BY <1>0, <1>1, <1>3, <2>1, <2>2 DEF TypeInv, BgTyped
<1>16. CASE Finish(w)
  <2>1. call[w].pc \in WritePcs /\ UNCHANGED <<disk, bg, behind>>
    BY <1>16 DEF Finish, WritePcs
  <2>2. GroupEntries(w) \subseteq Entry /\ Cardinality(GroupEntries(w)) \in Nat
    BY <2>1, GroupTyped
  <2> DEFINE mem == db.mem \cup IF call[w].ok THEN GroupEntries(w) ELSE {}
             seq == db.lastSeq + Cardinality(GroupEntries(w))
             d   == [db EXCEPT !.lastSeq = seq, !.mem = mem]
  <2>3. d \in DbOf /\ d.imm = db.imm
    <3>1. mem \in SUBSET Entry /\ seq \in Nat
      BY <1>0, <2>2 DEF DbOf
    <3> HIDE DEF mem, seq
    <3> QED  BY <1>0, <3>1 DEF DbOf
  <2>4. Failed(d) \in DbOf /\ Failed(d).imm = db.imm
    <3> HIDE DEF d
    <3> QED  BY <2>3 DEF Failed, DbOf
  <2>5. db' = d \/ db' = Failed(d)
    BY <1>16 DEF Finish
  <2> HIDE DEF d
  <2>6. db' \in DbOf /\ db'.imm = db.imm
    BY <2>3, <2>4, <2>5
  <2>7. owed' \subseteq [id : Nat, sync : BOOLEAN]
    <3>1. call[w].pc \notin {"roomwait", "flushwait"} /\ Queued(queue, call)
      BY <1>16 DEF Finish, BaseInv, QueueInv
    <3>2. SignalAll(call)[w] = call[w]
      BY <3>1, SignalAllQueued
    <3>3. owed' = NowOwed(call[w], FALSE) \/ owed' = NowOwed(call[w], call[w].ok)
      BY <1>16, <3>2 DEF Finish, Leave
    <3> QED  BY <1>4, <3>3
  <2>8. DiskTyped' /\ SeqsBounded' /\ BgTyped'
    BY <1>0, <2>1, <2>6 DEF DiskTyped, SeqsBounded, BgTyped
  <2> QED  BY <1>0, <1>1, <1>3, <2>1, <2>6, <2>7, <2>8 DEF TypeInv
<1> QED  BY <1>6, <1>7, <1>8, <1>9, <1>13, <1>14, <1>15, <1>16 DEF Thread

LEMMA EditTyped ==
    ASSUME NEW log \in Nat, NEW next \in Nat, NEW last \in Nat, NEW add \in SUBSET Table, NEW del \in SUBSET Table
    PROVE  /\ Edit(log, next, last, add, del) \in EditOf
           /\ <<Edit(log, next, last, add, del)>> \in EditsOf /\ <<Edit(log, next, last, add, del)>> # <<>>
           /\ <<Edit(log, next, last, add, del)>>[1] = Edit(log, next, last, add, del)
<1>1. Edit(log, next, last, add, del) \in EditOf
  BY DEF Edit, EditOf
<1> HIDE DEF Edit
<1> QED  BY <1>1 DEF EditsOf

LEMMA EditsTyped ==
    ASSUME NEW es \in EditsOf, es # <<>>
    PROVE  es[1] \in EditOf /\ es = <<es[1]>>
  BY DEF EditsOf

LEMMA NumbersTyped ==
    ASSUME NEW version \in SUBSET Table
    PROVE  /\ Numbers(version) \subseteq Nat
           /\ \A level \in {0, 1} : {<<n, level>> : n \in Numbers(version)} \subseteq Table
  BY DEF Numbers, Table

\* The background thread at the end of its work.
LEMMA EndedTyped ==
    ASSUME BaseInv, NEW d, Ended(d) \/ FlushEnded(d)
    PROVE  BgTyped'
<1>1. bg \in BgOf
  BY DEF BaseInv, TypeInv, BgTyped
<1>2. BgOff \in BgOf /\ BgOff.pc = "off"
  BY DEF BgOff, BgOf, BgPcs, EditsOf
<1>3. CASE bg' = Scheduled(BgOff, d)
  <2> HIDE DEF BgOff
  <2>1. bg' \in BgOf /\ bg'.pc \in {"off", "due"}
    BY <1>2, <1>3, ScheduledTyped
  <2> QED  BY <2>1 DEF BgTyped
<1>4. CASE bg' = [bg EXCEPT !.pc = "work", !.num = 0, !.edit = <<>>, !.inWork = FALSE]
  <2>1. bg' \in BgOf /\ bg'.pc = "work"
    BY <1>1, <1>4 DEF BgOf, BgPcs, EditsOf
  <2> QED  BY <2>1 DEF BgTyped
<1> QED  BY <1>3, <1>4 DEF Ended, FlushEnded

LEMMA DiskCollected ==
    ASSUME DiskTyped, SeqsBounded, NEW k, NEW d, NEW held, DOMAIN k = DOMAIN disk, k.current \in Nat,
           k.logs = disk.logs, k.tables = disk.tables, k.manifests = disk.manifests,
           disk' = Collected(k, d, held)
    PROVE  DiskTyped' /\ SeqsBounded'
<1>1. DOMAIN k = {"logs", "tables", "manifests", "current"}
  BY DEF DiskTyped
<1>2. /\ DOMAIN disk' = DOMAIN disk /\ disk'.current = k.current
      /\ DOMAIN disk'.logs \subseteq DOMAIN disk.logs
      /\ \A n \in DOMAIN disk'.logs : disk'.logs[n] = disk.logs[n]
      /\ DOMAIN disk'.tables \subseteq DOMAIN disk.tables
      /\ DOMAIN disk'.manifests \subseteq DOMAIN disk.manifests
      /\ \A n \in DOMAIN disk'.manifests : disk'.manifests[n] = disk.manifests[n]
  BY <1>1, CollectedFiles DEF DiskTyped
<1> QED  BY <1>2, LogsShrink DEF DiskTyped

\* One record more in a manifest.
LEMMA ManifestWritten ==
    ASSUME DiskTyped, SeqsBounded, NEW k, NEW f, k \in DOMAIN disk.manifests => f \in ManifestOf,
           disk' = [disk EXCEPT !.manifests[k] = f]
    PROVE  DiskTyped' /\ SeqsBounded'
<1>1. /\ DOMAIN disk' = DOMAIN disk /\ disk'.current = disk.current /\ disk'.tables = disk.tables
      /\ disk'.logs = disk.logs /\ disk'.manifests = [disk.manifests EXCEPT ![k] = f]
  BY DEF DiskTyped
<1>2. \A n \in DOMAIN disk'.manifests : n \in DOMAIN disk.manifests /\ disk'.manifests[n] \in ManifestOf
  BY <1>1 DEF DiskTyped
<1> QED  BY <1>1, <1>2, LogsSame DEF DiskTyped

LEMMA AppendedManifest ==
    ASSUME NEW f \in ManifestOf, NEW r \in EditOf \cup {Torn}
    PROVE  /\ Appended(f, r) \in ManifestOf /\ Synced(Appended(f, r)) \in ManifestOf
           /\ Appended(f, r).recs = Append(f.recs, r) /\ Appended(f, r).synced = f.synced
           /\ Synced(Appended(f, r)).recs = Append(f.recs, r)
           /\ Synced(Appended(f, r)).synced = Len(f.recs) + 1
           /\ Len(Append(f.recs, r)) = Len(f.recs) + 1
           /\ \A i \in 1 .. Len(f.recs) : Append(f.recs, r)[i] = f.recs[i]
           /\ Append(f.recs, r)[Len(f.recs) + 1] = r
<1> DEFINE R == EditOf \cup {Torn}
<1>1. f \in FileOf(R) /\ r \in R /\ f.recs \in Seq(R)
  BY DEF ManifestOf, FileOf
<1>2. ManifestOf = FileOf(R)
  BY DEF ManifestOf, FileOf
<1> HIDE DEF R
<1>3. /\ Appended(f, r) \in FileOf(R)
      /\ Appended(f, r).recs = Append(f.recs, r) /\ Appended(f, r).synced = f.synced
  BY <1>1, AppendedTyped
<1>4. /\ Synced(Appended(f, r)) \in FileOf(R)
      /\ Synced(Appended(f, r)).recs = Appended(f, r).recs
      /\ Synced(Appended(f, r)).synced = Len(Appended(f, r).recs)
  BY <1>3, SyncedTyped
<1>5. /\ Len(Append(f.recs, r)) = Len(f.recs) + 1
      /\ \A i \in 1 .. Len(f.recs) : Append(f.recs, r)[i] = f.recs[i]
      /\ Append(f.recs, r)[Len(f.recs) + 1] = r
  BY <1>1, AppendProperties
<1> QED  BY <1>2, <1>3, <1>4, <1>5

\* The tables may change, and get another name.
LEMMA TableWritten ==
    ASSUME DiskTyped, SeqsBounded, NEW k \in Nat, NEW ents, disk' = [disk EXCEPT !.tables = With(@, k, ents)]
    PROVE  DiskTyped' /\ SeqsBounded'
<1>1. /\ DOMAIN disk' = DOMAIN disk /\ disk'.current = disk.current /\ disk'.manifests = disk.manifests
      /\ disk'.logs = disk.logs /\ disk'.tables = With(disk.tables, k, ents)
  BY DEF DiskTyped
<1>2. DOMAIN disk'.tables = DOMAIN disk.tables \cup {k}
  BY <1>1 DEF With
<1> QED  BY <1>1, <1>2, LogsSame DEF DiskTyped

\* The fields of the database that the background thread changes.
LEMMA DbChanged ==
    ASSUME NEW d \in DbOf, NEW pending \in SUBSET Nat, NEW next \in Nat
    PROVE  /\ [d EXCEPT !.pending = pending] \in DbOf
           /\ Failed([d EXCEPT !.pending = pending]) \in DbOf
           /\ [d EXCEPT !.nextFile = next, !.pending = pending] \in DbOf
           /\ [d EXCEPT !.nextFile = next, !.pending = pending].imm = d.imm
<1>1. [d EXCEPT !.pending = pending] \in DbOf
  BY DEF DbOf
<1>2. \A e \in DbOf : Failed(e) \in DbOf
  BY DEF DbOf, Failed
<1>3. /\ [d EXCEPT !.nextFile = next, !.pending = pending] \in DbOf
      /\ [d EXCEPT !.nextFile = next, !.pending = pending].imm = d.imm
  BY DEF DbOf
<1> QED  BY <1>1, <1>2, <1>3

LEMMA BackgroundTyped ==
    ASSUME BaseInv, Background
    PROVE  TypeInv'
<1>0. /\ db \in DbOf /\ DiskTyped /\ SeqsBounded /\ BgTyped /\ QuietInv
      /\ pinned \in SUBSET SUBSET Table /\ owed \subseteq [id : Nat, sync : BOOLEAN] /\ behind \subseteq Nat
      /\ bg \in BgOf
  BY DEF BaseInv, TypeInv, BgTyped
<1>1. bg.pc # "off" /\ UNCHANGED <<pinned, owed, behind>>
  BY DEF Background, NothingToDo, StartFlush, BuildTable, BuildTableFails, StartMove, StartCompaction,
         OpenOutput, WriteOutput, EndWork, WorkFails, WriteManifest, WriteManifestFails, InstallVersion
<1>2. db.up = "open" /\ db'.up = "open"
  BY <1>0, <1>1, StaysOpen DEF QuietInv, BgOff
<1>3. QuietInv'
  BY <1>2 DEF QuietInv
<1>4. /\ db.nextFile \in Nat /\ db.pending \in SUBSET Nat /\ db.version \in SUBSET Table
      /\ db.logfile \in Nat /\ db.logNumber \in Nat /\ db.lastSeq \in Nat /\ db.manifest \in Nat
      /\ bg.num \in Nat /\ bg.inputs \in SUBSET Table /\ bg.out \subseteq Nat
      /\ db.nextFile + 1 \in Nat
  BY <1>0 DEF DbOf, BgOf
<1>5. ASSUME db' \in DbOf, DiskTyped', SeqsBounded', BgTyped'  PROVE TypeInv'
  BY <1>0, <1>1, <1>3, <1>5 DEF TypeInv
<1>6. ASSUME UNCHANGED disk  PROVE DiskTyped' /\ SeqsBounded'
  BY <1>0, <1>6 DEF DiskTyped, SeqsBounded
<1>7. CASE NothingToDo
  BY <1>0, <1>5, <1>6, <1>7, EndedTyped DEF NothingToDo
<1>8. CASE StartFlush
  <2>1. /\ db' = [db EXCEPT !.nextFile = db.nextFile + 1, !.pending = db.pending \cup {db.nextFile}]
        /\ UNCHANGED disk
    BY <1>8 DEF StartFlush
  <2>2. db' \in DbOf /\ db'.imm = db.imm /\ db.imm # <<>>
    <3>1. db.pending \cup {db.nextFile} \in SUBSET Nat
      BY <1>4
    <3>2. db.imm # <<>>
      BY <1>8 DEF StartFlush
    <3> DEFINE p == db.pending \cup {db.nextFile}
    <3>3. db' = [db EXCEPT !.nextFile = db.nextFile + 1, !.pending = p]
      BY <2>1
    <3>4. p \in SUBSET Nat
      BY <3>1
    <3> HIDE DEF p
    <3> QED  BY <1>0, <1>4, <3>2, <3>3, <3>4, DbChanged
  <2>3. BgTyped'
    <3>1. (bg.pc = "work") \in BOOLEAN
      OBVIOUS
    <3> DEFINE work == bg.pc = "work"
               b == [bg EXCEPT !.pc = "build", !.num = db.nextFile, !.inWork = work]
    <3>2. bg' = b
      BY <1>8 DEF StartFlush
    <3> HIDE DEF work
    <3>3. work \in BOOLEAN
      BY <3>1 DEF work
    <3>4. b \in BgOf /\ b.pc = "build"
      BY <1>0, <1>4, <3>3 DEF BgOf, BgPcs
    <3> HIDE DEF b
    <3> QED  BY <2>2, <3>2, <3>4 DEF BgTyped
  <2> QED  BY <1>5, <1>6, <2>1, <2>2, <2>3
<1>9. CASE BuildTable
  <2> DEFINE p == db.pending \ {bg.num}
             d == [db EXCEPT !.pending = p]
             add == IF db.imm[1] = {} THEN {} ELSE {<<bg.num, 0>>}
             es == <<Edit(d.logfile, d.nextFile, d.lastSeq, add, {})>>
  <2>1. /\ db' = d /\ bg' = [bg EXCEPT !.pc = "manifest", !.edit = es]
        /\ disk' = disk \/ disk' = [disk EXCEPT !.tables = With(@, bg.num, db.imm[1])]
    BY <1>9 DEF BuildTable
  <2>2. d \in DbOf /\ d.logfile = db.logfile /\ d.nextFile = db.nextFile /\ d.lastSeq = db.lastSeq
    <3>1. p \in SUBSET Nat
      BY <1>4
    <3> HIDE DEF p
    <3> QED  BY <1>0, <3>1, DbChanged DEF DbOf
  <2>3. es \in EditsOf /\ es # <<>>
    <3>1. add \in SUBSET Table /\ {} \in SUBSET Table
      BY <1>4 DEF Table
    <3> HIDE DEF add, d
    <3> QED  BY <1>4, <2>2, <3>1, EditTyped
  <2> HIDE DEF d, es
  <2>4. BgTyped'
    <3>1. bg' \in BgOf /\ bg'.pc = "manifest" /\ bg'.edit = es
      BY <1>0, <2>1, <2>3 DEF BgOf, BgPcs
    <3> QED  BY <2>3, <3>1 DEF BgTyped
  <2>5. DiskTyped' /\ SeqsBounded'
    BY <1>0, <1>4, <1>6, <2>1, TableWritten
  <2> QED  BY <1>5, <2>1, <2>2, <2>4, <2>5
<1>10. CASE BuildTableFails
  <2>1. db' = Failed([db EXCEPT !.pending = db.pending \ {bg.num}]) /\ UNCHANGED disk /\ FlushEnded(db')
    BY <1>10 DEF BuildTableFails
  <2>2. db' \in DbOf
    <3>1. db.pending \ {bg.num} \in SUBSET Nat
      BY <1>4
    <3> QED  BY <1>0, <1>4, <2>1, <3>1, DbChanged
  <2>3. BgTyped'
    <3>1. PICK d : FlushEnded(d)
      BY <2>1
    <3> QED  BY <3>1, EndedTyped
  <2> QED  BY <1>5, <1>6, <2>1, <2>2, <2>3
<1>11. CASE StartMove
  <2> DEFINE add == {<<n, 1>> : n \in Numbers(db.version)}
             es  == <<Edit(db.logNumber, db.nextFile, db.lastSeq, add, db.version)>>
  <2>1. bg' = [bg EXCEPT !.pc = "manifest", !.inputs = db.version, !.edit = es] /\ UNCHANGED <<db, disk>>
    BY <1>11 DEF StartMove
  <2>2. es \in EditsOf /\ es # <<>>
    <3>1. add \in SUBSET Table
      BY <1>4, NumbersTyped
    <3> HIDE DEF add
    <3> QED  BY <1>4, <3>1, EditTyped
  <2> HIDE DEF es
  <2>3. BgTyped'
    <3>1. bg' \in BgOf /\ bg'.pc = "manifest" /\ bg'.edit = es
      BY <1>0, <1>4, <2>1, <2>2 DEF BgOf, BgPcs
    <3> QED  BY <2>2, <3>1 DEF BgTyped
  <2> QED  BY <1>0, <1>5, <1>6, <2>1, <2>3
<1>12. CASE StartCompaction
  <2>1. bg' = [bg EXCEPT !.pc = "work", !.inputs = db.version] /\ UNCHANGED <<db, disk>>
    BY <1>12 DEF StartCompaction
  <2>2. bg' \in BgOf /\ bg'.pc = "work"
    BY <1>0, <1>4, <2>1 DEF BgOf, BgPcs
  <2> QED  BY <1>0, <1>5, <1>6, <2>1, <2>2 DEF BgTyped
<1>13. CASE OpenOutput
  <2>1. /\ db' = [db EXCEPT !.nextFile = db.nextFile + 1, !.pending = db.pending \cup {db.nextFile}]
        /\ UNCHANGED disk /\ bg' = [bg EXCEPT !.out = {db.nextFile}] /\ bg.pc = "work"
    BY <1>13 DEF OpenOutput
  <2>2. db' \in DbOf
    <3>1. db.pending \cup {db.nextFile} \in SUBSET Nat
      BY <1>4
    <3> QED  BY <1>0, <1>4, <2>1, <3>1, DbChanged
  <2>3. bg' \in BgOf /\ bg'.pc = "work"
    BY <1>0, <1>4, <2>1 DEF BgOf
  <2> QED  BY <1>5, <1>6, <2>1, <2>2, <2>3 DEF BgTyped
<1>14. CASE WriteOutput
  <2> DEFINE ents == UNION {disk.tables[n] : n \in Numbers(bg.inputs)}
  <2>1. /\ disk' = [disk EXCEPT !.tables = With(@, Max(bg.out), ents)] /\ UNCHANGED db
        /\ bg' = [bg EXCEPT !.written = TRUE] /\ bg.pc = "work" /\ bg.out # {}
    BY <1>14 DEF WriteOutput
  <2>2. Max(bg.out) \in Nat
    <3>1. PICK n \in Nat : bg.out = {n}
      BY <1>0, <2>1 DEF BgOf
    <3>2. {n} \in SUBSET Nat /\ {n} # {} /\ \A x \in {n} : x <= n
      BY <3>1
    <3>3. Max({n}) \in {n}
      BY <3>2, GreatestExists
    <3> QED  BY <3>1, <3>3
  <2> HIDE DEF ents
  <2>3. DiskTyped' /\ SeqsBounded'
    BY <1>0, <2>1, <2>2, TableWritten
  <2>4. bg' \in BgOf /\ bg'.pc = "work"
    BY <1>0, <2>1 DEF BgOf
  <2> QED  BY <1>0, <1>5, <2>1, <2>3, <2>4 DEF BgTyped
<1>15. CASE EndWork
  <2> DEFINE add == {<<n, 1>> : n \in bg.out}
             es  == <<Edit(db.logNumber, db.nextFile, db.lastSeq, add, bg.inputs)>>
  <2>1. bg' = [bg EXCEPT !.pc = "manifest", !.edit = es] /\ UNCHANGED <<db, disk>>
    BY <1>15 DEF EndWork
  <2>2. es \in EditsOf /\ es # <<>>
    <3>1. add \in SUBSET Table
      BY <1>4 DEF Table
    <3> HIDE DEF add
    <3> QED  BY <1>4, <3>1, EditTyped
  <2> HIDE DEF es
  <2>3. BgTyped'
    <3>1. bg' \in BgOf /\ bg'.pc = "manifest" /\ bg'.edit = es
      BY <1>0, <2>1, <2>2 DEF BgOf, BgPcs
    <3> QED  BY <2>2, <3>1 DEF BgTyped
  <2> QED  BY <1>0, <1>5, <1>6, <2>1, <2>3
<1>16. CASE WorkFails
  <2>1. db' = Failed([db EXCEPT !.pending = db.pending \ bg.out]) /\ UNCHANGED disk /\ Ended(db')
    BY <1>16 DEF WorkFails
  <2>2. db' \in DbOf
    <3>1. db.pending \ bg.out \in SUBSET Nat
      BY <1>4
    <3> QED  BY <1>0, <1>4, <2>1, <3>1, DbChanged
  <2>3. BgTyped'
    <3>1. PICK d : Ended(d)
      BY <2>1
    <3> QED  BY <3>1, EndedTyped
  <2> QED  BY <1>5, <1>6, <2>1, <2>2, <2>3
<1>17. CASE WriteManifest
  <2>1. bg.pc = "manifest" /\ bg.edit[1] \in EditOf /\ bg.edit \in EditsOf /\ bg.edit # <<>>
    <3>1. bg.pc = "manifest" /\ bg.edit \in EditsOf /\ bg.edit # <<>>
      BY <1>0, <1>17 DEF WriteManifest, BgTyped, BgOf
    <3> QED  BY <3>1, EditsTyped
  <2>2. disk' = [disk EXCEPT !.manifests[db.manifest] = Synced(Appended(disk.manifests[db.manifest], bg.edit[1]))]
        /\ bg' = [bg EXCEPT !.pc = "install"] /\ UNCHANGED db
    BY <1>17 DEF WriteManifest
  <2>3. db.manifest \in DOMAIN disk.manifests =>
            Synced(Appended(disk.manifests[db.manifest], bg.edit[1])) \in ManifestOf
    BY <1>0, <2>1, AppendedManifest DEF DiskTyped
  <2>4. DiskTyped' /\ SeqsBounded'
    BY <1>0, <2>2, <2>3, ManifestWritten
  <2>5. BgTyped'
    <3>1. bg' \in BgOf /\ bg'.pc = "install" /\ bg'.edit = bg.edit
      BY <1>0, <2>2 DEF BgOf, BgPcs
    <3> QED  BY <2>1, <3>1 DEF BgTyped
  <2> QED  BY <1>0, <1>5, <2>2, <2>4, <2>5
<1>18. CASE WriteManifestFails
  <2>1. bg.pc = "manifest" /\ bg.edit[1] \in EditOf
    <3>1. bg.pc = "manifest" /\ bg.edit \in EditsOf /\ bg.edit # <<>>
      BY <1>0, <1>18 DEF WriteManifestFails, BgTyped, BgOf
    <3> QED  BY <3>1, EditsTyped
  <2>2. DiskTyped' /\ SeqsBounded'
    <3>1. CASE UNCHANGED disk
      BY <1>6, <3>1
    <3>2. ASSUME NEW r \in {Torn, bg.edit[1]},
                 disk' = [disk EXCEPT !.manifests[db.manifest] = Appended(disk.manifests[db.manifest], r)]
          PROVE  DiskTyped' /\ SeqsBounded'
      <4>1. r \in EditOf \cup {Torn}
        BY <2>1, <3>2
      <4>2. db.manifest \in DOMAIN disk.manifests => Appended(disk.manifests[db.manifest], r) \in ManifestOf
        BY <1>0, <4>1, AppendedManifest DEF DiskTyped
      <4> QED  BY <1>0, <3>2, <4>2, ManifestWritten
    <3> QED  BY <1>18, <3>1, <3>2 DEF WriteManifestFails
  <2>3. PICK p \in SUBSET Nat : db' = Failed([db EXCEPT !.pending = p])
    <3>1. db.pending \in SUBSET Nat /\ db.pending \ bg.out \in SUBSET Nat
      BY <1>4
    <3>2. db' = Failed([db EXCEPT !.pending = IF IsFlush THEN db.pending ELSE db.pending \ bg.out])
      BY <1>18 DEF WriteManifestFails
    <3> QED  BY <3>1, <3>2
  <2>4. db' \in DbOf
    BY <1>0, <1>4, <2>3, DbChanged
  <2>5. PICK d : Ended(d) \/ FlushEnded(d)
    BY <1>18 DEF WriteManifestFails
  <2> QED  BY <1>5, <2>2, <2>4, <2>5, EndedTyped
<1>19. CASE InstallVersion
  <2>1. bg.pc = "install" /\ bg.edit[1] \in EditOf
    <3>1. bg.pc = "install" /\ bg.edit \in EditsOf /\ bg.edit # <<>>
      BY <1>0, <1>19 DEF InstallVersion, BgTyped, BgOf
    <3> QED  BY <3>1, EditsTyped
  <2>2. PICK imm \in ImmOf, p \in SUBSET Nat, version \in SUBSET Table :
            db' = [db EXCEPT !.version = version, !.logNumber = bg.edit[1].log, !.imm = imm, !.pending = p]
    <3>1. Applied(db.version, bg.edit[1]) \in SUBSET Table
      BY <1>4, <2>1 DEF Applied, EditOf
    <3>2. <<>> \in ImmOf /\ db.imm \in ImmOf
      BY <1>0 DEF ImmOf, DbOf
    <3>3. db.pending \in SUBSET Nat /\ db.pending \ bg.out \in SUBSET Nat
      BY <1>4
    <3>4. db' = [db EXCEPT !.version = Applied(db.version, bg.edit[1]), !.logNumber = bg.edit[1].log,
                           !.imm = IF IsFlush THEN <<>> ELSE db.imm,
                           !.pending = IF IsFlush THEN db.pending ELSE db.pending \ bg.out]
      BY <1>19 DEF InstallVersion
    <3> QED  BY <3>1, <3>2, <3>3, <3>4
  <2>3. db' \in DbOf
    <3>1. bg.edit[1].log \in Nat
      BY <2>1 DEF EditOf
    <3> QED  BY <1>0, <2>2, <3>1 DEF DbOf
  <2>4. DiskTyped' /\ SeqsBounded'
    <3>1. CASE UNCHANGED disk
      BY <1>6, <3>1
    <3>2. ASSUME NEW held, disk' = Collected(disk, db', held)  PROVE DiskTyped' /\ SeqsBounded'
      <4>1. PICK d, k : d = db' /\ k = disk
        OBVIOUS
      <4>2. /\ DOMAIN k = DOMAIN disk /\ k.current \in Nat /\ disk' = Collected(k, d, held)
            /\ k.logs = disk.logs /\ k.tables = disk.tables /\ k.manifests = disk.manifests
        BY <1>0, <3>2, <4>1 DEF DiskTyped
      <4> QED  BY <1>0, <4>2, DiskCollected
    <3> QED  BY <1>19, <3>1, <3>2 DEF InstallVersion
  <2>5. PICK d : Ended(d) \/ FlushEnded(d)
    BY <1>19 DEF InstallVersion
  <2> QED  BY <1>5, <2>3, <2>4, <2>5, EndedTyped
<1> QED  BY <1>7, <1>8, <1>9, <1>10, <1>11, <1>12, <1>13, <1>14, <1>15, <1>16, <1>17, <1>18, <1>19 DEF Background

LEMMA GreaterOfTwo ==
    ASSUME NEW a \in Nat, NEW b \in Nat
    PROVE  Max({a, b}) \in Nat /\ a <= Max({a, b}) /\ b <= Max({a, b}) /\ Max({a, b}) \in {a, b}
<1>1. {a, b} \in SUBSET Nat /\ {a, b} # {} /\ a + b \in Nat /\ \A x \in {a, b} : x <= a + b
  OBVIOUS
<1>2. Max({a, b}) \in {a, b} /\ \A x \in {a, b} : x <= Max({a, b})
  BY <1>1, GreatestExists
<1> QED  BY <1>2

LEMMA EntriesTyped ==
    ASSUME NEW f \in LogOf
    PROVE  /\ Entries(f) \subseteq Entry
           /\ \A b : BoundedLog(f, b) => \A e \in Entries(f) : e.seq <= b
<1>1. f.recs \in Seq([ents : SUBSET Entry] \cup {Torn}) /\ DOMAIN f.recs = 1 .. Len(f.recs)
      /\ \A i \in DOMAIN f.recs : f.recs[i] \in [ents : SUBSET Entry] \cup {Torn}
  BY DEF LogOf
<1>2. ASSUME NEW i \in Whole(f)
      PROVE  i \in DOMAIN f.recs /\ ~IsTorn(f.recs[i]) /\ f.recs[i].ents \subseteq Entry
  <2>1. i \in DOMAIN f.recs /\ ~IsTorn(f.recs[i])
    BY <1>1, WholeRecords
  <2> QED  BY <1>1, <2>1, TornRecords
<1>3. ASSUME NEW e \in Entries(f)  PROVE \E i \in Whole(f) : e \in f.recs[i].ents
  BY DEF Entries
<1>4. ASSUME NEW b, BoundedLog(f, b), NEW e \in Entries(f)  PROVE e.seq <= b
  <2>1. PICK i \in Whole(f) : e \in f.recs[i].ents
    BY <1>3
  <2> QED  BY <1>2, <1>4, <2>1 DEF BoundedLog
<1>5. ASSUME NEW e \in Entries(f)  PROVE e \in Entry
  BY <1>2, <1>3
<1> QED  BY <1>4, <1>5

\* What RecoverLog does, with its minima and maxima.
Recovered(n, ents, next, last, version) ==
    /\ n \in LogsToRecover /\ (\A k \in LogsToRecover : n <= k) /\ ents = Entries(disk.logs[n])
    /\ n \in Nat /\ n \in DOMAIN disk.logs /\ n >= db.logNumber /\ n > db.logfile /\ disk.logs[n] \in LogOf
    /\ ents \subseteq Entry
    /\ next \in Nat /\ next >= db.nextFile /\ next > n /\ (ents # {} => next > db.nextFile)
    /\ last \in Nat /\ last >= db.lastSeq /\ (\A e \in ents : e.seq <= last)
    /\ disk' = IF ents = {} THEN disk ELSE [disk EXCEPT !.tables = With(@, db.nextFile, ents)]
    /\ version = db.version \cup IF ents = {} THEN {} ELSE {<<db.nextFile, 0>>}
    /\ version \in SUBSET Table
    /\ db' = [db EXCEPT !.logfile = n, !.nextFile = next, !.lastSeq = last, !.version = version]

LEMMA LogRecovered ==
    ASSUME BaseInv, RecoverLog
    PROVE  \E n, ents, next, last, version : Recovered(n, ents, next, last, version)
<1> DEFINE n    == Min(LogsToRecover)
           ents == Entries(disk.logs[n])
           new  == IF ents = {} THEN db.nextFile ELSE db.nextFile + 1
           next == Max({new, n + 1})
           seqs == {db.lastSeq} \cup {e.seq : e \in ents}
           last == Max(seqs)
           version == db.version \cup IF ents = {} THEN {} ELSE {<<db.nextFile, 0>>}
<1>1. /\ LogsToRecover # {}
      /\ disk' = IF ents = {} THEN disk ELSE [disk EXCEPT !.tables = With(@, db.nextFile, ents)]
      /\ db' = [db EXCEPT !.logfile = n, !.nextFile = next, !.lastSeq = last, !.version = version]
  BY DEF RecoverLog
<1>2. db \in DbOf /\ DiskTyped /\ SeqsBounded
  BY DEF BaseInv, TypeInv
<1>3. db.nextFile \in Nat /\ db.logNumber \in Nat /\ db.logfile \in Nat /\ db.lastSeq \in Nat
      /\ db.version \in SUBSET Table
  BY <1>2 DEF DbOf
<1>4. LogsToRecover \in SUBSET Nat
  BY <1>2 DEF LogsToRecover, DiskTyped
<1>5. n \in LogsToRecover /\ \A k \in LogsToRecover : n <= k
  BY <1>1, <1>4, LeastExists
<1> HIDE DEF n
<1>6. n \in Nat /\ n \in DOMAIN disk.logs /\ n >= db.logNumber /\ n > db.logfile
  BY <1>4, <1>5 DEF LogsToRecover
<1>7. disk.logs[n] \in LogOf /\ \E b \in Nat : BoundedLog(disk.logs[n], b)
  BY <1>2, <1>6 DEF DiskTyped, SeqsBounded, BoundedLog
<1>8. PICK b \in Nat : BoundedLog(disk.logs[n], b)
  BY <1>7
<1>9. ents \subseteq Entry /\ \A e \in ents : e.seq <= b
  BY <1>7, <1>8, EntriesTyped
<1> HIDE DEF ents
<1>10. new \in Nat /\ new >= db.nextFile /\ (ents # {} => new > db.nextFile)
  BY <1>3
<1> HIDE DEF new
<1>11. next \in Nat /\ new <= next /\ n + 1 <= next
  <2>1. n + 1 \in Nat
    BY <1>6
  <2> QED  BY <1>10, <2>1, GreaterOfTwo
<1> HIDE DEF next
<1>12. last \in Nat /\ last >= db.lastSeq /\ \A e \in ents : e.seq <= last
  <2>1. seqs \in SUBSET Nat /\ db.lastSeq \in seqs /\ \A e \in ents : e.seq \in seqs
    BY <1>3, <1>9 DEF Entry
  <2>2. \A x \in seqs : x <= db.lastSeq + b
    <3>1. \A e \in ents : e.seq \in Nat
      BY <1>9 DEF Entry
    <3> QED  BY <1>3, <1>9, <3>1
  <2> HIDE DEF seqs
  <2>3. last \in seqs /\ \A x \in seqs : x <= last
    <3>1. db.lastSeq + b \in Nat
      BY <1>3
    <3> QED  BY <2>1, <2>2, <3>1, GreatestExists
  <2>4. last \in Nat /\ last >= db.lastSeq
    BY <1>3, <2>1, <2>3
  <2> QED  BY <2>1, <2>3, <2>4
<1> HIDE DEF last
<1>13. version \in SUBSET Table
  BY <1>3 DEF Table
<1>14. next >= db.nextFile /\ next > n /\ (ents # {} => next > db.nextFile)
  BY <1>3, <1>6, <1>10, <1>11
<1>15. Recovered(n, ents, next, last, version)
  <2> HIDE DEF version
  <2>1. version = db.version \cup IF ents = {} THEN {} ELSE {<<db.nextFile, 0>>}
    BY DEF version
  <2>2. ents = Entries(disk.logs[n])
    BY DEF ents
  <2> QED  BY <1>1, <1>5, <1>6, <1>7, <1>9, <1>11, <1>12, <1>13, <1>14, <2>1, <2>2 DEF Recovered
<1> QED  BY <1>15

LEMMA OpenTyped ==
    ASSUME BaseInv, Open
    PROVE  TypeInv'
<1>0. /\ db \in DbOf /\ DiskTyped /\ SeqsBounded /\ BgTyped /\ QuietInv
      /\ pinned \in SUBSET SUBSET Table /\ owed \subseteq [id : Nat, sync : BOOLEAN] /\ behind \subseteq Nat
  BY DEF BaseInv, TypeInv
<1>1. db.up # "open" /\ UNCHANGED <<pinned, owed, behind>>
  BY DEF Open, NewDB, Recover, RecoverLog, NewManifest, SetCurrent, OpenStep
<1>2. bg = BgOff /\ pinned = {}
  BY <1>0, <1>1 DEF QuietInv
<1>3. BgOff \in BgOf /\ BgOff.pc = "off"
  BY DEF BgOff, BgOf, BgPcs, EditsOf
<1>4. db.nextFile \in Nat /\ db.logNumber \in Nat /\ db.logfile \in Nat /\ db.lastSeq \in Nat
      /\ db.manifest \in Nat /\ db.version \in SUBSET Table
  BY <1>0 DEF DbOf
<1>5. CASE NewDB
  <2>1. /\ db.up = "down" /\ UNCHANGED <<db, bg>>
        /\ disk' = [disk EXCEPT !.current = 1,
                    !.manifests = With(@, 1, Appended(File, Edit(0, 2, 0, {}, {})))]
    BY <1>5 DEF NewDB
  <2> DEFINE f == Appended(File, Edit(0, 2, 0, {}, {}))
  <2>2. f \in ManifestOf
    <3>1. Edit(0, 2, 0, {}, {}) \in EditOf
      BY EditTyped
    <3> QED  BY <3>1, FileTyped, AppendedManifest
  <2> HIDE DEF f
  <2>3. /\ DOMAIN disk' = DOMAIN disk /\ disk'.current = 1 /\ disk'.tables = disk.tables
        /\ disk'.logs = disk.logs /\ disk'.manifests = With(disk.manifests, 1, f)
    BY <1>0, <2>1 DEF DiskTyped, f
  <2>4. /\ DOMAIN disk'.manifests = DOMAIN disk.manifests \cup {1}
        /\ \A n \in DOMAIN disk'.manifests : disk'.manifests[n] = IF n = 1 THEN f ELSE disk.manifests[n]
    BY <2>3 DEF With
  <2>5. DiskTyped' /\ SeqsBounded'
    BY <1>0, <2>2, <2>3, <2>4, LogsSame DEF DiskTyped
  <2> QED  BY <1>0, <1>1, <2>1, <2>5 DEF TypeInv, BgTyped, QuietInv
<1>6. CASE Recover
  <2>1. db.up = "down" /\ UNCHANGED <<disk, bg>>
    BY <1>6 DEF Recover
  <2> DEFINE m == disk.manifests[disk.current]
             e == LastEdit(m)
  <2>2. \/ db' = [Closed EXCEPT !.up = "corrupt"]
        \/ /\ disk.current \in DOMAIN disk.manifests /\ Readable(m)
           /\ db' = [Closed EXCEPT !.up = "logs", !.manifest = e.next, !.nextFile = e.next + 1,
                                   !.lastSeq = e.last, !.logNumber = e.log, !.version = VersionOf(m)]
    BY <1>6 DEF Recover
  <2>3. db' \in DbOf /\ QuietInv'
    <3>1. CASE db' = [Closed EXCEPT !.up = "corrupt"]
      <4>1. db' \in DbOf /\ db'.up = "corrupt" /\ db' = [Closed EXCEPT !.up = db'.up]
        BY <3>1 DEF Closed, DbOf, ImmOf
      <4> QED  BY <1>1, <1>2, <2>1, <4>1 DEF QuietInv
    <3>2. CASE /\ disk.current \in DOMAIN disk.manifests /\ Readable(m)
               /\ db' = [Closed EXCEPT !.up = "logs", !.manifest = e.next, !.nextFile = e.next + 1,
                                       !.lastSeq = e.last, !.logNumber = e.log, !.version = VersionOf(m)]
      <4>1. m \in ManifestOf
        BY <1>0, <3>2 DEF DiskTyped
      <4>2. e \in EditOf /\ VersionOf(m) \subseteq Table
        BY <3>2, <4>1, ReadableManifest, VersionTyped
      <4> HIDE DEF e, m
      <4>3. e.next \in Nat /\ e.next + 1 \in Nat /\ e.last \in Nat /\ e.log \in Nat
        BY <4>2 DEF EditOf
      <4>4. db' \in DbOf /\ db'.up = "logs" /\ db'.mem = {} /\ db'.imm = <<>> /\ db'.pending = {} /\ ~db'.error
        BY <3>2, <4>2, <4>3 DEF Closed, DbOf, ImmOf
      <4> QED  BY <1>1, <1>2, <2>1, <4>4 DEF QuietInv
    <3> QED  BY <2>2, <3>1, <3>2
  <2>4. DiskTyped' /\ SeqsBounded'
    BY <1>0, <2>1 DEF DiskTyped, SeqsBounded
  <2>5. BgTyped'
    BY <1>2, <1>3, <2>1 DEF BgTyped
  <2> QED  BY <1>0, <1>1, <2>3, <2>4, <2>5 DEF TypeInv
<1>7. CASE RecoverLog
  <2>1. PICK n, ents, next, last, version : Recovered(n, ents, next, last, version)
    BY <1>7, LogRecovered
  <2>2. db.up = "logs" /\ bg' = bg
    BY <1>7 DEF RecoverLog
  <2>3. db' \in DbOf /\ db'.up = "logs" /\ db'.mem = db.mem /\ db'.imm = db.imm /\ db'.pending = db.pending
        /\ db'.error = db.error
    BY <1>0, <2>1, <2>2 DEF Recovered, DbOf
  <2>4. QuietInv'
    BY <1>0, <1>1, <1>2, <2>2, <2>3 DEF QuietInv
  <2>5. DiskTyped' /\ SeqsBounded'
    <3>1. CASE UNCHANGED disk
      BY <1>0, <3>1 DEF DiskTyped, SeqsBounded
    <3>2. CASE disk' = [disk EXCEPT !.tables = With(@, db.nextFile, ents)]
      BY <1>0, <1>4, <3>2, TableWritten
    <3> QED  BY <2>1, <3>1, <3>2 DEF Recovered
  <2>6. BgTyped'
    BY <1>2, <1>3, <2>2 DEF BgTyped
  <2> QED  BY <1>0, <1>1, <2>3, <2>4, <2>5, <2>6 DEF TypeInv
<1>8. CASE NewManifest
  <2> DEFINE log  == db.nextFile
             edit == Edit(log, log + 1, db.lastSeq, db.version, {})
             f    == Synced(Appended(File, edit))
  <2>1. /\ db.up = "logs" /\ bg' = bg
        /\ disk' = [disk EXCEPT !.logs = With(@, log, File), !.manifests = With(@, db.manifest, f)]
        /\ db' = [db EXCEPT !.up = "current", !.logfile = log, !.logNumber = log, !.nextFile = log + 1]
    BY <1>8 DEF NewManifest
  <2>2. f \in ManifestOf
    <3>1. edit \in EditOf
      <4>1. log + 1 \in Nat /\ {} \in SUBSET Table
        BY <1>4
      <4> QED  BY <1>4, <4>1, EditTyped
    <3> HIDE DEF edit
    <3> QED  BY <3>1, FileTyped, AppendedManifest
  <2> HIDE DEF f
  <2>3. /\ DOMAIN disk' = DOMAIN disk /\ disk'.current = disk.current /\ disk'.tables = disk.tables
        /\ disk'.logs = With(disk.logs, log, File) /\ disk'.manifests = With(disk.manifests, db.manifest, f)
    BY <1>0, <2>1 DEF DiskTyped
  <2>4. /\ DOMAIN disk'.manifests = DOMAIN disk.manifests \cup {db.manifest}
        /\ \A n \in DOMAIN disk'.manifests :
              disk'.manifests[n] = IF n = db.manifest THEN f ELSE disk.manifests[n]
    BY <2>3 DEF With
  <2>5. DiskTyped' /\ SeqsBounded'
    BY <1>0, <1>4, <2>2, <2>3, <2>4, LogCreated DEF DiskTyped
  <2>6. db' \in DbOf /\ db'.up = "current" /\ db'.mem = db.mem /\ db'.imm = db.imm
        /\ db'.pending = db.pending /\ db'.error = db.error
    <3>1. log \in Nat /\ log + 1 \in Nat
      BY <1>4
    <3> DEFINE d == [db EXCEPT !.up = "current", !.logfile = log, !.logNumber = log, !.nextFile = log + 1]
    <3>2. db' = d
      BY <2>1
    <3> HIDE DEF log
    <3>3. d \in DbOf /\ d.up = "current" /\ d.mem = db.mem /\ d.imm = db.imm
          /\ d.pending = db.pending /\ d.error = db.error
      BY <1>0, <3>1 DEF DbOf
    <3> HIDE DEF d
    <3> QED  BY <3>2, <3>3
  <2>7. QuietInv' /\ BgTyped'
    BY <1>0, <1>1, <1>2, <1>3, <2>1, <2>6 DEF QuietInv, BgTyped
  <2> QED  BY <1>0, <1>1, <2>5, <2>6, <2>7 DEF TypeInv
<1>9. CASE SetCurrent
  <2> DEFINE k == [disk EXCEPT !.current = db.manifest]
  <2>1. /\ db.up = "current" /\ db' = [db EXCEPT !.up = "open"] /\ bg' = Scheduled(bg, db')
        /\ disk' = Collected(k, db', {})
    BY <1>9 DEF SetCurrent
  <2>2. db' \in DbOf /\ db'.up = "open"
    BY <1>0, <2>1 DEF DbOf
  <2>3. /\ DOMAIN k = DOMAIN disk /\ k.current = db.manifest
        /\ k.logs = disk.logs /\ k.tables = disk.tables /\ k.manifests = disk.manifests
    BY <1>0 DEF DiskTyped
  <2>4. PICK d, c : d = db' /\ c = k
    OBVIOUS
  <2> HIDE DEF k
  <2>5. DiskTyped' /\ SeqsBounded'
    BY <1>0, <1>4, <2>1, <2>3, <2>4, DiskCollected
  <2>6. BgTyped'
    <3>1. bg' = Scheduled(BgOff, d)
      BY <1>2, <2>1, <2>4
    <3>2. bg' \in BgOf /\ bg'.pc \in {"off", "due"}
      BY <1>3, <3>1, ScheduledTyped
    <3> QED  BY <3>2 DEF BgTyped
  <2>7. QuietInv'
    BY <2>2 DEF QuietInv
  <2> QED  BY <1>0, <1>1, <2>2, <2>5, <2>6, <2>7 DEF TypeInv
<1> QED  BY <1>5, <1>6, <1>7, <1>8, <1>9 DEF Open

\* What a crash of the machine leaves of a file.
LEMMA CutTyped ==
    ASSUME NEW R, NEW f \in FileOf(R), NEW k \in f.synced .. Len(f.recs)
    PROVE  LET c == [recs |-> SubSeq(f.recs, 1, k), synced |-> k]
           IN  /\ c \in FileOf(R) /\ k \in Nat /\ k <= Len(f.recs) /\ Len(c.recs) = k
               /\ \A i \in 1 .. k : c.recs[i] = f.recs[i] /\ i \in 1 .. Len(f.recs)
<1>1. f.recs \in Seq(R) /\ f.synced \in Nat /\ Len(f.recs) \in Nat
      /\ \A i \in 1 .. Len(f.recs) : f.recs[i] \in R
  BY DEF FileOf
<1>2. k \in Nat /\ k <= Len(f.recs)
  BY <1>1
<1>3. \A i \in 1 .. k : i \in 1 .. Len(f.recs) /\ f.recs[i] \in R
  BY <1>1, <1>2
<1> DEFINE s == SubSeq(f.recs, 1, k)
<1>4. /\ s \in Seq(R) /\ Len(s) = IF 1 <= k THEN k - 1 + 1 ELSE 0
      /\ \A i \in 1 .. k - 1 + 1 : s[i] = f.recs[1 + i - 1]
  <2>1. 1 \in Int /\ k \in Int
    BY <1>2
  <2> QED  BY <1>3, <2>1, SubSeqProperties
<1> HIDE DEF s
<1>5. Len(s) = k /\ \A i \in 1 .. k : s[i] = f.recs[i]
  BY <1>2, <1>4
<1> QED  BY <1>2, <1>3, <1>4, <1>5 DEF s, FileOf

LEMMA CrashTyped ==
    ASSUME BaseInv, ProcessCrash \/ MachineCrash
    PROVE  TypeInv'
<1>0. /\ db \in DbOf /\ DiskTyped /\ SeqsBounded /\ BgTyped /\ QuietInv
      /\ pinned \in SUBSET SUBSET Table /\ owed \subseteq [id : Nat, sync : BOOLEAN] /\ behind \subseteq Nat
  BY DEF BaseInv, TypeInv
<1>1. /\ db' = Closed /\ bg' = BgOff /\ pinned' = {} /\ UNCHANGED behind
      /\ owed' \subseteq owed
  BY DEF ProcessCrash, MachineCrash, Crash
<1>2. db' \in DbOf /\ db'.up = "down" /\ db' = [Closed EXCEPT !.up = db'.up]
  BY <1>1 DEF Closed, DbOf, ImmOf
<1>3. BgTyped' /\ QuietInv'
  BY <1>1, <1>2 DEF BgTyped, QuietInv, BgOff, BgOf, BgPcs, EditsOf
<1>4. DiskTyped' /\ SeqsBounded'
  <2>1. CASE UNCHANGED disk
    BY <1>0, <2>1 DEF DiskTyped, SeqsBounded
  <2>2. ASSUME NEW l \in Cuts(disk.logs), NEW m \in Cuts(disk.manifests),
               disk' = [disk EXCEPT !.logs = CutAt(@, l), !.manifests = CutAt(@, m)]
        PROVE  DiskTyped' /\ SeqsBounded'
    <3>1. /\ DOMAIN disk' = DOMAIN disk /\ disk'.current = disk.current /\ disk'.tables = disk.tables
          /\ disk'.logs = CutAt(disk.logs, l) /\ disk'.manifests = CutAt(disk.manifests, m)
      BY <1>0, <2>2 DEF DiskTyped
    <3>2. /\ DOMAIN disk'.logs = DOMAIN disk.logs /\ DOMAIN disk'.manifests = DOMAIN disk.manifests
          /\ \A n \in DOMAIN disk.logs :
                disk'.logs[n] = [recs |-> SubSeq(disk.logs[n].recs, 1, l[n]), synced |-> l[n]]
          /\ \A n \in DOMAIN disk.manifests :
                disk'.manifests[n] = [recs |-> SubSeq(disk.manifests[n].recs, 1, m[n]), synced |-> m[n]]
      BY <3>1 DEF CutAt
    <3>3. /\ \A n \in DOMAIN disk.logs : l[n] \in disk.logs[n].synced .. Len(disk.logs[n].recs)
          /\ \A n \in DOMAIN disk.manifests : m[n] \in disk.manifests[n].synced .. Len(disk.manifests[n].recs)
      BY <2>2 DEF Cuts
    <3>4. ASSUME NEW n \in DOMAIN disk'.logs
          PROVE  /\ n \in Nat /\ disk'.logs[n] \in LogOf /\ n \in DOMAIN disk.logs
                 /\ \A i \in DOMAIN disk'.logs[n].recs :
                       i \in DOMAIN disk.logs[n].recs /\ disk'.logs[n].recs[i] = disk.logs[n].recs[i]
      <4> DEFINE R == [ents : SUBSET Entry] \cup {Torn}
                 f == disk.logs[n]
                 c == disk'.logs[n]
      <4>1. LogOf = FileOf(R)
        BY DEF LogOf, FileOf
      <4>2. n \in DOMAIN disk.logs /\ n \in Nat /\ f \in FileOf(R) /\ l[n] \in f.synced .. Len(f.recs)
            /\ c = [recs |-> SubSeq(f.recs, 1, l[n]), synced |-> l[n]]
        BY <1>0, <3>2, <3>3, <3>4, <4>1 DEF DiskTyped
      <4> HIDE DEF R
      <4>3. /\ c \in FileOf(R) /\ Len(c.recs) = l[n] /\ l[n] \in Nat
            /\ \A i \in 1 .. l[n] : c.recs[i] = f.recs[i] /\ i \in 1 .. Len(f.recs)
        <5>1. PICK k : k = l[n]
          OBVIOUS
        <5>2. PICK g, d : g = f /\ d = c
          OBVIOUS
        <5> HIDE DEF f, c
        <5>3. k \in g.synced .. Len(g.recs) /\ g \in FileOf(R) /\ d = [recs |-> SubSeq(g.recs, 1, k), synced |-> k]
          BY <4>2, <5>1, <5>2
        <5>4. /\ d \in FileOf(R) /\ Len(d.recs) = k /\ k \in Nat
              /\ \A i \in 1 .. k : d.recs[i] = g.recs[i] /\ i \in 1 .. Len(g.recs)
          BY <5>3, CutTyped
        <5> QED  BY <5>1, <5>2, <5>4
      <4>4. DOMAIN c.recs = 1 .. l[n] /\ DOMAIN f.recs = 1 .. Len(f.recs)
        BY <4>2, <4>3 DEF FileOf
      <4> QED  BY <4>1, <4>2, <4>3, <4>4
    <3>5. ASSUME NEW n \in DOMAIN disk'.manifests  PROVE n \in Nat /\ disk'.manifests[n] \in ManifestOf
      <4> DEFINE R == EditOf \cup {Torn}
                 f == disk.manifests[n]
                 c == disk'.manifests[n]
      <4>1. ManifestOf = FileOf(R)
        BY DEF ManifestOf, FileOf
      <4>2. n \in DOMAIN disk.manifests /\ n \in Nat /\ f \in FileOf(R) /\ m[n] \in f.synced .. Len(f.recs)
            /\ c = [recs |-> SubSeq(f.recs, 1, m[n]), synced |-> m[n]]
        BY <1>0, <3>2, <3>3, <3>5, <4>1 DEF DiskTyped
      <4> HIDE DEF R
      <4>3. PICK k, g, d : k = m[n] /\ g = f /\ d = c
        OBVIOUS
      <4> HIDE DEF f, c
      <4>4. k \in g.synced .. Len(g.recs) /\ g \in FileOf(R) /\ d = [recs |-> SubSeq(g.recs, 1, k), synced |-> k]
        BY <4>2, <4>3
      <4>5. d \in FileOf(R)
        BY <4>4, CutTyped
      <4> QED  BY <4>1, <4>2, <4>3, <4>5 DEF c
    <3> QED  BY <1>0, <3>1, <3>2, <3>4, <3>5, LogsShrink DEF DiskTyped
  <2> QED  BY <2>1, <2>2 DEF ProcessCrash, MachineCrash, Crash
<1> QED  BY <1>0, <1>1, <1>2, <1>3, <1>4 DEF TypeInv

LEMMA BaseStep == BaseInv /\ [Next]_vars => BaseInv'
<1> SUFFICES ASSUME BaseInv, [Next]_vars  PROVE TypeInv'
  BY QueueStep DEF BaseInv
<1>0. /\ db \in DbOf /\ DiskTyped /\ SeqsBounded /\ BgTyped /\ QuietInv
      /\ pinned \in SUBSET SUBSET Table /\ owed \subseteq [id : Nat, sync : BOOLEAN] /\ behind \subseteq Nat
  BY DEF BaseInv, TypeInv
<1>1. ASSUME UNCHANGED <<disk, db, bg, owed, behind>>, pinned' \in SUBSET SUBSET Table,
             pinned' = {} \/ db.up = "open"
      PROVE  TypeInv'
  <2>1. DiskTyped' /\ SeqsBounded' /\ BgTyped'
    BY <1>0, <1>1 DEF DiskTyped, SeqsBounded, BgTyped
  <2>2. QuietInv'
    BY <1>0, <1>1 DEF QuietInv
  <2> QED  BY <1>0, <1>1, <2>1, <2>2 DEF TypeInv
<1>2. CASE UNCHANGED vars
  <2>1. UNCHANGED <<disk, db, bg, owed, behind, pinned>>
    BY <1>2 DEF vars
  <2>2. pinned = {} \/ db.up = "open"
    BY <1>0 DEF QuietInv
  <2> QED  BY <1>0, <1>1, <2>1, <2>2
<1>3. ASSUME NEW w \in Writer, NEW sync \in BOOLEAN, NEW batch \in BOOLEAN, Call(w, sync, batch)
      PROVE  TypeInv'
  BY <1>0, <1>1, <1>3 DEF Call
<1>4. CASE PinVersion
  <2>1. db.version \in SUBSET Table
    BY <1>0 DEF DbOf
  <2> QED  BY <1>1, <1>4, <2>1 DEF PinVersion
<1>5. CASE UnpinVersion
  BY <1>1, <1>5 DEF UnpinVersion
<1> QED  BY <1>2, <1>3, <1>4, <1>5, ThreadTyped, BackgroundTyped, OpenTyped, CrashTyped DEF Next

-----------------------------------------------------------------------------
(* What the steps do, field by field.                                      *)

\* A step of a database that is open, with what it makes of the fields that the
\* background thread changes.
DbIs(next, pending, version, logNumber, imm, error) ==
    /\ db.up = "open" /\ db'.up = "open"
    /\ db'.manifest = db.manifest /\ db'.logfile = db.logfile /\ db'.lastSeq = db.lastSeq /\ db'.mem = db.mem
    /\ db'.nextFile = next /\ db'.pending = pending /\ db'.version = version
    /\ db'.logNumber = logNumber /\ db'.imm = imm /\ (db'.error <=> error)

BgIs(pc, num, edit, inputs, out, written, inWork) ==
    /\ bg'.pc = pc /\ bg'.num = num /\ bg'.edit = edit /\ bg'.inputs = inputs /\ bg'.out = out
    /\ (bg'.written <=> written) /\ (bg'.inWork <=> inWork)

\* The background thread has done its work, or goes on with a compaction.
HasEnded ==
    /\ \E pc \in {"off", "due"} : BgIs(pc, 0, <<>>, {}, {}, FALSE, FALSE)
    /\ bg'.pc = "due" => ~db'.error /\ (db'.imm # <<>> \/ NeedsCompaction(db'.version))
BackToWork == bg.inWork /\ BgIs("work", 0, <<>>, bg.inputs, bg.out, bg.written, FALSE)
FlushIsOver == IF bg.inWork THEN BackToWork ELSE HasEnded

LEMMA EndedEffect ==
    ASSUME BaseInv
    PROVE  /\ Ended(db') => HasEnded
           /\ FlushEnded(db') => FlushIsOver
<1>1. bg \in BgOf
  BY DEF BaseInv, TypeInv, BgTyped
<1>2. BgOff \in BgOf /\ BgOff.pc = "off" /\ BgOff.num = 0 /\ BgOff.edit = <<>> /\ BgOff.inputs = {}
      /\ BgOff.out = {} /\ BgOff.written = FALSE /\ BgOff.inWork = FALSE
  BY DEF BgOff, BgOf, BgPcs, EditsOf
<1>3. ASSUME Ended(db')  PROVE HasEnded
  <2>1. bg' = Scheduled(BgOff, db')
    BY <1>3 DEF Ended
  <2> HIDE DEF BgOff
  <2>2. PICK d : d = db'
    OBVIOUS
  <2>3. bg' = Scheduled(BgOff, d)
    BY <2>1, <2>2
  <2>4. CASE Scheduled(BgOff, d) = BgOff
    <3>1. BgIs("off", 0, <<>>, {}, {}, FALSE, FALSE) /\ bg'.pc = "off"
      BY <1>2, <2>3, <2>4 DEF BgIs
    <3> QED  BY <3>1 DEF HasEnded
  <2>5. CASE /\ Scheduled(BgOff, d) = [BgOff EXCEPT !.pc = "due"] /\ BgOff.pc = "off" /\ ~d.error
             /\ (d.imm # <<>> \/ NeedsCompaction(d.version))
    <3>1. bg' = [BgOff EXCEPT !.pc = "due"]
      BY <2>3, <2>5
    <3>2. BgIs("due", 0, <<>>, {}, {}, FALSE, FALSE) /\ bg'.pc = "due"
      BY <1>2, <3>1 DEF BgIs, BgOf
    <3>3. ~db'.error /\ (db'.imm # <<>> \/ NeedsCompaction(db'.version))
      BY <2>2, <2>5
    <3> QED  BY <3>2, <3>3 DEF HasEnded
  <2> QED  BY <1>2, <2>4, <2>5, ScheduledTyped
<1>4. ASSUME FlushEnded(db')  PROVE FlushIsOver
  <2>1. CASE bg.inWork
    <3>1. bg' = [bg EXCEPT !.pc = "work", !.num = 0, !.edit = <<>>, !.inWork = FALSE]
      BY <1>4, <2>1 DEF FlushEnded
    <3>2. bg'.pc = "work" /\ bg'.num = 0 /\ bg'.edit = <<>> /\ bg'.inputs = bg.inputs /\ bg'.out = bg.out
          /\ bg'.written = bg.written /\ bg'.inWork = FALSE
      BY <1>1, <3>1 DEF BgOf
    <3> QED  BY <2>1, <3>2 DEF FlushIsOver, BackToWork, BgIs
  <2>2. CASE ~bg.inWork
    BY <1>3, <1>4, <2>2 DEF FlushEnded, FlushIsOver
  <2> QED  BY <2>1, <2>2
<1> QED  BY <1>3, <1>4

\* What holds of every step of the background thread.
LEMMA BackgroundOpen ==
    ASSUME BaseInv, Background
    PROVE  /\ db.up = "open" /\ db'.up = "open" /\ db \in DbOf /\ bg \in BgOf /\ DiskTyped /\ BgTyped
           /\ db.nextFile \in Nat /\ db.pending \in SUBSET Nat /\ db.version \in SUBSET Table
           /\ db.logfile \in Nat /\ db.logNumber \in Nat /\ db.lastSeq \in Nat /\ db.manifest \in Nat
           /\ bg.num \in Nat /\ bg.inputs \in SUBSET Table /\ bg.out \in SUBSET Nat
           /\ UNCHANGED <<queue, pinned, owed, behind>> /\ call' \in {call, SignalAll(call)}
<1>0. db \in DbOf /\ DiskTyped /\ BgTyped /\ QuietInv /\ bg \in BgOf
  BY DEF BaseInv, TypeInv, BgTyped
<1>1. bg.pc # "off" /\ UNCHANGED <<queue, pinned, owed, behind>> /\ call' \in {call, SignalAll(call)}
  BY DEF Background, NothingToDo, StartFlush, BuildTable, BuildTableFails, StartMove, StartCompaction,
         OpenOutput, WriteOutput, EndWork, WorkFails, WriteManifest, WriteManifestFails, InstallVersion,
         FlushEnded, Ended
<1>2. db.up = "open" /\ db'.up = "open"
  BY <1>0, <1>1, StaysOpen DEF QuietInv, BgOff
<1>3. /\ db.nextFile \in Nat /\ db.pending \in SUBSET Nat /\ db.version \in SUBSET Table
      /\ db.logfile \in Nat /\ db.logNumber \in Nat /\ db.lastSeq \in Nat /\ db.manifest \in Nat
      /\ bg.num \in Nat /\ bg.inputs \in SUBSET Table /\ bg.out \in SUBSET Nat
  BY <1>0 DEF DbOf, BgOf
<1> QED  BY <1>0, <1>1, <1>2, <1>3

LEMMA PendingEffect ==
    ASSUME NEW d \in DbOf, NEW p
    PROVE  LET e == [d EXCEPT !.pending = p]
           IN  /\ e.manifest = d.manifest /\ e.logfile = d.logfile /\ e.lastSeq = d.lastSeq /\ e.mem = d.mem
               /\ e.nextFile = d.nextFile /\ e.pending = p /\ e.version = d.version
               /\ e.logNumber = d.logNumber /\ e.imm = d.imm /\ e.error = d.error
               /\ Failed(e).manifest = d.manifest /\ Failed(e).logfile = d.logfile
               /\ Failed(e).lastSeq = d.lastSeq /\ Failed(e).mem = d.mem
               /\ Failed(e).nextFile = d.nextFile /\ Failed(e).pending = p /\ Failed(e).version = d.version
               /\ Failed(e).logNumber = d.logNumber /\ Failed(e).imm = d.imm /\ Failed(e).error = TRUE
  BY DEF DbOf, Failed

LEMMA FailedEffect ==
    ASSUME BaseInv, Background, NEW p, db' = Failed([db EXCEPT !.pending = p])
    PROVE  DbIs(db.nextFile, p, db.version, db.logNumber, db.imm, TRUE)
<1> DEFINE d == Failed([db EXCEPT !.pending = p])
<1>1. db \in DbOf /\ db.up = "open" /\ db'.up = "open"
  BY BackgroundOpen
<1>2. /\ d.manifest = db.manifest /\ d.logfile = db.logfile /\ d.lastSeq = db.lastSeq /\ d.mem = db.mem
      /\ d.nextFile = db.nextFile /\ d.pending = p /\ d.version = db.version
      /\ d.logNumber = db.logNumber /\ d.imm = db.imm /\ d.error = TRUE
  BY <1>1, PendingEffect
<1> HIDE DEF d
<1>3. db' = d
  BY DEF d
<1> QED  BY <1>1, <1>2, <1>3 DEF DbIs

LEMMA NothingToDoEffect ==
    ASSUME BaseInv, NothingToDo
    PROVE  /\ UNCHANGED <<disk, db>> /\ bg.pc = "due" /\ HasEnded
           /\ DbIs(db.nextFile, db.pending, db.version, db.logNumber, db.imm, db.error)
<1>1. Background
  BY DEF Background
<1> QED  BY <1>1, BackgroundOpen, EndedEffect DEF NothingToDo, DbIs

LEMMA StartFlushEffect ==
    ASSUME BaseInv, StartFlush
    PROVE  /\ bg.pc \in {"work", "due"} /\ (bg.pc = "due" => ~db.error) /\ db.imm # <<>> /\ disk' = disk
           /\ DbIs(db.nextFile + 1, db.pending \cup {db.nextFile}, db.version, db.logNumber, db.imm, db.error)
           /\ BgIs("build", db.nextFile, bg.edit, bg.inputs, bg.out, bg.written, bg.pc = "work")
<1>1. Background
  BY DEF Background
<1>2. /\ bg.pc \in {"work", "due"} /\ (bg.pc = "due" => ~db.error) /\ db.imm # <<>> /\ disk' = disk
      /\ db' = [db EXCEPT !.nextFile = db.nextFile + 1, !.pending = db.pending \cup {db.nextFile}]
      /\ bg' = [bg EXCEPT !.pc = "build", !.num = db.nextFile, !.inWork = (bg.pc = "work")]
  BY DEF StartFlush
<1>3. DbIs(db.nextFile + 1, db.pending \cup {db.nextFile}, db.version, db.logNumber, db.imm, db.error)
  <2> DEFINE p == db.pending \cup {db.nextFile}
             x == db.nextFile + 1
  <2>1. db' = [db EXCEPT !.nextFile = x, !.pending = p]
    BY <1>2
  <2> HIDE DEF p, x
  <2>2. DbIs(x, p, db.version, db.logNumber, db.imm, db.error)
    BY <1>1, <2>1, BackgroundOpen DEF DbOf, DbIs
  <2> QED  BY <2>2 DEF p, x
<1>4. BgIs("build", db.nextFile, bg.edit, bg.inputs, bg.out, bg.written, bg.pc = "work")
  <2>1. PICK work \in BOOLEAN : work <=> bg.pc = "work"
    OBVIOUS
  <2>2. bg' = [bg EXCEPT !.pc = "build", !.num = db.nextFile, !.inWork = work]
    BY <1>2, <2>1
  <2>3. BgIs("build", db.nextFile, bg.edit, bg.inputs, bg.out, bg.written, work)
    BY <1>1, <2>2, BackgroundOpen DEF BgOf, BgIs
  <2> QED  BY <2>1, <2>3 DEF BgIs
<1> QED  BY <1>2, <1>3, <1>4

LEMMA BuildTableEffect ==
    ASSUME BaseInv, BuildTable
    PROVE  LET ents == db.imm[1]
               add  == IF ents = {} THEN {} ELSE {<<bg.num, 0>>}
               e    == Edit(db.logfile, db.nextFile, db.lastSeq, add, {})
           IN  /\ bg.pc = "build" /\ db.imm # <<>>
               /\ disk' = IF ents = {} THEN disk ELSE [disk EXCEPT !.tables = With(@, bg.num, ents)]
               /\ DbIs(db.nextFile, db.pending \ {bg.num}, db.version, db.logNumber, db.imm, db.error)
               /\ BgIs("manifest", bg.num, <<e>>, bg.inputs, bg.out, bg.written, bg.inWork)
<1> DEFINE p == db.pending \ {bg.num}
           d == [db EXCEPT !.pending = p]
           add == IF db.imm[1] = {} THEN {} ELSE {<<bg.num, 0>>}
           es == <<Edit(db.logfile, db.nextFile, db.lastSeq, add, {})>>
<1>1. Background
  BY DEF Background
<1>2. /\ bg.pc = "build" /\ db' = d
      /\ disk' = IF db.imm[1] = {} THEN disk ELSE [disk EXCEPT !.tables = With(@, bg.num, db.imm[1])]
      /\ bg' = [bg EXCEPT !.pc = "manifest", !.edit = <<Edit(d.logfile, d.nextFile, d.lastSeq, add, {})>>]
  BY DEF BuildTable
<1>3. d.logfile = db.logfile /\ d.nextFile = db.nextFile /\ d.lastSeq = db.lastSeq
  BY <1>1, BackgroundOpen, PendingEffect
<1>4. DbIs(db.nextFile, p, db.version, db.logNumber, db.imm, db.error)
  BY <1>1, <1>2, BackgroundOpen, PendingEffect DEF DbIs
<1> HIDE DEF d
<1>5. bg' = [bg EXCEPT !.pc = "manifest", !.edit = es]
  BY <1>2, <1>3
<1>6. BgIs("manifest", bg.num, es, bg.inputs, bg.out, bg.written, bg.inWork)
  <2> HIDE DEF es
  <2> QED  BY <1>1, <1>5, BackgroundOpen DEF BgOf, BgIs
<1>7. db.imm # <<>>
  BY <1>1, <1>2, BackgroundOpen DEF BgTyped
<1> QED  BY <1>2, <1>4, <1>6, <1>7

LEMMA BuildTableFailsEffect ==
    ASSUME BaseInv, BuildTableFails
    PROVE  /\ bg.pc = "build" /\ disk' = disk /\ FlushIsOver
           /\ DbIs(db.nextFile, db.pending \ {bg.num}, db.version, db.logNumber, db.imm, TRUE)
<1>1. Background
  BY DEF Background
<1>2. /\ bg.pc = "build" /\ disk' = disk /\ FlushEnded(db')
      /\ db' = Failed([db EXCEPT !.pending = db.pending \ {bg.num}])
  BY DEF BuildTableFails
<1>3. DbIs(db.nextFile, db.pending \ {bg.num}, db.version, db.logNumber, db.imm, TRUE)
  BY <1>1, <1>2, FailedEffect
<1> QED  BY <1>2, <1>3, EndedEffect

LEMMA StartMoveEffect ==
    ASSUME BaseInv, StartMove
    PROVE  LET e == Edit(db.logNumber, db.nextFile, db.lastSeq, {<<n, 1>> : n \in Numbers(db.version)}, db.version)
           IN  /\ bg.pc = "due" /\ ~db.error /\ db.imm = <<>> /\ NeedsCompaction(db.version)
               /\ disk' = disk /\ db' = db
               /\ DbIs(db.nextFile, db.pending, db.version, db.logNumber, db.imm, db.error)
               /\ BgIs("manifest", bg.num, <<e>>, db.version, bg.out, bg.written, bg.inWork)
<1> DEFINE es == <<Edit(db.logNumber, db.nextFile, db.lastSeq, {<<n, 1>> : n \in Numbers(db.version)}, db.version)>>
<1>1. Background
  BY DEF Background
<1>2. /\ bg.pc = "due" /\ ~db.error /\ db.imm = <<>> /\ NeedsCompaction(db.version)
      /\ disk' = disk /\ db' = db
      /\ bg' = [bg EXCEPT !.pc = "manifest", !.inputs = db.version, !.edit = es]
  BY DEF StartMove
<1> HIDE DEF es
<1>3. BgIs("manifest", bg.num, es, db.version, bg.out, bg.written, bg.inWork)
  BY <1>1, <1>2, BackgroundOpen DEF BgOf, BgIs
<1>4. DbIs(db.nextFile, db.pending, db.version, db.logNumber, db.imm, db.error)
  BY <1>1, <1>2, BackgroundOpen DEF DbIs
<1> QED  BY <1>2, <1>3, <1>4 DEF es

LEMMA StartCompactionEffect ==
    ASSUME BaseInv, StartCompaction
    PROVE  /\ bg.pc = "due" /\ ~db.error /\ db.imm = <<>> /\ NeedsCompaction(db.version)
           /\ disk' = disk /\ db' = db
           /\ DbIs(db.nextFile, db.pending, db.version, db.logNumber, db.imm, db.error)
           /\ BgIs("work", bg.num, bg.edit, db.version, bg.out, bg.written, bg.inWork)
<1>1. Background
  BY DEF Background
<1>2. /\ bg.pc = "due" /\ ~db.error /\ db.imm = <<>> /\ NeedsCompaction(db.version)
      /\ disk' = disk /\ db' = db /\ bg' = [bg EXCEPT !.pc = "work", !.inputs = db.version]
  BY DEF StartCompaction
<1>3. BgIs("work", bg.num, bg.edit, db.version, bg.out, bg.written, bg.inWork)
  BY <1>1, <1>2, BackgroundOpen DEF BgOf, BgIs
<1>4. DbIs(db.nextFile, db.pending, db.version, db.logNumber, db.imm, db.error)
  BY <1>1, <1>2, BackgroundOpen DEF DbIs
<1> QED  BY <1>2, <1>3, <1>4

LEMMA OpenOutputEffect ==
    ASSUME BaseInv, OpenOutput
    PROVE  /\ bg.pc = "work" /\ bg.out = {} /\ disk' = disk
           /\ DbIs(db.nextFile + 1, db.pending \cup {db.nextFile}, db.version, db.logNumber, db.imm, db.error)
           /\ BgIs("work", bg.num, bg.edit, bg.inputs, {db.nextFile}, bg.written, bg.inWork)
<1> DEFINE p == db.pending \cup {db.nextFile}
           x == db.nextFile + 1
<1>1. Background
  BY DEF Background
<1>2. /\ bg.pc = "work" /\ bg.out = {} /\ disk' = disk /\ db' = [db EXCEPT !.nextFile = x, !.pending = p]
      /\ bg' = [bg EXCEPT !.out = {db.nextFile}]
  BY DEF OpenOutput
<1> HIDE DEF p, x
<1>3. DbIs(x, p, db.version, db.logNumber, db.imm, db.error)
  BY <1>1, <1>2, BackgroundOpen DEF DbOf, DbIs
<1>4. BgIs("work", bg.num, bg.edit, bg.inputs, {db.nextFile}, bg.written, bg.inWork)
  BY <1>1, <1>2, BackgroundOpen DEF BgOf, BgIs
<1> QED  BY <1>2, <1>3, <1>4 DEF p, x

LEMMA WriteOutputEffect ==
    ASSUME BaseInv, WriteOutput
    PROVE  \E k \in Nat :
           /\ bg.pc = "work" /\ bg.out = {k} /\ ~bg.written /\ db' = db
           /\ disk' = [disk EXCEPT !.tables = With(@, k, UNION {disk.tables[n] : n \in Numbers(bg.inputs)})]
           /\ DbIs(db.nextFile, db.pending, db.version, db.logNumber, db.imm, db.error)
           /\ BgIs("work", bg.num, bg.edit, bg.inputs, bg.out, TRUE, bg.inWork)
<1>1. Background
  BY DEF Background
<1>2. /\ bg.pc = "work" /\ bg.out # {} /\ ~bg.written /\ db' = db
      /\ disk' = [disk EXCEPT !.tables =
                    With(@, Max(bg.out), UNION {disk.tables[n] : n \in Numbers(bg.inputs)})]
      /\ bg' = [bg EXCEPT !.written = TRUE]
  BY DEF WriteOutput
<1>3. PICK k \in Nat : bg.out = {k}
  BY <1>1, <1>2, BackgroundOpen DEF BgOf
<1>4. Max(bg.out) = k
  <2>1. {k} \in SUBSET Nat /\ {k} # {} /\ \A x \in {k} : x <= k
    BY <1>3
  <2>2. Max({k}) \in {k}
    BY <2>1, GreatestExists
  <2> QED  BY <1>3, <2>2
<1>5. BgIs("work", bg.num, bg.edit, bg.inputs, bg.out, TRUE, bg.inWork)
  BY <1>1, <1>2, BackgroundOpen DEF BgOf, BgIs
<1>6. DbIs(db.nextFile, db.pending, db.version, db.logNumber, db.imm, db.error)
  BY <1>1, <1>2, BackgroundOpen DEF DbIs
<1> QED  BY <1>2, <1>3, <1>4, <1>5, <1>6

LEMMA EndWorkEffect ==
    ASSUME BaseInv, EndWork
    PROVE  LET e == Edit(db.logNumber, db.nextFile, db.lastSeq, {<<n, 1>> : n \in bg.out}, bg.inputs)
           IN  /\ bg.pc = "work" /\ bg.written /\ disk' = disk /\ db' = db
               /\ DbIs(db.nextFile, db.pending, db.version, db.logNumber, db.imm, db.error)
               /\ BgIs("manifest", bg.num, <<e>>, bg.inputs, bg.out, bg.written, bg.inWork)
<1> DEFINE es == <<Edit(db.logNumber, db.nextFile, db.lastSeq, {<<n, 1>> : n \in bg.out}, bg.inputs)>>
<1>1. Background
  BY DEF Background
<1>2. /\ bg.pc = "work" /\ bg.written /\ disk' = disk /\ db' = db
      /\ bg' = [bg EXCEPT !.pc = "manifest", !.edit = es]
  BY DEF EndWork
<1> HIDE DEF es
<1>3. BgIs("manifest", bg.num, es, bg.inputs, bg.out, bg.written, bg.inWork)
  BY <1>1, <1>2, BackgroundOpen DEF BgOf, BgIs
<1>4. DbIs(db.nextFile, db.pending, db.version, db.logNumber, db.imm, db.error)
  BY <1>1, <1>2, BackgroundOpen DEF DbIs
<1> QED  BY <1>2, <1>3, <1>4 DEF es

LEMMA WorkFailsEffect ==
    ASSUME BaseInv, WorkFails
    PROVE  /\ bg.pc = "work" /\ disk' = disk /\ HasEnded
           /\ DbIs(db.nextFile, db.pending \ bg.out, db.version, db.logNumber, db.imm, TRUE)
<1>1. Background
  BY DEF Background
<1>2. /\ bg.pc = "work" /\ disk' = disk /\ Ended(db')
      /\ db' = Failed([db EXCEPT !.pending = db.pending \ bg.out])
  BY DEF WorkFails
<1>3. DbIs(db.nextFile, db.pending \ bg.out, db.version, db.logNumber, db.imm, TRUE)
  BY <1>1, <1>2, FailedEffect
<1> QED  BY <1>2, <1>3, EndedEffect

LEMMA WriteManifestEffect ==
    ASSUME BaseInv, WriteManifest
    PROVE  /\ bg.pc = "manifest" /\ db' = db /\ bg.edit # <<>> /\ bg.edit[1] \in EditOf
           /\ disk' = [disk EXCEPT !.manifests[db.manifest] =
                          Synced(Appended(disk.manifests[db.manifest], bg.edit[1]))]
           /\ DbIs(db.nextFile, db.pending, db.version, db.logNumber, db.imm, db.error)
           /\ BgIs("install", bg.num, bg.edit, bg.inputs, bg.out, bg.written, bg.inWork)
<1>1. Background
  BY DEF Background
<1>2. /\ bg.pc = "manifest" /\ db' = db
      /\ disk' = [disk EXCEPT !.manifests[db.manifest] =
                      Synced(Appended(disk.manifests[db.manifest], bg.edit[1]))]
      /\ bg' = [bg EXCEPT !.pc = "install"]
  BY DEF WriteManifest
<1>3. BgIs("install", bg.num, bg.edit, bg.inputs, bg.out, bg.written, bg.inWork)
  BY <1>1, <1>2, BackgroundOpen DEF BgOf, BgIs
<1>4. DbIs(db.nextFile, db.pending, db.version, db.logNumber, db.imm, db.error)
  BY <1>1, <1>2, BackgroundOpen DEF DbIs
<1>5. bg.edit \in EditsOf /\ bg.edit # <<>>
  BY <1>1, <1>2, BackgroundOpen DEF BgTyped, BgOf
<1> QED  BY <1>2, <1>3, <1>4, <1>5, EditsTyped

LEMMA WriteManifestFailsEffect ==
    ASSUME BaseInv, WriteManifestFails
    PROVE  /\ bg.pc = "manifest" /\ bg.edit # <<>> /\ bg.edit[1] \in EditOf
           /\ \/ disk' = disk
              \/ \E r \in {Torn, bg.edit[1]} :
                    disk' = [disk EXCEPT !.manifests[db.manifest] = Appended(disk.manifests[db.manifest], r)]
           /\ DbIs(db.nextFile, IF IsFlush THEN db.pending ELSE db.pending \ bg.out,
                   db.version, db.logNumber, db.imm, TRUE)
           /\ IF IsFlush THEN FlushIsOver ELSE HasEnded
<1>1. Background
  BY DEF Background
<1> DEFINE p == IF IsFlush THEN db.pending ELSE db.pending \ bg.out
<1>2. /\ bg.pc = "manifest" /\ db' = Failed([db EXCEPT !.pending = p])
      /\ \/ disk' = disk
         \/ \E r \in {Torn, bg.edit[1]} :
               disk' = [disk EXCEPT !.manifests[db.manifest] = Appended(disk.manifests[db.manifest], r)]
      /\ IF IsFlush THEN FlushEnded(db') ELSE Ended(db')
  BY DEF WriteManifestFails
<1> HIDE DEF p
<1>3. DbIs(db.nextFile, p, db.version, db.logNumber, db.imm, TRUE)
  BY <1>1, <1>2, FailedEffect
<1>4. bg.edit \in EditsOf /\ bg.edit # <<>>
  BY <1>1, <1>2, BackgroundOpen DEF BgTyped, BgOf
<1>5. IF IsFlush THEN FlushIsOver ELSE HasEnded
  BY <1>2, EndedEffect
<1> QED  BY <1>2, <1>3, <1>4, <1>5, EditsTyped DEF p

\* What is left of the files when they are collected, all that is needed.
FilesLeft(held) ==
    /\ DOMAIN disk'.logs \subseteq DOMAIN disk.logs
    /\ \A n \in DOMAIN disk'.logs : disk'.logs[n] = disk.logs[n]
    /\ \A n \in DOMAIN disk.logs : n >= db'.logNumber => n \in DOMAIN disk'.logs
    /\ DOMAIN disk'.manifests \subseteq DOMAIN disk.manifests
    /\ \A n \in DOMAIN disk'.manifests : disk'.manifests[n] = disk.manifests[n]
    /\ \A n \in DOMAIN disk.manifests : n >= db'.manifest => n \in DOMAIN disk'.manifests
    /\ DOMAIN disk'.tables \subseteq DOMAIN disk.tables
    /\ \A n \in DOMAIN disk'.tables : disk'.tables[n] = disk.tables[n]
    /\ \A n \in DOMAIN disk.tables : n \in Live(db', held) => n \in DOMAIN disk'.tables

LEMMA CollectedLeft ==
    ASSUME DiskTyped, NEW k, DOMAIN k = DOMAIN disk, NEW held, NEW d, d = db',
           k.logs = disk.logs, k.tables = disk.tables, k.manifests = disk.manifests,
           disk' = Collected(k, d, held)
    PROVE  /\ FilesLeft(held) /\ disk'.current = k.current /\ (d.error => disk' = k)
           /\ ~d.error => /\ DOMAIN disk'.logs = {n \in DOMAIN disk.logs : n >= d.logNumber}
                          /\ DOMAIN disk'.manifests = {n \in DOMAIN disk.manifests : n >= d.manifest}
                          /\ DOMAIN disk'.tables = DOMAIN disk.tables \cap Live(d, held)
<1>1. DOMAIN k = {"logs", "tables", "manifests", "current"}
  BY DEF DiskTyped
<1>2. PICK c : c = Collected(k, d, held)
  OBVIOUS
<1>3. /\ DOMAIN c = DOMAIN k /\ c.current = k.current
      /\ DOMAIN c.logs \subseteq DOMAIN k.logs /\ \A n \in DOMAIN c.logs : c.logs[n] = k.logs[n]
      /\ DOMAIN c.tables \subseteq DOMAIN k.tables /\ \A n \in DOMAIN c.tables : c.tables[n] = k.tables[n]
      /\ DOMAIN c.manifests \subseteq DOMAIN k.manifests
      /\ \A n \in DOMAIN c.manifests : c.manifests[n] = k.manifests[n]
      /\ d.error => c = k
      /\ ~d.error => /\ DOMAIN c.logs = {n \in DOMAIN k.logs : n >= d.logNumber}
                     /\ DOMAIN c.manifests = {n \in DOMAIN k.manifests : n >= d.manifest}
                     /\ DOMAIN c.tables = DOMAIN k.tables \cap Live(d, held)
  BY <1>1, <1>2, CollectedFiles
<1>4. disk' = c
  BY <1>2
<1>5. Live(db', held) = Live(d, held)
  OBVIOUS
<1>6. FilesLeft(held)
  <2>1. CASE d.error
    BY <1>3, <1>4, <2>1 DEF FilesLeft
  <2>2. CASE ~d.error
    BY <1>3, <1>4, <1>5, <2>2 DEF FilesLeft
  <2> QED  BY <2>1, <2>2
<1> QED  BY <1>3, <1>4, <1>6

LEMMA InstallVersionEffect ==
    ASSUME BaseInv, InstallVersion
    PROVE  /\ bg.pc = "install" /\ bg.edit # <<>> /\ bg.edit[1] \in EditOf
           /\ DbIs(db.nextFile, IF IsFlush THEN db.pending ELSE db.pending \ bg.out,
                   Applied(db.version, bg.edit[1]), bg.edit[1].log, IF IsFlush THEN <<>> ELSE db.imm, db.error)
           /\ IF IsFlush THEN FlushIsOver ELSE HasEnded
           /\ disk'.current = disk.current
           /\ disk' = disk \/ (~db.error /\ FilesLeft(IF IsFlush THEN bg.inputs ELSE {}))
<1>1. Background
  BY DEF Background
<1> DEFINE p == IF IsFlush THEN db.pending ELSE db.pending \ bg.out
           v == Applied(db.version, bg.edit[1])
           i == IF IsFlush THEN <<>> ELSE db.imm
           log == bg.edit[1].log
<1>2. /\ bg.pc = "install"
      /\ db' = [db EXCEPT !.version = v, !.logNumber = log, !.imm = i, !.pending = p]
      /\ disk' = IF IsFlush THEN Collected(disk, db', bg.inputs)
                 ELSE IF bg.out # {} THEN Collected(disk, db', {}) ELSE disk
      /\ IF IsFlush THEN FlushEnded(db') ELSE Ended(db')
  BY DEF InstallVersion
<1>3. bg.edit \in EditsOf /\ bg.edit # <<>>
  BY <1>1, <1>2, BackgroundOpen DEF BgTyped, BgOf
<1>4. IF IsFlush THEN FlushIsOver ELSE HasEnded
  BY <1>2, EndedEffect
<1>5. DbIs(db.nextFile, p, v, log, i, db.error)
  <2> HIDE DEF p, v, i, log
  <2> QED  BY <1>1, <1>2, BackgroundOpen DEF DbOf, DbIs
<1>6. ASSUME NEW held, disk' = Collected(disk, db', held)
      PROVE  disk'.current = disk.current /\ (disk' = disk \/ (~db.error /\ FilesLeft(held)))
  <2>1. PICK d, k : d = db' /\ k = disk
    OBVIOUS
  <2>2. /\ DOMAIN k = DOMAIN disk /\ k.logs = disk.logs /\ k.tables = disk.tables
        /\ k.manifests = disk.manifests /\ disk' = Collected(k, d, held) /\ k.current = disk.current
    BY <1>6, <2>1
  <2>3. FilesLeft(held) /\ disk'.current = k.current /\ (d.error => disk' = k)
    BY <1>1, <2>1, <2>2, BackgroundOpen, CollectedLeft
  <2>4. d.error => disk' = disk
    BY <2>1, <2>3
  <2>5. ~d.error => ~db.error
    BY <1>5, <2>1 DEF DbIs
  <2> QED  BY <2>1, <2>3, <2>4, <2>5
<1>7. /\ disk'.current = disk.current
      /\ disk' = disk \/ (~db.error /\ FilesLeft(IF IsFlush THEN bg.inputs ELSE {}))
  BY <1>2, <1>6
<1> QED  BY <1>2, <1>3, <1>4, <1>5, <1>7, EditsTyped

\* What the steps of a thread have in common.
ThreadFrame ==
    /\ db.up = "open" /\ db'.up = "open" /\ UNCHANGED pinned
    /\ disk'.tables = disk.tables /\ disk'.manifests = disk.manifests /\ disk'.current = disk.current
    /\ db'.version = db.version /\ db'.logNumber = db.logNumber /\ db'.manifest = db.manifest
    /\ db'.pending = db.pending /\ (db.error => db'.error)
    /\ BgIs(bg'.pc, bg.num, bg.edit, bg.inputs, bg.out, bg.written, bg.inWork)
    /\ bg'.pc # bg.pc => bg.pc = "off" /\ bg'.pc = "due" /\ ~db'.error /\ db'.imm # <<>>
    /\ \/ /\ DOMAIN disk'.logs = DOMAIN disk.logs
          /\ db'.nextFile = db.nextFile /\ db'.logfile = db.logfile /\ db'.imm = db.imm
       \/ /\ disk'.logs = With(disk.logs, db.nextFile, File) /\ db.imm = <<>> /\ ~db.error /\ ~db'.error
          /\ db'.nextFile = db.nextFile + 1 /\ db'.logfile = db.nextFile
          /\ db'.imm = <<db.mem>> /\ db'.mem = {} /\ db'.lastSeq = db.lastSeq

LEMMA FieldsOf ==
    ASSUME BaseInv
    PROVE  /\ db \in DbOf /\ DiskTyped /\ bg \in BgOf /\ BgTyped /\ QuietInv
           /\ db.nextFile \in Nat /\ db.pending \in SUBSET Nat /\ db.version \in SUBSET Table
           /\ db.logfile \in Nat /\ db.logNumber \in Nat /\ db.lastSeq \in Nat /\ db.manifest \in Nat
           /\ db.mem \in SUBSET Entry /\ db.imm \in ImmOf /\ db.error \in BOOLEAN
           /\ bg.num \in Nat /\ bg.inputs \in SUBSET Table /\ bg.out \in SUBSET Nat
           /\ bg.pc \in BgPcs /\ bg.written \in BOOLEAN /\ bg.inWork \in BOOLEAN
           /\ bg.pc \in {"manifest", "install"} => bg.edit # <<>> /\ bg.edit[1] \in EditOf
<1>0. db \in DbOf /\ DiskTyped /\ bg \in BgOf /\ BgTyped /\ QuietInv
  BY DEF BaseInv, TypeInv, BgTyped
<1>1. bg.pc \in {"manifest", "install"} => bg.edit # <<>> /\ bg.edit[1] \in EditOf
  <2>1. bg.edit \in EditsOf
    BY <1>0 DEF BgOf
  <2> QED  BY <1>0, <2>1, EditsTyped DEF BgTyped
<1> QED  BY <1>0, <1>1 DEF DbOf, BgOf

LEMMA ThreadEffect ==
    ASSUME BaseInv, NEW w \in Writer, Thread(w)
    PROVE  ThreadFrame
<1>0. db \in DbOf /\ DiskTyped /\ bg \in BgOf
  BY FieldsOf
<1>1. call[w].pc # "idle" /\ UNCHANGED pinned
  BY DEF Thread, Wake, RoomError, Delay, WaitForRoom, TakeRoom, SwitchMemTable, NewLogFails,
         AddRecord, AddRecordFails, SyncLog, SyncLogFails, Finish, WaitForFlush
<1>2. db.up = "open" /\ db'.up = "open"
  BY <1>1, WritingOpen, StaysOpen
<1>3. ASSUME UNCHANGED <<db, disk, bg>>  PROVE ThreadFrame
  BY <1>0, <1>1, <1>2, <1>3 DEF ThreadFrame, BgIs
<1>4. CASE Wake(w) \/ RoomError(w) \/ NewLogFails(w) \/ Delay(w) \/ WaitForRoom(w) \/ TakeRoom(w)
           \/ SyncLogFails(w) \/ WaitForFlush(w)
  BY <1>3, <1>4 DEF Wake, RoomError, NewLogFails, Delay, WaitForRoom, TakeRoom, SyncLogFails, WaitForFlush
<1>5. CASE SwitchMemTable(w)
  <2> DEFINE imm == <<db.mem>>
             d   == [db EXCEPT !.imm = imm, !.mem = {}, !.logfile = db.nextFile, !.nextFile = db.nextFile + 1]
  <2>1. /\ db' = d /\ bg' = Scheduled(bg, db') /\ ~db.error /\ db.imm = <<>>
        /\ disk' = [disk EXCEPT !.logs = With(@, db.nextFile, File)]
    BY <1>5 DEF SwitchMemTable, OverToLog, MustWait
  <2>2. imm # <<>>
    OBVIOUS
  <2> HIDE DEF imm
  <2>3. /\ d.version = db.version /\ d.logNumber = db.logNumber /\ d.manifest = db.manifest
        /\ d.pending = db.pending /\ d.error = db.error /\ d.nextFile = db.nextFile + 1
        /\ d.logfile = db.nextFile /\ d.imm = imm /\ d.mem = {} /\ d.lastSeq = db.lastSeq
    BY <1>0 DEF DbOf
  <2> HIDE DEF d
  <2>4. /\ disk'.tables = disk.tables /\ disk'.manifests = disk.manifests /\ disk'.current = disk.current
        /\ disk'.logs = With(disk.logs, db.nextFile, File)
    BY <1>0, <2>1 DEF DiskTyped
  <2>5. PICK e : e = db'
    OBVIOUS
  <2>6. bg' = Scheduled(bg, e)
    BY <2>1, <2>5
  <2>7. /\ BgIs(bg'.pc, bg.num, bg.edit, bg.inputs, bg.out, bg.written, bg.inWork)
        /\ bg'.pc # bg.pc => bg.pc = "off" /\ bg'.pc = "due"
    <3>1. CASE Scheduled(bg, e) = bg
      BY <2>6, <3>1 DEF BgIs
    <3>2. CASE Scheduled(bg, e) = [bg EXCEPT !.pc = "due"] /\ bg.pc = "off"
      BY <1>0, <2>6, <3>2 DEF BgIs, BgOf
    <3> QED  BY <1>0, <3>1, <3>2, ScheduledTyped
  <2> QED  BY <1>1, <1>2, <2>1, <2>2, <2>3, <2>4, <2>7 DEF ThreadFrame, imm
<1>6. ASSUME UNCHANGED <<db, bg>>, NEW f, disk' = [disk EXCEPT !.logs[db.logfile] = f]  PROVE ThreadFrame
  <2>1. /\ disk'.tables = disk.tables /\ disk'.manifests = disk.manifests /\ disk'.current = disk.current
        /\ DOMAIN disk'.logs = DOMAIN disk.logs
    BY <1>0, <1>6 DEF DiskTyped
  <2> QED  BY <1>0, <1>1, <1>2, <1>6, <2>1 DEF ThreadFrame, BgIs
<1>7. CASE AddRecord(w) \/ AddRecordFails(w) \/ SyncLog(w)
  BY <1>3, <1>6, <1>7 DEF AddRecord, AddRecordFails, SyncLog
<1>8. CASE Finish(w)
  <2> DEFINE seq == db.lastSeq + Cardinality(GroupEntries(w))
             mem == db.mem \cup IF call[w].ok THEN GroupEntries(w) ELSE {}
             d   == [db EXCEPT !.lastSeq = seq, !.mem = mem]
  <2>1. UNCHANGED <<disk, bg>> /\ (db' = d \/ db' = Failed(d))
    BY <1>8 DEF Finish
  <2> HIDE DEF seq, mem
  <2>2. \A e \in {d, Failed(d)} :
           /\ e.version = db.version /\ e.logNumber = db.logNumber /\ e.manifest = db.manifest
           /\ e.pending = db.pending /\ e.nextFile = db.nextFile /\ e.logfile = db.logfile /\ e.imm = db.imm
           /\ (db.error => e.error)
    BY <1>0 DEF DbOf, Failed
  <2> HIDE DEF d
  <2> QED  BY <1>0, <1>1, <1>2, <2>1, <2>2 DEF ThreadFrame, BgIs
<1> QED  BY <1>4, <1>5, <1>7, <1>8 DEF Thread

FirstEdit == Edit(0, 2, 0, {}, {})

LEMMA NewDBEffect ==
    ASSUME BaseInv, NewDB
    PROVE  /\ db.up = "down" /\ db' = db /\ disk.current = 0 /\ disk'.current = 1
           /\ disk'.logs = disk.logs /\ disk'.tables = disk.tables
           /\ disk'.manifests = With(disk.manifests, 1, Appended(File, FirstEdit))
           /\ Appended(File, FirstEdit) \in ManifestOf /\ FirstEdit \in EditOf
           /\ Appended(File, FirstEdit).recs = <<FirstEdit>> /\ Appended(File, FirstEdit).synced = 0
           /\ bg' = bg /\ pinned' = pinned
<1>1. /\ db.up = "down" /\ db' = db /\ disk.current = 0 /\ bg' = bg /\ pinned' = pinned
      /\ disk' = [disk EXCEPT !.current = 1, !.manifests = With(@, 1, Appended(File, FirstEdit))]
  BY DEF NewDB, OpenStep, FirstEdit
<1>2. FirstEdit \in EditOf
  BY EditTyped DEF FirstEdit
<1>3. Appended(File, FirstEdit) \in ManifestOf /\ Appended(File, FirstEdit).recs = Append(<<>>, FirstEdit)
      /\ Appended(File, FirstEdit).synced = 0
  BY <1>2, FileTyped, AppendedManifest
<1>4. Append(<<>>, FirstEdit) = <<FirstEdit>>
  OBVIOUS
<1>5. DiskTyped
  BY FieldsOf
<1> QED  BY <1>1, <1>2, <1>3, <1>4, <1>5 DEF DiskTyped

LEMMA RecoverEffect ==
    ASSUME BaseInv, Recover
    PROVE  LET m == disk.manifests[disk.current]
               e == LastEdit(m)
               readable == /\ disk.current \in DOMAIN disk.manifests /\ Readable(m)
                           /\ Numbers(VersionOf(m)) \subseteq DOMAIN disk.tables
           IN  /\ db.up = "down" /\ disk.current # 0 /\ disk' = disk /\ bg' = bg /\ pinned' = pinned
               /\ \/ ~readable /\ db'.up = "corrupt"
                  \/ /\ readable /\ e \in EditOf /\ m \in ManifestOf /\ VersionOf(m) \subseteq Table
                     /\ db'.up = "logs" /\ db'.manifest = e.next /\ db'.nextFile = e.next + 1
                     /\ db'.lastSeq = e.last /\ db'.logNumber = e.log /\ db'.logfile = 0
                     /\ db'.version = VersionOf(m)
<1> DEFINE m == disk.manifests[disk.current]
           e == LastEdit(m)
           v == VersionOf(m)
           readable == /\ disk.current \in DOMAIN disk.manifests /\ Readable(m)
                       /\ Numbers(v) \subseteq DOMAIN disk.tables
<1>1. /\ db.up = "down" /\ disk.current # 0 /\ disk' = disk /\ bg' = bg /\ pinned' = pinned
      /\ IF readable
         THEN db' = [Closed EXCEPT !.up = "logs", !.manifest = e.next, !.nextFile = e.next + 1,
                                   !.lastSeq = e.last, !.logNumber = e.log, !.version = v]
         ELSE db' = [Closed EXCEPT !.up = "corrupt"]
  BY DEF Recover, OpenStep
<1>2. CASE ~readable
  <2>1. db'.up = "corrupt"
    BY <1>1, <1>2 DEF Closed
  <2> QED  BY <1>1, <1>2, <2>1
<1>3. CASE readable
  <2>1. m \in ManifestOf
    BY <1>3, FieldsOf DEF DiskTyped
  <2>2. e \in EditOf /\ v \subseteq Table
    BY <1>3, <2>1, ReadableManifest, VersionTyped
  <2>3. /\ db'.up = "logs" /\ db'.manifest = e.next /\ db'.nextFile = e.next + 1
        /\ db'.lastSeq = e.last /\ db'.logNumber = e.log /\ db'.logfile = 0 /\ db'.version = v
    <3>1. db' = [Closed EXCEPT !.up = "logs", !.manifest = e.next, !.nextFile = e.next + 1,
                               !.lastSeq = e.last, !.logNumber = e.log, !.version = v]
      BY <1>1, <1>3
    <3> HIDE DEF e, v
    <3> QED  BY <3>1 DEF Closed
  <2> QED  BY <1>1, <1>3, <2>1, <2>2, <2>3
<1> QED  BY <1>2, <1>3

LEMMA RecoverLogEffect ==
    ASSUME BaseInv, NEW n, NEW ents, NEW next, NEW last, NEW version,
           Recovered(n, ents, next, last, version), RecoverLog
    PROVE  /\ db.up = "logs" /\ db'.up = "logs" /\ db'.manifest = db.manifest /\ db'.logNumber = db.logNumber
           /\ db'.logfile = n /\ db'.nextFile = next /\ db'.lastSeq = last /\ db'.version = version
           /\ disk'.current = disk.current /\ disk'.logs = disk.logs /\ disk'.manifests = disk.manifests
           /\ disk'.tables = IF ents = {} THEN disk.tables ELSE With(disk.tables, db.nextFile, ents)
           /\ bg' = bg /\ pinned' = pinned
<1>1. db \in DbOf /\ DiskTyped
  BY FieldsOf
<1>2. db.up = "logs" /\ bg' = bg /\ pinned' = pinned
  BY DEF RecoverLog, OpenStep
<1>3. /\ db'.up = "logs" /\ db'.manifest = db.manifest /\ db'.logNumber = db.logNumber
      /\ db'.logfile = n /\ db'.nextFile = next /\ db'.lastSeq = last /\ db'.version = version
  BY <1>1, <1>2 DEF Recovered, DbOf
<1>4. /\ disk'.current = disk.current /\ disk'.logs = disk.logs /\ disk'.manifests = disk.manifests
      /\ disk'.tables = IF ents = {} THEN disk.tables ELSE With(disk.tables, db.nextFile, ents)
  <2>1. disk' = IF ents = {} THEN disk ELSE [disk EXCEPT !.tables = With(@, db.nextFile, ents)]
    BY DEF Recovered
  <2> QED  BY <1>1, <2>1 DEF DiskTyped
<1> QED  BY <1>2, <1>3, <1>4

LEMMA NewManifestEffect ==
    ASSUME BaseInv, NewManifest
    PROVE  LET log  == db.nextFile
               edit == Edit(log, log + 1, db.lastSeq, db.version, {})
               f    == Synced(Appended(File, edit))
           IN  /\ db.up = "logs" /\ db'.up = "current" /\ LogsToRecover = {}
               /\ db'.manifest = db.manifest /\ db'.version = db.version /\ db'.lastSeq = db.lastSeq
               /\ db'.logfile = log /\ db'.logNumber = log /\ db'.nextFile = log + 1
               /\ disk'.current = disk.current /\ disk'.tables = disk.tables
               /\ disk'.logs = With(disk.logs, log, File) /\ disk'.manifests = With(disk.manifests, db.manifest, f)
               /\ edit \in EditOf /\ f \in ManifestOf /\ f.recs = <<edit>> /\ f.synced = 1
               /\ bg' = bg /\ pinned' = pinned
<1> DEFINE log  == db.nextFile
           edit == Edit(log, log + 1, db.lastSeq, db.version, {})
           f    == Synced(Appended(File, edit))
<1>1. /\ db.up = "logs" /\ LogsToRecover = {} /\ bg' = bg /\ pinned' = pinned
      /\ disk' = [disk EXCEPT !.logs = With(@, log, File), !.manifests = With(@, db.manifest, f)]
      /\ db' = [db EXCEPT !.up = "current", !.logfile = log, !.logNumber = log, !.nextFile = log + 1]
  BY DEF NewManifest, OpenStep
<1>2. db \in DbOf /\ DiskTyped /\ log \in Nat /\ log + 1 \in Nat /\ db.lastSeq \in Nat
      /\ db.version \in SUBSET Table /\ {} \in SUBSET Table
  BY FieldsOf
<1>3. edit \in EditOf
  BY <1>2, EditTyped
<1>4. f \in ManifestOf /\ f.recs = <<edit>> /\ f.synced = 1
  <2> HIDE DEF edit
  <2>1. f \in ManifestOf /\ f.recs = Append(<<>>, edit) /\ f.synced = Len(<<>>) + 1
    BY <1>3, FileTyped, AppendedManifest
  <2> QED  BY <2>1
<1>5. /\ disk'.current = disk.current /\ disk'.tables = disk.tables
      /\ disk'.logs = With(disk.logs, log, File) /\ disk'.manifests = With(disk.manifests, db.manifest, f)
  <2> HIDE DEF f
  <2> QED  BY <1>1, <1>2 DEF DiskTyped
<1>6. /\ db'.up = "current"
      /\ db'.manifest = db.manifest /\ db'.version = db.version /\ db'.lastSeq = db.lastSeq
      /\ db'.logfile = log /\ db'.logNumber = log /\ db'.nextFile = log + 1
  <2> DEFINE x == log + 1
  <2>1. db' = [db EXCEPT !.up = "current", !.logfile = log, !.logNumber = log, !.nextFile = x]
    BY <1>1
  <2> HIDE DEF log, x
  <2>2. /\ db'.up = "current"
        /\ db'.manifest = db.manifest /\ db'.version = db.version /\ db'.lastSeq = db.lastSeq
        /\ db'.logfile = log /\ db'.logNumber = log /\ db'.nextFile = x
    BY <1>2, <2>1 DEF DbOf
  <2> QED  BY <2>2 DEF x
<1> QED  BY <1>1, <1>3, <1>4, <1>5, <1>6

LEMMA SetCurrentEffect ==
    ASSUME BaseInv, SetCurrent
    PROVE  /\ db.up = "current" /\ db'.up = "open" /\ pinned' = {} /\ pinned = {} /\ bg = BgOff
           /\ db'.manifest = db.manifest /\ db'.version = db.version /\ db'.lastSeq = db.lastSeq
           /\ db'.logfile = db.logfile /\ db'.logNumber = db.logNumber /\ db'.nextFile = db.nextFile
           /\ db'.mem = {} /\ db'.imm = <<>> /\ db'.pending = {} /\ ~db'.error
           /\ disk'.current = db.manifest /\ FilesLeft({}) /\ HasEnded
           /\ DOMAIN disk'.logs = {n \in DOMAIN disk.logs : n >= db.logNumber}
           /\ DOMAIN disk'.manifests = {n \in DOMAIN disk.manifests : n >= db.manifest}
           /\ DOMAIN disk'.tables = DOMAIN disk.tables \cap Numbers(db.version)
<1> DEFINE k == [disk EXCEPT !.current = db.manifest]
<1>1. /\ db.up = "current" /\ db' = [db EXCEPT !.up = "open"] /\ bg' = Scheduled(bg, db')
      /\ disk' = Collected(k, db', {}) /\ pinned' = pinned
  BY DEF SetCurrent, OpenStep
<1>2. db \in DbOf /\ DiskTyped /\ bg = BgOff /\ pinned = {} /\ db.mem = {} /\ db.imm = <<>> /\ db.pending = {}
      /\ ~db.error
  BY <1>1, FieldsOf DEF QuietInv
<1>3. /\ db'.up = "open" /\ db'.manifest = db.manifest /\ db'.version = db.version /\ db'.lastSeq = db.lastSeq
      /\ db'.logfile = db.logfile /\ db'.logNumber = db.logNumber /\ db'.nextFile = db.nextFile
      /\ db'.mem = db.mem /\ db'.imm = db.imm /\ db'.pending = db.pending /\ db'.error = db.error
  BY <1>1, <1>2 DEF DbOf
<1>4. /\ DOMAIN k = DOMAIN disk /\ k.current = db.manifest
      /\ k.logs = disk.logs /\ k.tables = disk.tables /\ k.manifests = disk.manifests
  BY <1>2 DEF DiskTyped
<1> HIDE DEF k
<1>5. PICK d, c : d = db' /\ c = k
  OBVIOUS
<1>6. /\ FilesLeft({}) /\ disk'.current = db.manifest
      /\ DOMAIN disk'.logs = {n \in DOMAIN disk.logs : n >= d.logNumber}
      /\ DOMAIN disk'.manifests = {n \in DOMAIN disk.manifests : n >= d.manifest}
      /\ DOMAIN disk'.tables = DOMAIN disk.tables \cap Live(d, {})
  <2>1. ~d.error /\ disk' = Collected(c, d, {})
    BY <1>1, <1>2, <1>3, <1>5
  <2> QED  BY <1>2, <1>4, <1>5, <2>1, CollectedLeft
<1>7. Live(d, {}) = Numbers(db.version)
  BY <1>2, <1>3, <1>5 DEF Live, Numbers
<1>8. HasEnded
  <2>2. call' = call /\ call = [w \in Writer |-> Idle]
    BY <1>1 DEF SetCurrent, BaseInv, QueueInv
  <2>3. SignalAll(call) = call
    BY <2>2, SignalAllQueued DEF BaseInv, QueueInv
  <2>4. Ended(db')
    BY <1>1, <1>2, <2>2, <2>3 DEF Ended
  <2> QED  BY <2>4, EndedEffect
<1> QED  BY <1>1, <1>2, <1>3, <1>5, <1>6, <1>7, <1>8

\* The first k records of a file.
Cut(f, k) == [recs |-> SubSeq(f.recs, 1, k), synced |-> k]

LEMMA CrashEffect ==
    ASSUME BaseInv, ProcessCrash \/ MachineCrash
    PROVE  /\ db' = Closed /\ db'.up = "down" /\ bg' = BgOff /\ bg'.pc = "off" /\ pinned' = {}
           /\ disk'.current = disk.current /\ disk'.tables = disk.tables
           /\ DOMAIN disk'.logs = DOMAIN disk.logs /\ DOMAIN disk'.manifests = DOMAIN disk.manifests
           /\ \/ disk'.logs = disk.logs /\ disk'.manifests = disk.manifests /\ owed' = owed
              \/ /\ owed' = {o \in owed : o.sync}
                 /\ \A n \in DOMAIN disk.logs :
                       \E k \in disk.logs[n].synced .. Len(disk.logs[n].recs) :
                           disk'.logs[n] = Cut(disk.logs[n], k)
                 /\ \A n \in DOMAIN disk.manifests :
                       \E k \in disk.manifests[n].synced .. Len(disk.manifests[n].recs) :
                           disk'.manifests[n] = Cut(disk.manifests[n], k)
<1>1. db' = Closed /\ bg' = BgOff /\ pinned' = {}
  BY DEF ProcessCrash, MachineCrash, Crash
<1>2. db'.up = "down" /\ bg'.pc = "off"
  BY <1>1 DEF Closed, BgOff
<1>3. CASE ProcessCrash
  <2>1. disk' = disk /\ owed' = owed
    BY <1>3 DEF ProcessCrash, Crash
  <2> QED  BY <1>1, <1>2, <2>1
<1>4. CASE MachineCrash
  <2>1. PICK l \in Cuts(disk.logs), m \in Cuts(disk.manifests) :
            disk' = [disk EXCEPT !.logs = CutAt(@, l), !.manifests = CutAt(@, m)]
    BY <1>4 DEF MachineCrash, Crash
  <2>2. DiskTyped /\ owed' = {o \in owed : o.sync}
    BY <1>4, FieldsOf DEF MachineCrash
  <2>3. /\ disk'.current = disk.current /\ disk'.tables = disk.tables
        /\ disk'.logs = CutAt(disk.logs, l) /\ disk'.manifests = CutAt(disk.manifests, m)
    BY <2>1, <2>2 DEF DiskTyped
  <2>4. /\ DOMAIN disk'.logs = DOMAIN disk.logs /\ DOMAIN disk'.manifests = DOMAIN disk.manifests
        /\ \A n \in DOMAIN disk.logs : disk'.logs[n] = Cut(disk.logs[n], l[n])
        /\ \A n \in DOMAIN disk.manifests : disk'.manifests[n] = Cut(disk.manifests[n], m[n])
    BY <2>3 DEF CutAt, Cut
  <2>5. /\ \A n \in DOMAIN disk.logs : l[n] \in disk.logs[n].synced .. Len(disk.logs[n].recs)
        /\ \A n \in DOMAIN disk.manifests : m[n] \in disk.manifests[n].synced .. Len(disk.manifests[n].recs)
    BY DEF Cuts
  <2> HIDE DEF Cut
  <2> QED  BY <1>1, <1>2, <2>2, <2>3, <2>4, <2>5
<1> QED  BY <1>3, <1>4

-----------------------------------------------------------------------------
(* File numbers are taken in order, and no number in use is ever taken     *)
(* again: not that of a file, nor one that the manifest names.             *)

AddsBelow(m, b) == \A i \in DOMAIN m.recs : ~IsTorn(m.recs[i]) => \A n \in Numbers(m.recs[i].add) : n < b

\* An edit has numbers above those of the files that were added so far.
ManifestNumbered(m) ==
    \A i \in DOMAIN m.recs : ~IsTorn(m.recs[i]) =>
        /\ m.recs[i].log < m.recs[i].next /\ 1 < m.recs[i].next
        /\ \A j \in 1 .. i : ~IsTorn(m.recs[j]) => \A n \in Numbers(m.recs[j].add) : n < m.recs[i].next

VersionNumbered ==
    /\ \A n \in Numbers(db.version) : n < db.nextFile
    /\ 1 < db.manifest /\ db.manifest < db.nextFile
    /\ db.logNumber < db.nextFile /\ db.logfile < db.nextFile

LogsNumbered ==
    /\ db.logNumber <= db.logfile /\ db.logfile \in DOMAIN disk.logs
    /\ \A n \in DOMAIN disk.logs : n <= db.logfile
    /\ db.manifest \in DOMAIN disk.manifests /\ AddsBelow(disk.manifests[db.manifest], db.nextFile)

FilesNumbered ==
    /\ \A n \in DOMAIN disk.tables : n < db.nextFile
    /\ \A n \in db.pending : n < db.nextFile
    /\ bg.num < db.nextFile /\ \A n \in bg.out : n < db.nextFile

EditNumbered(e) ==
    /\ \A n \in Numbers(e.add) : n < e.next
    /\ e.log < e.next /\ 1 < e.next /\ e.next <= db.nextFile /\ e.log <= db.logfile
    /\ bg.pc = "manifest" => AddsBelow(disk.manifests[db.manifest], e.next)

NumbersInv ==
    /\ \A n \in DOMAIN disk.manifests : ManifestNumbered(disk.manifests[n])
    /\ db.up \in {"logs", "current", "open"} => VersionNumbered
    /\ db.up \in {"current", "open"} => LogsNumbered
    /\ db.up = "open" => FilesNumbered
    /\ bg.pc \in {"manifest", "install"} => EditNumbered(bg.edit[1])

LEMMA ManifestAdds ==
    ASSUME NEW m \in ManifestOf
    PROVE  /\ Len(m.recs) \in Nat /\ DOMAIN m.recs = 1 .. Len(m.recs) /\ m.synced \in Nat
           /\ \A i \in DOMAIN m.recs : ~IsTorn(m.recs[i]) =>
                 /\ m.recs[i] \in EditOf /\ m.recs[i].log \in Nat /\ m.recs[i].next \in Nat /\ m.recs[i].last \in Nat
                 /\ Numbers(m.recs[i].add) \subseteq Nat
                 /\ m.recs[i].add \in SUBSET Table /\ m.recs[i].del \in SUBSET Table
<1>1. Len(m.recs) \in Nat /\ DOMAIN m.recs = 1 .. Len(m.recs) /\ m.synced \in Nat
      /\ \A i \in DOMAIN m.recs : m.recs[i] \in EditOf \cup {Torn}
  BY DEF ManifestOf
<1>2. ASSUME NEW i \in DOMAIN m.recs, ~IsTorn(m.recs[i])
      PROVE  /\ m.recs[i] \in EditOf /\ m.recs[i].log \in Nat /\ m.recs[i].next \in Nat /\ m.recs[i].last \in Nat
             /\ Numbers(m.recs[i].add) \subseteq Nat
             /\ m.recs[i].add \in SUBSET Table /\ m.recs[i].del \in SUBSET Table
  <2>1. m.recs[i] \in EditOf
    BY <1>1, <1>2, TornRecords
  <2>2. m.recs[i].add \in SUBSET Table /\ m.recs[i].del \in SUBSET Table
        /\ m.recs[i].log \in Nat /\ m.recs[i].next \in Nat /\ m.recs[i].last \in Nat
    BY <2>1 DEF EditOf
  <2> QED  BY <2>1, <2>2, NumbersTyped
<1> QED  BY <1>1, <1>2

LEMMA AddsBelowMore ==
    ASSUME NEW m \in ManifestOf, NEW a \in Nat, NEW b \in Nat, a <= b, AddsBelow(m, a)
    PROVE  AddsBelow(m, b)
<1>1. ASSUME NEW i \in DOMAIN m.recs, ~IsTorn(m.recs[i]), NEW n \in Numbers(m.recs[i].add)  PROVE n < b
  <2>1. n \in Nat /\ n < a
    BY <1>1, ManifestAdds DEF AddsBelow
  <2> QED  BY <2>1
<1> QED  BY <1>1 DEF AddsBelow

\* One more edit, or a torn record.
LEMMA NumberedAppend ==
    ASSUME NEW m \in ManifestOf, NEW r \in EditOf \cup {Torn}, NEW g, g.recs = Append(m.recs, r),
           NEW b \in Nat, AddsBelow(m, b), ManifestNumbered(m),
           ~IsTorn(r) => /\ r.log < r.next /\ 1 < r.next /\ r.next <= b
                         /\ (\A n \in Numbers(r.add) : n < r.next) /\ AddsBelow(m, r.next)
    PROVE  ManifestNumbered(g) /\ AddsBelow(g, b)
<1> DEFINE len == Len(m.recs)
<1>1. /\ len \in Nat /\ DOMAIN m.recs = 1 .. len /\ DOMAIN g.recs = 1 .. len + 1
      /\ \A i \in 1 .. len : g.recs[i] = m.recs[i]
      /\ g.recs[len + 1] = r
  <2>1. m.recs \in Seq(EditOf \cup {Torn})
    BY DEF ManifestOf
  <2> QED  BY <2>1, AppendProperties
<1>2. ~IsTorn(r) => r \in EditOf /\ Numbers(r.add) \subseteq Nat /\ r.next \in Nat
  <2>1. ~IsTorn(r) => r \in EditOf
    BY TornRecords
  <2>2. r \in EditOf => r.add \in SUBSET Table /\ r.next \in Nat
    BY DEF EditOf
  <2> QED  BY <2>1, <2>2, NumbersTyped
<1> HIDE DEF len
<1>3. \A i \in 1 .. len + 1 : i \in 1 .. len \/ i = len + 1
  BY <1>1
<1>4. AddsBelow(g, b)
  <2>1. ASSUME NEW i \in DOMAIN g.recs, ~IsTorn(g.recs[i]), NEW n \in Numbers(g.recs[i].add)  PROVE n < b
    <3>1. CASE i \in 1 .. len
      BY <1>1, <2>1, <3>1 DEF AddsBelow
    <3>2. CASE i = len + 1
      <4>1. ~IsTorn(r) /\ n \in Numbers(r.add)
        BY <1>1, <2>1, <3>2
      <4>2. n \in Nat /\ n < r.next /\ r.next <= b /\ r.next \in Nat
        BY <1>2, <4>1
      <4> QED  BY <4>2
    <3> QED  BY <1>1, <1>3, <3>1, <3>2
  <2> QED  BY <2>1 DEF AddsBelow
<1>5. ManifestNumbered(g)
  <2>1. ASSUME NEW i \in DOMAIN g.recs, ~IsTorn(g.recs[i])
        PROVE  /\ g.recs[i].log < g.recs[i].next /\ 1 < g.recs[i].next
               /\ \A j \in 1 .. i : ~IsTorn(g.recs[j]) => \A n \in Numbers(g.recs[j].add) : n < g.recs[i].next
    <3>1. CASE i \in 1 .. len
      <4>1. \A j \in 1 .. i : j \in 1 .. len
        BY <1>1, <3>1
      <4> QED  BY <1>1, <2>1, <3>1, <4>1 DEF ManifestNumbered
    <3>2. CASE i = len + 1
      <4>1. ~IsTorn(r) /\ g.recs[i] = r
        BY <1>1, <2>1, <3>2
      <4>2. ASSUME NEW j \in 1 .. i, ~IsTorn(g.recs[j]), NEW n \in Numbers(g.recs[j].add)  PROVE n < r.next
        <5>1. j \in 1 .. len \/ j = len + 1
          BY <1>3, <3>2
        <5> QED  BY <1>1, <4>1, <4>2, <5>1 DEF AddsBelow
      <4> QED  BY <4>1, <4>2
    <3> QED  BY <1>1, <1>3, <3>1, <3>2
  <2> QED  BY <2>1 DEF ManifestNumbered
<1> QED  BY <1>4, <1>5

LEMMA CutRecords ==
    ASSUME NEW m \in ManifestOf, NEW k \in m.synced .. Len(m.recs)
    PROVE  /\ Cut(m, k) \in ManifestOf /\ k \in Nat /\ k <= Len(m.recs) /\ Len(Cut(m, k).recs) = k
           /\ DOMAIN Cut(m, k).recs = 1 .. k /\ Cut(m, k).synced = k
           /\ \A i \in 1 .. k : Cut(m, k).recs[i] = m.recs[i] /\ i \in DOMAIN m.recs
<1> DEFINE R == EditOf \cup {Torn}
           c == [recs |-> SubSeq(m.recs, 1, k), synced |-> k]
<1>1. m \in FileOf(R) /\ ManifestOf = FileOf(R)
  BY DEF ManifestOf, FileOf
<1> HIDE DEF R
<1>2. /\ c \in FileOf(R) /\ k \in Nat /\ k <= Len(m.recs) /\ Len(c.recs) = k
      /\ \A i \in 1 .. k : c.recs[i] = m.recs[i] /\ i \in 1 .. Len(m.recs)
  BY <1>1, CutTyped
<1>3. c.synced = k /\ c = Cut(m, k)
  BY DEF Cut
<1> HIDE DEF c
<1>4. DOMAIN c.recs = 1 .. k /\ DOMAIN m.recs = 1 .. Len(m.recs)
  BY <1>1, <1>2 DEF FileOf
<1> QED  BY <1>1, <1>2, <1>3, <1>4

LEMMA NumberedCut ==
    ASSUME NEW m \in ManifestOf, ManifestNumbered(m), NEW k \in m.synced .. Len(m.recs)
    PROVE  ManifestNumbered(Cut(m, k))
<1>1. ASSUME NEW i \in DOMAIN Cut(m, k).recs
      PROVE  i \in 1 .. k /\ \A j \in 1 .. i : j \in 1 .. k
  BY <1>1, CutRecords
<1>2. \A i \in 1 .. k : Cut(m, k).recs[i] = m.recs[i] /\ i \in DOMAIN m.recs
  BY CutRecords
<1> QED  BY <1>1, <1>2 DEF ManifestNumbered

LEMMA NumberedFirst ==
    ASSUME NEW e, NEW f, f.recs = <<e>>, e.log < e.next, 1 < e.next, \A n \in Numbers(e.add) : n < e.next
    PROVE  ManifestNumbered(f) /\ \A b : (\A n \in Numbers(e.add) : n < b) => AddsBelow(f, b)
<1>1. DOMAIN f.recs = {1} /\ f.recs[1] = e /\ 1 .. 1 = {1}
  OBVIOUS
<1> QED  BY <1>1 DEF ManifestNumbered, AddsBelow

\* What a step may do to the numbers while the database is open, but for those that
\* write the manifest.
LEMMA NumbersKept ==
    ASSUME BaseInv, NumbersInv, db.up = "open", db'.up = "open", db'.manifest = db.manifest,
           DiskTyped', db' \in DbOf, db'.nextFile \in {db.nextFile, db.nextFile + 1},
           disk'.manifests = disk.manifests,
           db'.version = db.version, db'.logNumber = db.logNumber,
           \/ DOMAIN disk'.logs = DOMAIN disk.logs /\ db'.logfile = db.logfile
           \/ /\ disk'.logs = With(disk.logs, db.nextFile, File)
              /\ db'.logfile = db.nextFile /\ db'.nextFile = db.nextFile + 1,
           \A n \in DOMAIN disk'.tables : n \in DOMAIN disk.tables \/ n < db'.nextFile,
           \A n \in db'.pending : n \in db.pending \/ n < db'.nextFile,
           bg'.num = bg.num \/ bg'.num < db'.nextFile,
           \A n \in bg'.out : n \in bg.out \/ n < db'.nextFile,
           bg'.pc \in {"manifest", "install"} =>
               \/ bg'.pc = bg.pc /\ bg'.edit = bg.edit
               \/ /\ bg'.pc = "manifest" /\ db'.nextFile = db.nextFile
                  /\ bg'.edit[1].next = db.nextFile /\ bg'.edit[1].log <= db.logfile /\ bg'.edit[1].log \in Nat
                  /\ \A n \in Numbers(bg'.edit[1].add) : n < db.nextFile
    PROVE  NumbersInv'
<1>1. /\ db.nextFile \in Nat /\ db.logfile \in Nat /\ db.logNumber \in Nat /\ db.manifest \in Nat
      /\ db.version \in SUBSET Table /\ db.pending \in SUBSET Nat /\ bg.num \in Nat /\ bg.out \in SUBSET Nat
      /\ DiskTyped
  BY FieldsOf
<1>2. db'.nextFile \in Nat /\ db.nextFile <= db'.nextFile
  BY <1>1
<1>3. VersionNumbered /\ LogsNumbered /\ FilesNumbered
      /\ \A n \in DOMAIN disk.manifests : ManifestNumbered(disk.manifests[n])
  BY DEF NumbersInv
<1>4. VersionNumbered'
  <2>1. \A n \in Numbers(db.version) : n < db'.nextFile
    <3>1. Numbers(db.version) \subseteq Nat
      BY <1>1, NumbersTyped
    <3> QED  BY <1>1, <1>2, <1>3, <3>1 DEF VersionNumbered
  <2>2. db.manifest < db'.nextFile /\ db.logNumber < db'.nextFile /\ db'.logfile < db'.nextFile
    BY <1>1, <1>2, <1>3 DEF VersionNumbered
  <2> QED  BY <1>3, <2>1, <2>2 DEF VersionNumbered
<1>5. LogsNumbered'
  <2>1. AddsBelow(disk.manifests[db.manifest], db'.nextFile)
    BY <1>1, <1>2, <1>3, AddsBelowMore DEF LogsNumbered, DiskTyped
  <2>2. CASE DOMAIN disk'.logs = DOMAIN disk.logs /\ db'.logfile = db.logfile
    BY <1>3, <2>1, <2>2 DEF LogsNumbered
  <2>3. CASE /\ disk'.logs = With(disk.logs, db.nextFile, File)
             /\ db'.logfile = db.nextFile /\ db'.nextFile = db.nextFile + 1
    <3>1. DOMAIN disk'.logs = DOMAIN disk.logs \cup {db.nextFile}
      BY <2>3 DEF With
    <3>2. db.logNumber <= db.nextFile /\ \A n \in DOMAIN disk.logs : n <= db.nextFile
      <4>1. db.logfile < db.nextFile /\ db.logNumber < db.nextFile
        BY <1>3 DEF VersionNumbered
      <4>2. \A n \in DOMAIN disk.logs : n \in Nat /\ n <= db.logfile
        BY <1>1, <1>3 DEF LogsNumbered, DiskTyped
      <4> QED  BY <1>1, <4>1, <4>2
    <3>3. db.nextFile <= db.nextFile
      BY <1>1
    <3> QED  BY <1>3, <2>1, <2>3, <3>1, <3>2, <3>3 DEF LogsNumbered
  <2> QED  BY <2>2, <2>3
<1>6. FilesNumbered'
  <2>1. \A n \in DOMAIN disk.tables \cup db.pending \cup bg.out \cup {bg.num} : n < db'.nextFile
    <3>1. \A n \in DOMAIN disk.tables \cup db.pending \cup bg.out \cup {bg.num} : n \in Nat /\ n < db.nextFile
      BY <1>1, <1>3 DEF FilesNumbered, DiskTyped
    <3> QED  BY <1>1, <1>2, <3>1
  <2> QED  BY <2>1 DEF FilesNumbered
<1>7. bg'.pc \in {"manifest", "install"} => EditNumbered(bg.edit[1])' 
  <2> SUFFICES ASSUME bg'.pc \in {"manifest", "install"}  PROVE EditNumbered(bg.edit[1])'
    OBVIOUS
  <2>1. CASE bg'.pc = bg.pc /\ bg'.edit = bg.edit
    <3>1. bg.edit[1].next \in Nat /\ bg.edit[1].log \in Nat /\ EditNumbered(bg.edit[1])
      BY <2>1, FieldsOf DEF NumbersInv, EditOf
    <3>2. bg.edit[1].next <= db'.nextFile
      BY <1>1, <1>2, <3>1 DEF EditNumbered
    <3>3. bg.edit[1].log <= db'.logfile
      <4>1. bg.edit[1].log <= db.logfile /\ db.logfile < db.nextFile
        BY <1>3, <3>1 DEF EditNumbered, VersionNumbered
      <4> QED  BY <1>1, <3>1, <4>1
    <3> QED  BY <2>1, <3>1, <3>2, <3>3 DEF EditNumbered
  <2>2. CASE /\ bg'.pc = "manifest" /\ db'.nextFile = db.nextFile
             /\ bg'.edit[1].next = db.nextFile /\ bg'.edit[1].log <= db.logfile /\ bg'.edit[1].log \in Nat
             /\ \A n \in Numbers(bg'.edit[1].add) : n < db.nextFile
    <3>1. 1 < db.nextFile /\ bg'.edit[1].log < db.nextFile
      <4>1. 1 < db.manifest /\ db.manifest < db.nextFile /\ db.logfile < db.nextFile
        BY <1>3 DEF VersionNumbered
      <4> QED  BY <1>1, <2>2, <4>1
    <3>2. AddsBelow(disk.manifests[db.manifest], db.nextFile)
      BY <1>3 DEF LogsNumbered
    <3>3. db.nextFile <= db.nextFile /\ db'.logfile = db.logfile
      BY <1>1, <2>2
    <3> QED  BY <2>2, <3>1, <3>2, <3>3 DEF EditNumbered
  <2> QED  BY <2>1, <2>2
<1> QED  BY <1>3, <1>4, <1>5, <1>6, <1>7 DEF NumbersInv

LEMMA NumbersOfThread ==
    ASSUME BaseInv, BaseInv', NumbersInv, NEW w \in Writer, Thread(w)
    PROVE  NumbersInv'
<1>1. ThreadFrame
  BY ThreadEffect
<1>2. DiskTyped' /\ db' \in DbOf
  BY DEF BaseInv, TypeInv
<1>3. db.nextFile \in Nat
  BY FieldsOf
<1>4. bg'.pc \in {"manifest", "install"} => bg'.pc = bg.pc /\ bg'.edit = bg.edit
  BY <1>1 DEF ThreadFrame, BgIs
<1> QED  BY <1>1, <1>2, <1>3, <1>4, NumbersKept DEF ThreadFrame, BgIs

LEMMA WithDomain ==
    ASSUME NEW files, NEW n, NEW f
    PROVE  /\ DOMAIN With(files, n, f) = DOMAIN files \cup {n}
           /\ With(files, n, f)[n] = f
           /\ \A m \in DOMAIN files : m # n => With(files, n, f)[m] = files[m]
  BY DEF With

LEMMA NumbersOfEdit ==
    ASSUME NEW log, NEW next, NEW last, NEW add, NEW del
    PROVE  LET e == Edit(log, next, last, add, del)
           IN  e.log = log /\ e.next = next /\ e.last = last /\ e.add = add /\ e.del = del /\ <<e>>[1] = e
  BY DEF Edit

\* A file is numbered once, whatever level it is at.
LEMMA NumbersOfMoved ==
    ASSUME NEW S, NEW level
    PROVE  Numbers({<<n, level>> : n \in S}) = S
<1> DEFINE files == {<<n, level>> : n \in S}
<1>1. \A n \in S : <<n, level>>[1] = n
  OBVIOUS
<1>2. \A f \in files : f[1] \in S
  BY <1>1
<1>3. \A n \in S : <<n, level>> \in files
  OBVIOUS
<1>4. ASSUME NEW n \in S  PROVE n \in Numbers(files)
  <2>1. PICK f : f = <<n, level>>
    OBVIOUS
  <2>2. f \in files /\ f[1] = n
    BY <1>1, <1>3, <2>1
  <2> HIDE DEF files
  <2> QED  BY <2>2 DEF Numbers
<1> HIDE DEF files
<1>5. Numbers(files) = S
  BY <1>2, <1>4 DEF Numbers
<1> QED  BY <1>5 DEF files

LEMMA NumbersOfOne ==
    ASSUME NEW n, NEW level
    PROVE  Numbers({<<n, level>>}) = {n}
<1> DEFINE f == <<n, level>>
<1>1. f[1] = n
  OBVIOUS
<1> HIDE DEF f
<1>2. Numbers({f}) = {n}
  BY <1>1 DEF Numbers
<1> QED  BY <1>2 DEF f

LEMMA NumbersOfBackground ==
    ASSUME BaseInv, BaseInv', NumbersInv, Background
    PROVE  NumbersInv'
<1>0. /\ db.up = "open" /\ db.nextFile \in Nat /\ db.logfile \in Nat /\ db.logNumber \in Nat /\ db.manifest \in Nat
      /\ db.version \in SUBSET Table /\ db.pending \in SUBSET Nat /\ bg.num \in Nat /\ bg.out \in SUBSET Nat
      /\ bg.inputs \in SUBSET Table /\ DiskTyped
  BY FieldsOf, BackgroundOpen
<1>1. DiskTyped' /\ db' \in DbOf
  BY DEF BaseInv, TypeInv
<1>2. VersionNumbered /\ LogsNumbered /\ FilesNumbered
      /\ \A n \in DOMAIN disk.manifests : ManifestNumbered(disk.manifests[n])
  BY <1>0 DEF NumbersInv
<1>3. 0 < db.nextFile /\ db.nextFile < db.nextFile + 1 /\ db.logNumber <= db.logfile
  BY <1>0, <1>2 DEF VersionNumbered, LogsNumbered
\* Those that write no manifest.
<1>4. ASSUME db'.up = "open", disk' = disk, db'.manifest = db.manifest, db'.logfile = db.logfile,
             db'.nextFile = db.nextFile, db'.version = db.version, db'.logNumber = db.logNumber,
             db'.pending \subseteq db.pending, FlushIsOver \/ HasEnded
      PROVE  NumbersInv'
  <2>1. bg'.pc \notin {"manifest", "install"} /\ bg'.num = 0 /\ bg'.out \subseteq bg.out
    BY <1>4 DEF FlushIsOver, HasEnded, BackToWork, BgIs
  <2> QED  BY <1>0, <1>1, <1>3, <1>4, <2>1, NumbersKept
<1>5. CASE NothingToDo
  BY <1>4, <1>5, NothingToDoEffect DEF DbIs
<1>6. CASE BuildTableFails
  BY <1>4, <1>6, BuildTableFailsEffect DEF DbIs
<1>7. CASE WorkFails
  BY <1>4, <1>7, WorkFailsEffect DEF DbIs
<1>8. CASE StartFlush
  <2>1. /\ disk' = disk
        /\ DbIs(db.nextFile + 1, db.pending \cup {db.nextFile}, db.version, db.logNumber, db.imm, db.error)
        /\ BgIs("build", db.nextFile, bg.edit, bg.inputs, bg.out, bg.written, bg.pc = "work")
    BY <1>8, StartFlushEffect
  <2>2. /\ db'.up = "open" /\ db'.manifest = db.manifest /\ db'.logfile = db.logfile
        /\ db'.nextFile = db.nextFile + 1 /\ db'.pending = db.pending \cup {db.nextFile}
        /\ db'.version = db.version /\ db'.logNumber = db.logNumber
        /\ bg'.pc = "build" /\ bg'.num = db.nextFile /\ bg'.out = bg.out
    BY <2>1 DEF DbIs, BgIs
  <2>3. (\A n \in db'.pending : n \in db.pending \/ n < db'.nextFile) /\ bg'.num < db'.nextFile
    BY <1>3, <2>2
  <2> QED  BY <1>0, <1>1, <2>1, <2>2, <2>3, NumbersKept
<1>9. CASE BuildTable
  <2> DEFINE ents == db.imm[1]
             add  == IF ents = {} THEN {} ELSE {<<bg.num, 0>>}
             e    == Edit(db.logfile, db.nextFile, db.lastSeq, add, {})
  <2>1. /\ disk' = IF ents = {} THEN disk ELSE [disk EXCEPT !.tables = With(@, bg.num, ents)]
        /\ DbIs(db.nextFile, db.pending \ {bg.num}, db.version, db.logNumber, db.imm, db.error)
        /\ BgIs("manifest", bg.num, <<e>>, bg.inputs, bg.out, bg.written, bg.inWork)
    BY <1>9, BuildTableEffect
  <2>2. e.log = db.logfile /\ e.next = db.nextFile /\ e.add = add /\ <<e>>[1] = e
    BY NumbersOfEdit
  <2>3. \A n \in Numbers(add) : n = bg.num
    BY DEF Numbers
  <2>4. bg.num < db.nextFile
    BY <1>2 DEF FilesNumbered
  <2> HIDE DEF e, add, ents
  <2>5. /\ db'.up = "open" /\ db'.manifest = db.manifest /\ db'.logfile = db.logfile
        /\ db'.nextFile = db.nextFile /\ db'.pending \subseteq db.pending
        /\ db'.version = db.version /\ db'.logNumber = db.logNumber
        /\ bg'.pc = "manifest" /\ bg'.num = bg.num /\ bg'.out = bg.out /\ bg'.edit = <<e>>
    BY <2>1 DEF DbIs, BgIs
  <2>6. /\ disk'.manifests = disk.manifests /\ disk'.logs = disk.logs
        /\ \A n \in DOMAIN disk'.tables : n \in DOMAIN disk.tables \/ n < db'.nextFile
    <3>1. CASE disk' = disk
      BY <3>1
    <3>2. CASE disk' = [disk EXCEPT !.tables = With(@, bg.num, ents)]
      <4>1. /\ disk'.manifests = disk.manifests /\ disk'.logs = disk.logs
            /\ disk'.tables = With(disk.tables, bg.num, ents)
        BY <1>0, <3>2 DEF DiskTyped
      <4>2. DOMAIN With(disk.tables, bg.num, ents) = DOMAIN disk.tables \cup {bg.num}
        BY DEF With
      <4> QED  BY <2>4, <2>5, <4>1, <4>2
    <3> QED  BY <2>1, <3>1, <3>2
  <2>7. /\ bg'.edit[1].next = db.nextFile /\ bg'.edit[1].log <= db.logfile /\ bg'.edit[1].log \in Nat
        /\ \A n \in Numbers(bg'.edit[1].add) : n < db.nextFile
    <3>1. bg'.edit[1] = e /\ db.logfile <= db.logfile
      BY <1>0, <2>2, <2>5
    <3> QED  BY <1>0, <2>2, <2>3, <2>4, <3>1
  <2> QED  BY <1>0, <1>1, <2>5, <2>6, <2>7, NumbersKept
<1>10. CASE StartMove
  <2> DEFINE add == {<<n, 1>> : n \in Numbers(db.version)}
             e   == Edit(db.logNumber, db.nextFile, db.lastSeq, add, db.version)
  <2>1. /\ disk' = disk
        /\ DbIs(db.nextFile, db.pending, db.version, db.logNumber, db.imm, db.error)
        /\ BgIs("manifest", bg.num, <<e>>, db.version, bg.out, bg.written, bg.inWork)
    BY <1>10, StartMoveEffect
  <2>2. e.log = db.logNumber /\ e.next = db.nextFile /\ Numbers(e.add) = Numbers(db.version) /\ <<e>>[1] = e
    <3>1. Numbers(add) = Numbers(db.version)
      BY NumbersOfMoved
    <3> HIDE DEF add
    <3>2. e.log = db.logNumber /\ e.next = db.nextFile /\ e.add = add /\ <<e>>[1] = e
      BY NumbersOfEdit
    <3> QED  BY <3>1, <3>2
  <2> HIDE DEF e, add
  <2>3. /\ db'.up = "open" /\ db'.manifest = db.manifest /\ db'.logfile = db.logfile
        /\ db'.nextFile = db.nextFile /\ db'.pending = db.pending
        /\ db'.version = db.version /\ db'.logNumber = db.logNumber
        /\ bg'.pc = "manifest" /\ bg'.num = bg.num /\ bg'.out = bg.out /\ bg'.edit[1] = e
    BY <2>1, <2>2 DEF DbIs, BgIs
  <2>4. /\ bg'.edit[1].next = db.nextFile /\ bg'.edit[1].log <= db.logfile /\ bg'.edit[1].log \in Nat
        /\ \A n \in Numbers(bg'.edit[1].add) : n < db.nextFile
    BY <1>0, <1>2, <1>3, <2>2, <2>3 DEF VersionNumbered
  <2> QED  BY <1>0, <1>1, <2>1, <2>3, <2>4, NumbersKept
<1>11. CASE StartCompaction
  <2>1. /\ disk' = disk
        /\ DbIs(db.nextFile, db.pending, db.version, db.logNumber, db.imm, db.error)
        /\ BgIs("work", bg.num, bg.edit, db.version, bg.out, bg.written, bg.inWork)
    BY <1>11, StartCompactionEffect
  <2> QED  BY <1>0, <1>1, <2>1, NumbersKept DEF DbIs, BgIs
<1>12. CASE OpenOutput
  <2>1. /\ disk' = disk
        /\ DbIs(db.nextFile + 1, db.pending \cup {db.nextFile}, db.version, db.logNumber, db.imm, db.error)
        /\ BgIs("work", bg.num, bg.edit, bg.inputs, {db.nextFile}, bg.written, bg.inWork)
    BY <1>12, OpenOutputEffect
  <2>2. /\ db'.up = "open" /\ db'.manifest = db.manifest /\ db'.logfile = db.logfile
        /\ db'.nextFile = db.nextFile + 1 /\ db'.pending = db.pending \cup {db.nextFile}
        /\ db'.version = db.version /\ db'.logNumber = db.logNumber
        /\ bg'.pc = "work" /\ bg'.num = bg.num /\ bg'.out = {db.nextFile}
    BY <2>1 DEF DbIs, BgIs
  <2>3. /\ \A n \in db'.pending : n \in db.pending \/ n < db'.nextFile
        /\ \A n \in bg'.out : n < db'.nextFile
    BY <1>3, <2>2
  <2> QED  BY <1>0, <1>1, <2>1, <2>2, <2>3, NumbersKept
<1>13. CASE WriteOutput
  <2>1. PICK k \in Nat :
           /\ bg.out = {k}
           /\ disk' = [disk EXCEPT !.tables = With(@, k, UNION {disk.tables[n] : n \in Numbers(bg.inputs)})]
           /\ DbIs(db.nextFile, db.pending, db.version, db.logNumber, db.imm, db.error)
           /\ BgIs("work", bg.num, bg.edit, bg.inputs, bg.out, TRUE, bg.inWork)
    BY <1>13, WriteOutputEffect
  <2>2. k < db.nextFile
    BY <1>2, <2>1 DEF FilesNumbered
  <2>3. /\ db'.up = "open" /\ db'.manifest = db.manifest /\ db'.logfile = db.logfile
        /\ db'.nextFile = db.nextFile /\ db'.pending = db.pending
        /\ db'.version = db.version /\ db'.logNumber = db.logNumber
        /\ bg'.pc = "work" /\ bg'.num = bg.num /\ bg'.out = bg.out
    BY <2>1 DEF DbIs, BgIs
  <2>4. /\ disk'.manifests = disk.manifests /\ disk'.logs = disk.logs
        /\ DOMAIN disk'.tables = DOMAIN disk.tables \cup {k}
    BY <1>0, <2>1, WithDomain DEF DiskTyped
  <2> QED  BY <1>0, <1>1, <2>2, <2>3, <2>4, NumbersKept
<1>14. CASE EndWork
  <2> DEFINE add == {<<n, 1>> : n \in bg.out}
             e   == Edit(db.logNumber, db.nextFile, db.lastSeq, add, bg.inputs)
  <2>1. /\ disk' = disk
        /\ DbIs(db.nextFile, db.pending, db.version, db.logNumber, db.imm, db.error)
        /\ BgIs("manifest", bg.num, <<e>>, bg.inputs, bg.out, bg.written, bg.inWork)
    BY <1>14, EndWorkEffect
  <2>2. e.log = db.logNumber /\ e.next = db.nextFile /\ Numbers(e.add) = bg.out /\ <<e>>[1] = e
    <3>1. Numbers(add) = bg.out
      BY NumbersOfMoved
    <3> HIDE DEF add
    <3>2. e.log = db.logNumber /\ e.next = db.nextFile /\ e.add = add /\ <<e>>[1] = e
      BY NumbersOfEdit
    <3> QED  BY <3>1, <3>2
  <2> HIDE DEF e, add
  <2>3. /\ db'.up = "open" /\ db'.manifest = db.manifest /\ db'.logfile = db.logfile
        /\ db'.nextFile = db.nextFile /\ db'.pending = db.pending
        /\ db'.version = db.version /\ db'.logNumber = db.logNumber
        /\ bg'.pc = "manifest" /\ bg'.num = bg.num /\ bg'.out = bg.out /\ bg'.edit[1] = e
    BY <2>1, <2>2 DEF DbIs, BgIs
  <2>4. /\ bg'.edit[1].next = db.nextFile /\ bg'.edit[1].log <= db.logfile /\ bg'.edit[1].log \in Nat
        /\ \A n \in Numbers(bg'.edit[1].add) : n < db.nextFile
    BY <1>0, <1>2, <1>3, <2>2, <2>3 DEF FilesNumbered
  <2> QED  BY <1>0, <1>1, <2>1, <2>3, <2>4, NumbersKept
\* Those that do.
<1>15. ASSUME bg.pc = "manifest", NEW r \in EditOf \cup {Torn}, r \in {Torn, bg.edit[1]},
              NEW f, f.recs = Append(disk.manifests[db.manifest].recs, r),
              disk' = [disk EXCEPT !.manifests[db.manifest] = f],
              db'.up = "open", db'.manifest = db.manifest, db'.logfile = db.logfile,
              db'.nextFile = db.nextFile, db'.version = db.version, db'.logNumber = db.logNumber,
              db'.pending \subseteq db.pending,
              bg'.num \in {0, bg.num}, bg'.out \subseteq bg.out, bg'.pc # "manifest",
              bg'.pc = "install" => bg'.edit = bg.edit
       PROVE  NumbersInv'
  <2> DEFINE m == disk.manifests[db.manifest]
  <2>1. m \in ManifestOf /\ db.manifest \in DOMAIN disk.manifests
    BY <1>0, <1>2 DEF LogsNumbered, DiskTyped
  <2>2. EditNumbered(bg.edit[1])
    BY <1>15 DEF NumbersInv
  <2>3. AddsBelow(m, db.nextFile) /\ ManifestNumbered(m)
    BY <1>2, <2>1 DEF LogsNumbered
  <2>4. ~IsTorn(r) => /\ r.log < r.next /\ 1 < r.next /\ r.next <= db.nextFile
                      /\ (\A n \in Numbers(r.add) : n < r.next) /\ AddsBelow(m, r.next)
    <3>1. ~IsTorn(r) => r = bg.edit[1]
      BY <1>15, TornRecords
    <3> QED  BY <1>15, <2>2, <3>1 DEF EditNumbered
  <2> HIDE DEF m
  <2>5. ManifestNumbered(f) /\ AddsBelow(f, db.nextFile)
    <3>1. f.recs = Append(m.recs, r)
      BY <1>15 DEF m
    <3> QED  BY <1>0, <2>1, <2>3, <2>4, <3>1, NumberedAppend
  <2>6. /\ disk'.logs = disk.logs /\ disk'.tables = disk.tables
        /\ disk'.manifests = [disk.manifests EXCEPT ![db.manifest] = f]
    BY <1>0, <1>15 DEF DiskTyped
  <2>7. /\ DOMAIN disk'.manifests = DOMAIN disk.manifests /\ disk'.manifests[db.manifest] = f
        /\ \A n \in DOMAIN disk.manifests : n # db.manifest => disk'.manifests[n] = disk.manifests[n]
    BY <2>1, <2>6
  <2>8. \A n \in DOMAIN disk'.manifests : ManifestNumbered(disk'.manifests[n])
    BY <1>2, <2>5, <2>7
  <2>9. VersionNumbered' /\ LogsNumbered'
    BY <1>2, <1>15, <2>5, <2>6, <2>7 DEF VersionNumbered, LogsNumbered
  <2>10. FilesNumbered'
    BY <1>2, <1>3, <1>15, <2>6 DEF FilesNumbered
  <2>11. bg'.pc \in {"manifest", "install"} => EditNumbered(bg.edit[1])'
    BY <1>15, <2>2 DEF EditNumbered
  <2> QED  BY <2>8, <2>9, <2>10, <2>11 DEF NumbersInv
<1>16. CASE WriteManifest
  <2> DEFINE f == Synced(Appended(disk.manifests[db.manifest], bg.edit[1]))
  <2>1. /\ bg.pc = "manifest" /\ bg.edit[1] \in EditOf
        /\ disk' = [disk EXCEPT !.manifests[db.manifest] = f]
        /\ DbIs(db.nextFile, db.pending, db.version, db.logNumber, db.imm, db.error)
        /\ BgIs("install", bg.num, bg.edit, bg.inputs, bg.out, bg.written, bg.inWork)
    BY <1>16, WriteManifestEffect
  <2>2. f.recs = Append(disk.manifests[db.manifest].recs, bg.edit[1])
    <3>1. disk.manifests[db.manifest] \in ManifestOf
      BY <1>0, <1>2 DEF LogsNumbered, DiskTyped
    <3>2. bg.edit[1] \in EditOf \cup {Torn}
      BY <2>1
    <3> QED  BY <3>1, <3>2, AppendedManifest
  <2> HIDE DEF f
  <2>3. bg.edit[1] \in EditOf \cup {Torn} /\ bg.edit[1] \in {Torn, bg.edit[1]}
    BY <2>1
  <2> QED  BY <1>15, <2>1, <2>2, <2>3 DEF DbIs, BgIs
<1>17. CASE WriteManifestFails
  <2>1. /\ bg.pc = "manifest" /\ bg.edit[1] \in EditOf
        /\ \/ disk' = disk
           \/ \E r \in {Torn, bg.edit[1]} :
                 disk' = [disk EXCEPT !.manifests[db.manifest] = Appended(disk.manifests[db.manifest], r)]
        /\ DbIs(db.nextFile, IF IsFlush THEN db.pending ELSE db.pending \ bg.out,
                db.version, db.logNumber, db.imm, TRUE)
        /\ FlushIsOver \/ HasEnded
    BY <1>17, WriteManifestFailsEffect
  <2>2. /\ db'.up = "open" /\ db'.manifest = db.manifest /\ db'.logfile = db.logfile
        /\ db'.nextFile = db.nextFile /\ db'.version = db.version /\ db'.logNumber = db.logNumber
        /\ db'.pending \subseteq db.pending
    BY <2>1 DEF DbIs
  <2>3. bg'.num = 0 /\ bg'.out \subseteq bg.out /\ bg'.pc \notin {"manifest", "install"}
    BY <2>1 DEF FlushIsOver, HasEnded, BackToWork, BgIs
  <2>4. CASE disk' = disk
    BY <1>4, <2>1, <2>2, <2>4
  <2>5. ASSUME NEW r \in {Torn, bg.edit[1]},
               disk' = [disk EXCEPT !.manifests[db.manifest] = Appended(disk.manifests[db.manifest], r)]
        PROVE  NumbersInv'
    <3>1. r \in EditOf \cup {Torn}
      BY <2>1, <2>5
    <3>2. Appended(disk.manifests[db.manifest], r).recs = Append(disk.manifests[db.manifest].recs, r)
      BY <1>0, <1>2, <3>1, AppendedManifest DEF LogsNumbered, DiskTyped
    <3> QED  BY <1>15, <2>1, <2>2, <2>3, <2>5, <3>1, <3>2
  <2> QED  BY <2>1, <2>4, <2>5
<1>18. CASE InstallVersion
  <2>1. /\ bg.pc = "install" /\ bg.edit[1] \in EditOf
        /\ DbIs(db.nextFile, IF IsFlush THEN db.pending ELSE db.pending \ bg.out,
                Applied(db.version, bg.edit[1]), bg.edit[1].log, IF IsFlush THEN <<>> ELSE db.imm, db.error)
        /\ FlushIsOver \/ HasEnded
        /\ disk' = disk \/ FilesLeft(IF IsFlush THEN bg.inputs ELSE {})
    BY <1>18, InstallVersionEffect
  <2>2. /\ db'.up = "open" /\ db'.manifest = db.manifest /\ db'.logfile = db.logfile
        /\ db'.nextFile = db.nextFile /\ db'.version = Applied(db.version, bg.edit[1])
        /\ db'.logNumber = bg.edit[1].log /\ db'.pending \subseteq db.pending
    BY <2>1 DEF DbIs
  <2>3. bg'.num = 0 /\ bg'.out \subseteq bg.out /\ bg'.pc \notin {"manifest", "install"}
    BY <2>1 DEF FlushIsOver, HasEnded, BackToWork, BgIs
  <2>4. EditNumbered(bg.edit[1]) /\ bg.edit[1].log \in Nat /\ bg.edit[1].next \in Nat
        /\ bg.edit[1].add \in SUBSET Table
    BY <2>1 DEF NumbersInv, EditOf
  <2>5. \A n \in Numbers(db'.version) : n < db.nextFile
    <3>1. \A n \in Numbers(db'.version) : n \in Numbers(db.version) \/ n \in Numbers(bg.edit[1].add)
      BY <2>2 DEF Numbers, Applied
    <3>2. \A n \in Numbers(bg.edit[1].add) : n < db.nextFile
      <4>1. Numbers(bg.edit[1].add) \subseteq Nat
        BY <2>4, NumbersTyped
      <4> QED  BY <1>0, <2>4, <4>1 DEF EditNumbered
    <3> QED  BY <1>2, <3>1, <3>2 DEF VersionNumbered
  <2>6. bg.edit[1].log < db.nextFile
    BY <1>0, <2>4 DEF EditNumbered
  <2>7. VersionNumbered'
    BY <1>2, <2>2, <2>5, <2>6 DEF VersionNumbered
  <2>8. /\ DOMAIN disk'.logs \subseteq DOMAIN disk.logs /\ DOMAIN disk'.manifests \subseteq DOMAIN disk.manifests
        /\ DOMAIN disk'.tables \subseteq DOMAIN disk.tables
        /\ \A n \in DOMAIN disk'.manifests : disk'.manifests[n] = disk.manifests[n]
        /\ db.manifest \in DOMAIN disk'.manifests /\ db.logfile \in DOMAIN disk'.logs
    <3>1. CASE disk' = disk
      BY <1>2, <3>1 DEF LogsNumbered
    <3>2. CASE FilesLeft(IF IsFlush THEN bg.inputs ELSE {})
      <4>1. db.logfile >= db'.logNumber /\ db.manifest >= db'.manifest
        BY <1>0, <2>2, <2>4 DEF EditNumbered
      <4> QED  BY <1>2, <3>2, <4>1 DEF FilesLeft, LogsNumbered
    <3> QED  BY <2>1, <3>1, <3>2
  <2>9. LogsNumbered'
    BY <1>2, <2>2, <2>4, <2>8 DEF LogsNumbered, EditNumbered
  <2>10. FilesNumbered'
    BY <1>2, <1>3, <2>2, <2>3, <2>8 DEF FilesNumbered
  <2>11. \A n \in DOMAIN disk'.manifests : ManifestNumbered(disk'.manifests[n])
    BY <1>2, <2>8
  <2> QED  BY <2>3, <2>7, <2>9, <2>10, <2>11 DEF NumbersInv
<1> QED  BY <1>5, <1>6, <1>7, <1>8, <1>9, <1>10, <1>11, <1>12, <1>13, <1>14, <1>16, <1>17, <1>18 DEF Background

LEMMA NumbersOfOpen ==
    ASSUME BaseInv, BaseInv', NumbersInv, Open
    PROVE  NumbersInv'
<1>0. /\ db.nextFile \in Nat /\ db.logfile \in Nat /\ db.logNumber \in Nat /\ db.manifest \in Nat
      /\ db.version \in SUBSET Table /\ Numbers(db.version) \subseteq Nat /\ DiskTyped /\ QuietInv
  BY FieldsOf, NumbersTyped
<1>1. \A n \in DOMAIN disk.manifests : ManifestNumbered(disk.manifests[n])
  BY DEF NumbersInv
<1>2. Numbers({}) = {}
  BY DEF Numbers
<1>3. CASE NewDB
  <2>1. /\ db.up = "down" /\ db' = db /\ bg' = bg
        /\ disk'.manifests = With(disk.manifests, 1, Appended(File, FirstEdit))
        /\ Appended(File, FirstEdit).recs = <<FirstEdit>>
    BY <1>3, NewDBEffect
  <2>2. FirstEdit.log = 0 /\ FirstEdit.next = 2 /\ FirstEdit.add = {}
    BY NumbersOfEdit DEF FirstEdit
  <2>3. ManifestNumbered(Appended(File, FirstEdit))
    <3>1. FirstEdit.log < FirstEdit.next /\ 1 < FirstEdit.next /\ \A n \in Numbers(FirstEdit.add) : n < FirstEdit.next
      BY <1>2, <2>2
    <3> QED  BY <2>1, <3>1, NumberedFirst
  <2>4. \A n \in DOMAIN disk'.manifests : ManifestNumbered(disk'.manifests[n])
    <3> DEFINE f == Appended(File, FirstEdit)
    <3> HIDE DEF f
    <3>1. /\ DOMAIN disk'.manifests = DOMAIN disk.manifests \cup {1} /\ disk'.manifests[1] = f
          /\ \A n \in DOMAIN disk.manifests : n # 1 => disk'.manifests[n] = disk.manifests[n]
      BY <2>1 DEF With, f
    <3>2. ManifestNumbered(f)
      BY <2>3 DEF f
    <3> QED  BY <1>1, <3>1, <3>2
  <2>5. db'.up = "down" /\ bg'.pc = "off"
    BY <1>0, <2>1 DEF QuietInv, BgOff
  <2> QED  BY <2>4, <2>5 DEF NumbersInv
<1>4. CASE Recover
  <2> DEFINE m == disk.manifests[disk.current]
             e == LastEdit(m)
             readable == /\ disk.current \in DOMAIN disk.manifests /\ Readable(m)
                         /\ Numbers(VersionOf(m)) \subseteq DOMAIN disk.tables
  <2>1. /\ db.up = "down" /\ disk.current # 0 /\ disk' = disk /\ bg' = bg
        /\ \/ ~readable /\ db'.up = "corrupt"
           \/ /\ readable /\ e \in EditOf /\ m \in ManifestOf /\ VersionOf(m) \subseteq Table
              /\ db'.up = "logs" /\ db'.manifest = e.next /\ db'.nextFile = e.next + 1
              /\ db'.lastSeq = e.last /\ db'.logNumber = e.log /\ db'.logfile = 0
              /\ db'.version = VersionOf(m)
    BY <1>4, RecoverEffect
  <2>2. bg'.pc = "off"
    BY <1>0, <2>1 DEF QuietInv, BgOff
  <2>3. CASE db'.up = "corrupt"
    BY <1>1, <2>1, <2>2, <2>3 DEF NumbersInv
  <2>4. CASE db'.up = "logs"
    <3>1. /\ readable /\ e \in EditOf /\ m \in ManifestOf
          /\ db'.manifest = e.next /\ db'.nextFile = e.next + 1
          /\ db'.logNumber = e.log /\ db'.logfile = 0 /\ db'.version = VersionOf(m)
      BY <2>1, <2>4
    <3>2. ManifestNumbered(m) /\ Readable(m)
      BY <1>1, <3>1
    <3> HIDE DEF m
    <3>3. PICK k \in 1 .. Len(m.recs) : Whole(m) = 1 .. k /\ LastEdit(m) = m.recs[k] /\ LastEdit(m) \in EditOf
      BY <3>1, <3>2, ReadableManifest
    <3>4. k \in DOMAIN m.recs /\ ~IsTorn(m.recs[k])
      BY <3>1, <3>3, ManifestAdds, TornRecords
    <3>5. e.log \in Nat /\ e.next \in Nat /\ e.log < e.next /\ 1 < e.next
      BY <3>1, <3>2, <3>3, <3>4, ManifestAdds DEF ManifestNumbered
    <3>6. ASSUME NEW n \in Numbers(VersionOf(m))  PROVE n \in Nat /\ n < e.next
      <4>1. PICK f \in VersionOf(m) : n = f[1]
        BY DEF Numbers
      <4>2. PICK i \in Whole(m) : f \in m.recs[i].add
        BY DEF VersionOf
      <4>3. i \in 1 .. k /\ ~IsTorn(m.recs[i]) /\ i \in DOMAIN m.recs
        BY <3>3, <4>2 DEF Whole
      <4>4. n \in Numbers(m.recs[i].add)
        BY <4>1, <4>2 DEF Numbers
      <4>5. n < m.recs[k].next
        BY <3>2, <3>4, <4>3, <4>4 DEF ManifestNumbered
      <4>6. n \in Nat
        BY <3>1, <4>3, <4>4, ManifestAdds
      <4> QED  BY <3>3, <4>5, <4>6
    <3> HIDE DEF e
    <3>7. VersionNumbered'
      <4>1. \A n \in Numbers(VersionOf(m)) : n < e.next + 1
        BY <3>5, <3>6
      <4>2. 1 < e.next /\ e.next < e.next + 1 /\ e.log < e.next + 1 /\ 0 < e.next + 1
        BY <3>5
      <4> QED  BY <3>1, <4>1, <4>2 DEF VersionNumbered
    <3> QED  BY <1>1, <2>1, <2>2, <2>4, <3>7 DEF NumbersInv
  <2> QED  BY <2>1, <2>3, <2>4
<1>5. CASE RecoverLog
  <2>1. PICK n, ents, next, last, version : Recovered(n, ents, next, last, version)
    BY <1>5, LogRecovered
  <2>2. /\ db.up = "logs" /\ db'.up = "logs" /\ db'.manifest = db.manifest /\ db'.logNumber = db.logNumber
        /\ db'.logfile = n /\ db'.nextFile = next /\ db'.version = version
        /\ disk'.manifests = disk.manifests /\ bg' = bg
    BY <1>5, <2>1, RecoverLogEffect
  <2>3. /\ next \in Nat /\ next >= db.nextFile /\ next > n /\ (ents # {} => next > db.nextFile) /\ n \in Nat
        /\ version = db.version \cup IF ents = {} THEN {} ELSE {<<db.nextFile, 0>>}
    BY <2>1 DEF Recovered
  <2>4. VersionNumbered
    BY <2>2 DEF NumbersInv
  <2>5. ASSUME NEW x \in Numbers(version)  PROVE x < next
    <3>1. PICK f \in version : x = f[1]
      BY DEF Numbers
    <3>2. CASE f \in db.version
      <4>1. x \in Numbers(db.version)
        BY <3>1, <3>2 DEF Numbers
      <4> QED  BY <1>0, <2>3, <2>4, <4>1 DEF VersionNumbered
    <3>3. CASE f \notin db.version
      <4>1. ents # {} /\ f = <<db.nextFile, 0>>
        BY <2>3, <3>3
      <4>2. x = db.nextFile
        BY <3>1, <4>1
      <4> QED  BY <1>0, <2>3, <4>1, <4>2
    <3> QED  BY <3>2, <3>3
  <2>6. 1 < db.manifest /\ db.manifest < next /\ db.logNumber < next /\ n < next
    BY <1>0, <2>3, <2>4 DEF VersionNumbered
  <2>7. VersionNumbered'
    BY <2>2, <2>5, <2>6 DEF VersionNumbered
  <2>8. bg'.pc = "off"
    BY <1>0, <2>2 DEF QuietInv, BgOff
  <2> QED  BY <1>1, <2>2, <2>7, <2>8 DEF NumbersInv
<1>6. CASE NewManifest
  <2> DEFINE log  == db.nextFile
             edit == Edit(log, log + 1, db.lastSeq, db.version, {})
             f    == Synced(Appended(File, edit))
  <2>1. /\ db.up = "logs" /\ db'.up = "current" /\ LogsToRecover = {}
        /\ db'.manifest = db.manifest /\ db'.version = db.version
        /\ db'.logfile = log /\ db'.logNumber = log /\ db'.nextFile = log + 1
        /\ disk'.logs = With(disk.logs, log, File) /\ disk'.manifests = With(disk.manifests, db.manifest, f)
        /\ f.recs = <<edit>> /\ bg' = bg
    BY <1>6, NewManifestEffect
  <2>2. edit.log = log /\ edit.next = log + 1 /\ edit.add = db.version
    BY NumbersOfEdit
  <2> HIDE DEF edit, f
  <2>3. VersionNumbered
    BY <2>1 DEF NumbersInv
  <2>4. \A n \in Numbers(db.version) : n < log + 1
    BY <1>0, <2>3 DEF VersionNumbered
  <2>5. log < log + 1 /\ log <= log /\ 1 < log + 1 /\ db.manifest < log + 1 /\ 1 < db.manifest
    BY <1>0, <2>3 DEF VersionNumbered
  <2>6. ManifestNumbered(f) /\ AddsBelow(f, log + 1)
    <3>1. edit.log < edit.next /\ 1 < edit.next /\ \A n \in Numbers(edit.add) : n < edit.next
      BY <2>2, <2>4, <2>5
    <3>2. ManifestNumbered(f) /\ \A b : (\A n \in Numbers(edit.add) : n < b) => AddsBelow(f, b)
      BY <2>1, <3>1, NumberedFirst
    <3> QED  BY <2>2, <2>4, <3>2
  <2>7. ASSUME NEW n \in DOMAIN disk.logs  PROVE n <= log
    <3>1. n \in Nat /\ (n < db.logNumber \/ n <= db.logfile)
      BY <1>0, <2>1 DEF LogsToRecover, DiskTyped
    <3>2. db.logNumber < log /\ db.logfile < log
      BY <2>3 DEF VersionNumbered
    <3> QED  BY <1>0, <3>1, <3>2
  <2>8. /\ DOMAIN disk'.logs = DOMAIN disk.logs \cup {log}
        /\ DOMAIN disk'.manifests = DOMAIN disk.manifests \cup {db.manifest}
        /\ disk'.manifests[db.manifest] = f
        /\ \A n \in DOMAIN disk.manifests : n # db.manifest => disk'.manifests[n] = disk.manifests[n]
    <3> HIDE DEF log
    <3> QED  BY <2>1 DEF With
  <2>9. \A n \in DOMAIN disk'.manifests : ManifestNumbered(disk'.manifests[n])
    BY <1>1, <2>6, <2>8
  <2>10. VersionNumbered'
    BY <2>1, <2>4, <2>5 DEF VersionNumbered
  <2>11. LogsNumbered'
    BY <2>1, <2>5, <2>6, <2>7, <2>8 DEF LogsNumbered
  <2>12. bg'.pc = "off"
    BY <1>0, <2>1 DEF QuietInv, BgOff
  <2> QED  BY <2>1, <2>9, <2>10, <2>11, <2>12 DEF NumbersInv
<1>7. CASE SetCurrent
  <2>1. /\ db.up = "current" /\ db'.up = "open"
        /\ db'.manifest = db.manifest /\ db'.version = db.version
        /\ db'.logfile = db.logfile /\ db'.logNumber = db.logNumber /\ db'.nextFile = db.nextFile
        /\ db'.pending = {} /\ FilesLeft({}) /\ HasEnded
        /\ DOMAIN disk'.tables = DOMAIN disk.tables \cap Numbers(db.version)
    BY <1>7, SetCurrentEffect
  <2>2. VersionNumbered /\ LogsNumbered
    BY <2>1 DEF NumbersInv
  <2>3. VersionNumbered'
    BY <2>1, <2>2 DEF VersionNumbered
  <2>4. /\ DOMAIN disk'.logs \subseteq DOMAIN disk.logs /\ DOMAIN disk'.manifests \subseteq DOMAIN disk.manifests
        /\ \A n \in DOMAIN disk'.manifests : disk'.manifests[n] = disk.manifests[n]
        /\ db.manifest \in DOMAIN disk'.manifests /\ db.logfile \in DOMAIN disk'.logs
    <3>1. db.logfile >= db'.logNumber /\ db.manifest >= db'.manifest
      BY <1>0, <2>1, <2>2 DEF LogsNumbered
    <3> QED  BY <2>1, <2>2, <3>1 DEF FilesLeft, LogsNumbered
  <2>5. LogsNumbered'
    BY <2>1, <2>2, <2>4 DEF LogsNumbered
  <2>6. bg'.pc \notin {"manifest", "install"} /\ bg'.num = 0 /\ bg'.out = {}
    BY <2>1 DEF HasEnded, BgIs
  <2>7. 0 < db.nextFile
    BY <1>0, <2>2 DEF VersionNumbered
  <2>8. FilesNumbered'
    BY <2>1, <2>2, <2>6, <2>7 DEF FilesNumbered, VersionNumbered
  <2>9. \A n \in DOMAIN disk'.manifests : ManifestNumbered(disk'.manifests[n])
    BY <1>1, <2>4
  <2> QED  BY <2>1, <2>3, <2>5, <2>6, <2>8, <2>9 DEF NumbersInv
<1> QED  BY <1>3, <1>4, <1>5, <1>6, <1>7 DEF Open

LEMMA NumbersOfCrash ==
    ASSUME BaseInv, NumbersInv, ProcessCrash \/ MachineCrash
    PROVE  NumbersInv'
<1>1. /\ db'.up = "down" /\ bg'.pc = "off"
      /\ DOMAIN disk'.manifests = DOMAIN disk.manifests
      /\ \/ disk'.manifests = disk.manifests
         \/ \A n \in DOMAIN disk.manifests :
                \E k \in disk.manifests[n].synced .. Len(disk.manifests[n].recs) :
                    disk'.manifests[n] = Cut(disk.manifests[n], k)
  BY CrashEffect
<1>2. \A n \in DOMAIN disk.manifests : ManifestNumbered(disk.manifests[n]) /\ disk.manifests[n] \in ManifestOf
  BY FieldsOf DEF NumbersInv, DiskTyped
<1>3. \A n \in DOMAIN disk'.manifests : ManifestNumbered(disk'.manifests[n])
  BY <1>1, <1>2, NumberedCut
<1> QED  BY <1>1, <1>3 DEF NumbersInv

LEMMA InitNumbers == Init => NumbersInv
<1> SUFFICES ASSUME Init PROVE NumbersInv
  OBVIOUS
<1>1. db.up = "down" /\ bg.pc = "off" /\ DOMAIN disk.manifests = {}
  BY DEF Init, Closed, BgOff
<1> QED  BY <1>1 DEF NumbersInv

LEMMA NumbersStep == BaseInv /\ BaseInv' /\ NumbersInv /\ [Next]_vars => NumbersInv'
<1> SUFFICES ASSUME BaseInv, BaseInv', NumbersInv, [Next]_vars  PROVE NumbersInv'
  OBVIOUS
<1>1. ASSUME UNCHANGED <<disk, db, bg>>  PROVE NumbersInv'
  BY <1>1 DEF NumbersInv, VersionNumbered, LogsNumbered, FilesNumbered, EditNumbered,
              ManifestNumbered, AddsBelow
<1>2. CASE UNCHANGED vars
  BY <1>1, <1>2 DEF vars
<1>3. CASE \E w \in Writer : \E sync, batch \in BOOLEAN : Call(w, sync, batch)
  BY <1>1, <1>3 DEF Call
<1>4. CASE PinVersion \/ UnpinVersion
  BY <1>1, <1>4 DEF PinVersion, UnpinVersion
<1>5. CASE \E w \in Writer : Thread(w)
  BY <1>5, NumbersOfThread
<1>6. CASE Background
  BY <1>6, NumbersOfBackground
<1>7. CASE Open
  BY <1>7, NumbersOfOpen
<1>8. CASE ProcessCrash \/ MachineCrash
  BY <1>8, NumbersOfCrash
<1> QED  BY <1>2, <1>3, <1>4, <1>5, <1>6, <1>7, <1>8 DEF Next

\* The types hold, the queue has every writer that is in Write, once, and only its
\* front writes; the background thread runs only in an open database; the numbers of
\* its files are below the next one that DBImpl and VersionSet will take.
THEOREM LevelDBTyped == Spec => []LevelDBTypeOK
<1>1. Init => BaseInv /\ NumbersInv
  BY InitBase, InitNumbers
<1>2. BaseInv /\ NumbersInv /\ [Next]_vars => (BaseInv /\ NumbersInv)'
  BY BaseStep, NumbersStep
<1>3. BaseInv /\ NumbersInv => LevelDBTypeOK
  <2> SUFFICES ASSUME BaseInv, NumbersInv  PROVE LevelDBTypeOK
    OBVIOUS
  <2>1. db.up \in {"down", "logs", "current", "open", "corrupt"} /\ bg.pc \in BgPcs /\ Len(db.imm) <= 1
    <3>1. db.imm \in {<<>>} \cup {<<m>> : m \in SUBSET Entry}
      BY FieldsOf DEF ImmOf
    <3>2. Len(db.imm) <= 1
      <4>1. CASE db.imm = <<>>
        BY <4>1
      <4>2. CASE db.imm # <<>>
        <5>1. PICK m \in SUBSET Entry : db.imm = <<m>>
          BY <3>1, <4>2
        <5>2. Len(<<m>>) = 1
          OBVIOUS
        <5> QED  BY <5>1, <5>2
      <4> QED  BY <4>1, <4>2
    <3> QED  BY <3>2, FieldsOf DEF DbOf
  <2>2. bg.pc # "off" => db.up = "open"
    BY FieldsOf DEF QuietInv, BgOff
  <2>3. IsInjective(queue)
    BY DEF BaseInv, QueueInv, Queued
  <2>4. ASSUME NEW w \in Writer
        PROVE  /\ call[w].pc \in Pcs
               /\ call[w].pc \in FrontPcs => queue # <<>> /\ w = Head(queue)
               /\ call[w].pc = "asleep" => w \in Range(queue)
    <3>1. WriterOK(queue, w, call[w]) /\ (call[w] = Idle \/ call[w] \in CallOf)
      BY DEF BaseInv, QueueInv, Queued
    <3>2. call[w].pc \in Pcs
      BY <3>1 DEF CallOf, Idle, Pcs
    <3> QED  BY <3>1, <3>2 DEF WriterOK, InQueue
  <2>5. db.up = "open" => /\ db.logNumber <= db.logfile /\ db.logfile < db.nextFile
                          /\ \A n \in DOMAIN disk.tables : n < db.nextFile
    BY DEF NumbersInv, VersionNumbered, LogsNumbered, FilesNumbered
  <2> QED  BY <2>1, <2>2, <2>3, <2>4, <2>5 DEF LevelDBTypeOK, FrontPcs
<1> QED  BY <1>1, <1>2, <1>3, PTL DEF Spec

-----------------------------------------------------------------------------
(* No table is deleted while a version, an iterator, a compaction or the   *)
(* edit that adds it needs it: the numbers of the tables being written are *)
(* protected until then.                                                   *)

WorkInv ==
    /\ bg.pc \in {"off", "due"} => bg.inputs = {} /\ bg.out = {} /\ ~bg.written /\ ~bg.inWork
    /\ bg.pc = "work" => ~bg.inWork
    /\ bg.written => bg.out # {} /\ bg.out \subseteq DOMAIN disk.tables
    /\ ~bg.written => bg.out \cap DOMAIN disk.tables = {}
    /\ bg.pc = "work" \/ bg.inWork => bg.out \subseteq db.pending
    /\ bg.pc = "build" => bg.num \notin bg.out /\ bg.num \notin DOMAIN disk.tables
    /\ bg.pc \in {"manifest", "install"} /\ bg.inWork => bg.edit[1].del = {}

FilesExist ==
    /\ db.up \in {"logs", "current", "open"} =>
          /\ Numbers(db.version) \subseteq DOMAIN disk.tables
          /\ Numbers(UNION pinned) \subseteq DOMAIN disk.tables
          /\ Numbers(bg.inputs) \subseteq DOMAIN disk.tables
    /\ bg.pc \in {"manifest", "install"} => Numbers(bg.edit[1].add) \subseteq DOMAIN disk.tables

FilesInv == WorkInv /\ FilesExist

LEMMA BgFields ==
    ASSUME NEW pc, NEW num, NEW edit, NEW inputs, NEW out, NEW written, NEW inWork,
           BgIs(pc, num, edit, inputs, out, written, inWork)
    PROVE  /\ bg'.pc = pc /\ bg'.num = num /\ bg'.edit = edit /\ bg'.inputs = inputs /\ bg'.out = out
           /\ (bg'.written <=> written) /\ (bg'.inWork <=> inWork)
  BY DEF BgIs

LEMMA EndedFields ==
    ASSUME HasEnded
    PROVE  /\ bg'.pc \in {"off", "due"} /\ bg'.num = 0 /\ bg'.edit = <<>> /\ bg'.inputs = {} /\ bg'.out = {}
           /\ ~bg'.written /\ ~bg'.inWork
  BY DEF HasEnded, BgIs

LEMMA BackFields ==
    ASSUME BackToWork
    PROVE  /\ bg.inWork /\ bg'.pc = "work" /\ bg'.num = 0 /\ bg'.edit = <<>> /\ bg'.inputs = bg.inputs
           /\ bg'.out = bg.out /\ (bg'.written <=> bg.written) /\ ~bg'.inWork
  BY DEF BackToWork, BgIs

\* The background thread has ended or goes on with its compaction.
LEMMA WorkOver ==
    ASSUME WorkInv, FlushIsOver \/ HasEnded, DOMAIN disk'.tables \subseteq DOMAIN disk.tables,
           bg.inWork /\ ~HasEnded => /\ bg.out \subseteq db'.pending
                                     /\ bg.out \cap DOMAIN disk.tables \subseteq DOMAIN disk'.tables
    PROVE  WorkInv'
<1>1. CASE HasEnded
  BY <1>1, EndedFields DEF WorkInv
<1>2. CASE ~HasEnded
  <2>1. BackToWork
    BY <1>2 DEF FlushIsOver
  <2>2. /\ bg.inWork /\ bg'.pc = "work" /\ bg'.out = bg.out /\ (bg'.written <=> bg.written) /\ ~bg'.inWork
    BY <2>1, BackFields
  <2>3. bg.out \subseteq db'.pending /\ bg.out \cap DOMAIN disk.tables \subseteq DOMAIN disk'.tables
    BY <1>2, <2>2
  <2> QED  BY <2>2, <2>3 DEF WorkInv
<1> QED  BY <1>1, <1>2

LEMMA FilesOver ==
    ASSUME BaseInv, FilesInv, db.up = "open", FlushIsOver \/ HasEnded, pinned' = pinned,
           Numbers(db'.version) \subseteq DOMAIN disk'.tables,
           Numbers(UNION pinned) \subseteq DOMAIN disk'.tables,
           bg.inWork /\ ~HasEnded => Numbers(bg.inputs) \subseteq DOMAIN disk'.tables
    PROVE  FilesExist'
<1>1. CASE HasEnded
  <2>1. bg'.pc \notin {"manifest", "install"} /\ bg'.inputs = {} /\ Numbers({}) = {}
    BY <1>1, EndedFields DEF Numbers
  <2> QED  BY <2>1 DEF FilesExist
<1>2. CASE ~HasEnded
  <2>1. BackToWork
    BY <1>2 DEF FlushIsOver
  <2>2. bg.inWork /\ bg'.pc = "work" /\ bg'.inputs = bg.inputs
    BY <2>1, BackFields
  <2> QED  BY <1>2, <2>2 DEF FilesExist
<1> QED  BY <1>1, <1>2

LEMMA FilesOfBackground ==
    ASSUME BaseInv, NumbersInv, FilesInv, Background
    PROVE  FilesInv'
<1>0. /\ db.up = "open" /\ db'.up = "open" /\ pinned' = pinned /\ DiskTyped
      /\ db.nextFile \in Nat /\ db.version \in SUBSET Table /\ bg.out \in SUBSET Nat /\ bg.num \in Nat
  BY BackgroundOpen
<1>1. WorkInv /\ FilesExist /\ FilesNumbered
  BY <1>0 DEF FilesInv, NumbersInv
<1>2. /\ Numbers(db.version) \subseteq DOMAIN disk.tables
      /\ Numbers(UNION pinned) \subseteq DOMAIN disk.tables
      /\ Numbers(bg.inputs) \subseteq DOMAIN disk.tables
  BY <1>0, <1>1 DEF FilesExist
<1>3. db.nextFile \notin DOMAIN disk.tables /\ db.nextFile \notin bg.out
  <2>1. ~(db.nextFile < db.nextFile)
    BY <1>0
  <2> QED  BY <1>1, <2>1 DEF FilesNumbered
<1>4. ASSUME disk'.tables = disk.tables, db'.version = db.version, FlushIsOver \/ HasEnded,
             bg.inWork /\ ~HasEnded => bg.out \subseteq db'.pending
      PROVE  FilesInv'
  BY <1>0, <1>1, <1>2, <1>4, WorkOver, FilesOver DEF FilesInv
<1>5. CASE NothingToDo
  BY <1>4, <1>5, NothingToDoEffect
<1>6. CASE BuildTableFails
  <2>1. /\ bg.pc = "build" /\ disk' = disk /\ FlushIsOver
        /\ db'.version = db.version /\ db'.pending = db.pending \ {bg.num}
    BY <1>6, BuildTableFailsEffect DEF DbIs
  <2>2. bg.inWork => bg.out \subseteq db'.pending
    BY <1>1, <2>1 DEF WorkInv
  <2> QED  BY <1>4, <2>1, <2>2
<1>7. CASE WorkFails
  <2>1. disk' = disk /\ HasEnded /\ db'.version = db.version
    BY <1>7, WorkFailsEffect DEF DbIs
  <2> QED  BY <1>4, <2>1
<1>8. CASE StartFlush
  <2>1. /\ bg.pc \in {"work", "due"} /\ disk' = disk
        /\ db'.version = db.version /\ db'.pending = db.pending \cup {db.nextFile}
        /\ BgIs("build", db.nextFile, bg.edit, bg.inputs, bg.out, bg.written, bg.pc = "work")
    BY <1>8, StartFlushEffect DEF DbIs
  <2>2. /\ bg'.pc = "build" /\ bg'.num = db.nextFile /\ bg'.inputs = bg.inputs /\ bg'.out = bg.out
        /\ (bg'.written <=> bg.written) /\ (bg'.inWork <=> bg.pc = "work")
    BY <2>1 DEF BgIs
  <2>3. WorkInv'
    BY <1>1, <1>3, <2>1, <2>2 DEF WorkInv
  <2> QED  BY <1>0, <1>2, <2>1, <2>2, <2>3 DEF FilesInv, FilesExist
<1>9. CASE BuildTable
  <2> DEFINE ents == db.imm[1]
             add  == IF ents = {} THEN {} ELSE {<<bg.num, 0>>}
             e    == Edit(db.logfile, db.nextFile, db.lastSeq, add, {})
  <2>1. /\ bg.pc = "build"
        /\ disk' = IF ents = {} THEN disk ELSE [disk EXCEPT !.tables = With(@, bg.num, ents)]
        /\ db'.version = db.version /\ db'.pending = db.pending \ {bg.num}
        /\ BgIs("manifest", bg.num, <<e>>, bg.inputs, bg.out, bg.written, bg.inWork)
    BY <1>9, BuildTableEffect DEF DbIs
  <2>2. e.add = add /\ e.del = {} /\ <<e>>[1] = e
    BY NumbersOfEdit
  <2>3. DOMAIN disk'.tables = DOMAIN disk.tables \cup Numbers(add)
    <3>1. CASE ents = {}
      BY <2>1, <3>1 DEF Numbers
    <3>2. CASE ents # {}
      <4>1. Numbers(add) = {bg.num}
        BY <3>2, NumbersOfOne
      <4> HIDE DEF add, ents
      <4>2. disk' = [disk EXCEPT !.tables = With(@, bg.num, ents)]
        BY <2>1, <3>2
      <4>3. DOMAIN disk'.tables = DOMAIN disk.tables \cup {bg.num}
        BY <1>0, <4>2 DEF DiskTyped, With
      <4> QED  BY <4>1, <4>3
    <3> QED  BY <3>1, <3>2
  <2>4. Numbers(add) \subseteq {bg.num}
    BY DEF Numbers
  <2> HIDE DEF e, add, ents
  <2>5. /\ bg'.pc = "manifest" /\ bg'.edit = <<e>> /\ bg'.inputs = bg.inputs /\ bg'.out = bg.out
        /\ (bg'.written <=> bg.written) /\ (bg'.inWork <=> bg.inWork)
    BY <2>1 DEF BgIs
  <2>6. WorkInv'
    BY <1>1, <2>1, <2>2, <2>3, <2>4, <2>5 DEF WorkInv
  <2>7. FilesExist'
    BY <1>0, <1>2, <2>1, <2>2, <2>3, <2>5 DEF FilesExist
  <2> QED  BY <2>6, <2>7 DEF FilesInv
<1>10. CASE StartMove
  <2> DEFINE add == {<<n, 1>> : n \in Numbers(db.version)}
             e   == Edit(db.logNumber, db.nextFile, db.lastSeq, add, db.version)
  <2>1. /\ bg.pc = "due" /\ disk' = disk /\ db' = db
        /\ BgIs("manifest", bg.num, <<e>>, db.version, bg.out, bg.written, bg.inWork)
    BY <1>10, StartMoveEffect
  <2>2. Numbers(add) = Numbers(db.version)
    BY NumbersOfMoved
  <2> HIDE DEF add
  <2>3. e.add = add /\ <<e>>[1] = e
    BY NumbersOfEdit
  <2> HIDE DEF e
  <2>4. /\ bg'.pc = "manifest" /\ bg'.edit = <<e>> /\ bg'.inputs = db.version /\ bg'.out = bg.out
        /\ (bg'.written <=> bg.written) /\ (bg'.inWork <=> bg.inWork)
    BY <2>1 DEF BgIs
  <2>5. WorkInv'
    BY <1>1, <2>1, <2>4 DEF WorkInv
  <2>6. FilesExist'
    BY <1>0, <1>2, <2>1, <2>2, <2>3, <2>4 DEF FilesExist
  <2> QED  BY <2>5, <2>6 DEF FilesInv
<1>11. CASE StartCompaction
  <2>1. /\ bg.pc = "due" /\ disk' = disk /\ db' = db
        /\ BgIs("work", bg.num, bg.edit, db.version, bg.out, bg.written, bg.inWork)
    BY <1>11, StartCompactionEffect
  <2>2. /\ bg'.pc = "work" /\ bg'.inputs = db.version /\ bg'.out = bg.out
        /\ (bg'.written <=> bg.written) /\ (bg'.inWork <=> bg.inWork)
    BY <2>1 DEF BgIs
  <2>3. WorkInv'
    BY <1>1, <2>1, <2>2 DEF WorkInv
  <2> QED  BY <1>0, <1>2, <2>1, <2>2, <2>3 DEF FilesInv, FilesExist
<1>12. CASE OpenOutput
  <2>1. /\ bg.pc = "work" /\ bg.out = {} /\ disk' = disk
        /\ db'.version = db.version /\ db'.pending = db.pending \cup {db.nextFile}
        /\ BgIs("work", bg.num, bg.edit, bg.inputs, {db.nextFile}, bg.written, bg.inWork)
    BY <1>12, OpenOutputEffect DEF DbIs
  <2>2. /\ bg'.pc = "work" /\ bg'.inputs = bg.inputs /\ bg'.out = {db.nextFile}
        /\ (bg'.written <=> bg.written) /\ (bg'.inWork <=> bg.inWork)
    BY <2>1 DEF BgIs
  <2>3. WorkInv'
    BY <1>1, <1>3, <2>1, <2>2 DEF WorkInv
  <2> QED  BY <1>0, <1>2, <2>1, <2>2, <2>3 DEF FilesInv, FilesExist
<1>13. CASE WriteOutput
  <2>1. PICK k \in Nat :
           /\ bg.pc = "work" /\ bg.out = {k} /\ ~bg.written /\ db' = db
           /\ disk' = [disk EXCEPT !.tables = With(@, k, UNION {disk.tables[n] : n \in Numbers(bg.inputs)})]
           /\ BgIs("work", bg.num, bg.edit, bg.inputs, bg.out, TRUE, bg.inWork)
    BY <1>13, WriteOutputEffect
  <2>2. /\ bg'.pc = "work" /\ bg'.inputs = bg.inputs /\ bg'.out = bg.out
        /\ bg'.written /\ (bg'.inWork <=> bg.inWork)
    BY <2>1 DEF BgIs
  <2>3. DOMAIN disk'.tables = DOMAIN disk.tables \cup {k}
    <3> DEFINE ents == UNION {disk.tables[n] : n \in Numbers(bg.inputs)}
    <3>1. disk' = [disk EXCEPT !.tables = With(@, k, ents)]
      BY <2>1
    <3> HIDE DEF ents
    <3> QED  BY <1>0, <3>1 DEF DiskTyped, With
  <2>4. WorkInv'
    BY <1>1, <2>1, <2>2, <2>3 DEF WorkInv
  <2> QED  BY <1>0, <1>2, <2>1, <2>2, <2>3, <2>4 DEF FilesInv, FilesExist
<1>14. CASE EndWork
  <2> DEFINE add == {<<n, 1>> : n \in bg.out}
             e   == Edit(db.logNumber, db.nextFile, db.lastSeq, add, bg.inputs)
  <2>1. /\ bg.pc = "work" /\ bg.written /\ disk' = disk /\ db' = db
        /\ BgIs("manifest", bg.num, <<e>>, bg.inputs, bg.out, bg.written, bg.inWork)
    BY <1>14, EndWorkEffect
  <2>2. Numbers(add) = bg.out
    BY NumbersOfMoved
  <2> HIDE DEF add
  <2>3. e.add = add /\ <<e>>[1] = e
    BY NumbersOfEdit
  <2> HIDE DEF e
  <2>4. /\ bg'.pc = "manifest" /\ bg'.edit = <<e>> /\ bg'.inputs = bg.inputs /\ bg'.out = bg.out
        /\ (bg'.written <=> bg.written) /\ (bg'.inWork <=> bg.inWork)
    BY <2>1 DEF BgIs
  <2>5. WorkInv'
    BY <1>1, <2>1, <2>4 DEF WorkInv
  <2>6. FilesExist'
    BY <1>0, <1>1, <1>2, <2>1, <2>2, <2>3, <2>4 DEF FilesExist, WorkInv
  <2> QED  BY <2>5, <2>6 DEF FilesInv
<1>15. CASE WriteManifest
  <2>1. /\ bg.pc = "manifest" /\ db' = db
        /\ disk' = [disk EXCEPT !.manifests[db.manifest] =
                       Synced(Appended(disk.manifests[db.manifest], bg.edit[1]))]
        /\ BgIs("install", bg.num, bg.edit, bg.inputs, bg.out, bg.written, bg.inWork)
    BY <1>15, WriteManifestEffect
  <2>2. disk'.tables = disk.tables
    BY <1>0, <2>1 DEF DiskTyped
  <2>3. /\ bg'.pc = "install" /\ bg'.edit = bg.edit /\ bg'.inputs = bg.inputs /\ bg'.out = bg.out
        /\ (bg'.written <=> bg.written) /\ (bg'.inWork <=> bg.inWork)
    BY <2>1 DEF BgIs
  <2>4. WorkInv'
    BY <1>1, <2>1, <2>2, <2>3 DEF WorkInv
  <2>5. FilesExist'
    BY <1>0, <1>1, <1>2, <2>1, <2>2, <2>3 DEF FilesExist
  <2> QED  BY <2>4, <2>5 DEF FilesInv
<1>16. CASE WriteManifestFails
  <2>1. /\ bg.pc = "manifest"
        /\ \/ disk' = disk
           \/ \E r \in {Torn, bg.edit[1]} :
                 disk' = [disk EXCEPT !.manifests[db.manifest] = Appended(disk.manifests[db.manifest], r)]
        /\ db'.version = db.version /\ db'.pending = IF IsFlush THEN db.pending ELSE db.pending \ bg.out
        /\ IF IsFlush THEN FlushIsOver ELSE HasEnded
    BY <1>16, WriteManifestFailsEffect DEF DbIs
  <2>2. disk'.tables = disk.tables
    BY <1>0, <2>1 DEF DiskTyped
  <2>3. bg.inWork /\ ~HasEnded => bg.out \subseteq db'.pending
    BY <1>1, <2>1 DEF WorkInv
  <2> QED  BY <1>4, <2>1, <2>2, <2>3
<1>17. CASE InstallVersion
  <2> DEFINE held == IF IsFlush THEN bg.inputs ELSE {}
  <2>1. /\ bg.pc = "install"
        /\ db'.version = Applied(db.version, bg.edit[1])
        /\ db'.pending = IF IsFlush THEN db.pending ELSE db.pending \ bg.out
        /\ IF IsFlush THEN FlushIsOver ELSE HasEnded
        /\ disk' = disk \/ FilesLeft(held)
    BY <1>17, InstallVersionEffect DEF DbIs
  <2>2. Numbers(db'.version) \subseteq DOMAIN disk.tables
    <3>1. Numbers(db'.version) \subseteq Numbers(db.version) \cup Numbers(bg.edit[1].add)
      BY <2>1 DEF Numbers, Applied
    <3> QED  BY <1>1, <1>2, <2>1, <3>1 DEF FilesExist
  <2>3. bg.inWork /\ ~HasEnded => IsFlush /\ bg.out \subseteq db'.pending
    BY <1>1, <2>1 DEF WorkInv
  <2>4. CASE disk' = disk
    <3>1. WorkInv'
      BY <1>1, <2>1, <2>3, <2>4, WorkOver
    <3> QED  BY <1>0, <1>2, <2>1, <2>2, <2>4, <3>1, FilesOver DEF FilesInv
  <2>5. CASE FilesLeft(held)
    <3>1. /\ DOMAIN disk'.tables \subseteq DOMAIN disk.tables
          /\ \A n \in DOMAIN disk.tables :
                n \in db'.pending \cup Numbers(db'.version) \cup Numbers(held) \cup Numbers(UNION pinned)
                    => n \in DOMAIN disk'.tables
      <4> HIDE DEF held
      <4> QED  BY <2>5 DEF FilesLeft, Live
    <3>2. WorkInv'
      BY <1>1, <2>1, <2>3, <3>1, WorkOver
    <3>3. /\ Numbers(db'.version) \subseteq DOMAIN disk'.tables
          /\ Numbers(UNION pinned) \subseteq DOMAIN disk'.tables
          /\ bg.inWork /\ ~HasEnded => Numbers(bg.inputs) \subseteq DOMAIN disk'.tables
      BY <1>2, <2>2, <2>3, <3>1
    <3> QED  BY <1>0, <2>1, <3>2, <3>3, FilesOver DEF FilesInv
  <2> QED  BY <2>1, <2>4, <2>5
<1> QED  BY <1>5, <1>6, <1>7, <1>8, <1>9, <1>10, <1>11, <1>12, <1>13, <1>14, <1>15, <1>16, <1>17 DEF Background

LEMMA FilesOfThread ==
    ASSUME FilesInv, NEW w \in Writer, ThreadFrame
    PROVE  FilesInv'
<1>1. /\ db.up = "open" /\ db'.up = "open" /\ disk'.tables = disk.tables /\ pinned' = pinned
      /\ db'.version = db.version /\ db'.pending = db.pending
      /\ bg'.num = bg.num /\ bg'.edit = bg.edit /\ bg'.inputs = bg.inputs /\ bg'.out = bg.out
      /\ (bg'.written <=> bg.written) /\ (bg'.inWork <=> bg.inWork)
      /\ bg'.pc = bg.pc \/ (bg.pc = "off" /\ bg'.pc = "due")
  BY DEF ThreadFrame, BgIs
<1>2. WorkInv'
  BY <1>1 DEF FilesInv, WorkInv
<1>3. FilesExist'
  BY <1>1 DEF FilesInv, FilesExist
<1> QED  BY <1>2, <1>3 DEF FilesInv

LEMMA FilesOfOpen ==
    ASSUME BaseInv, NumbersInv, FilesInv, Open
    PROVE  FilesInv'
<1>1. /\ QuietInv /\ DiskTyped /\ bg = BgOff /\ pinned = {} /\ pinned' = pinned
  <2>1. db.up # "open" /\ pinned' = pinned
    BY DEF Open, NewDB, Recover, RecoverLog, NewManifest, SetCurrent, OpenStep
  <2> QED  BY <2>1, FieldsOf DEF QuietInv
<1>2. Numbers({}) = {} /\ UNION pinned' = {}
  BY <1>1 DEF Numbers
<1>3. ASSUME bg' = bg \/ HasEnded
      PROVE  WorkInv' /\ Numbers(bg'.inputs) = {} /\ bg'.pc \notin {"manifest", "install"}
  <2>1. /\ bg'.pc \in {"off", "due"} /\ bg'.inputs = {} /\ bg'.out = {}
        /\ ~bg'.written /\ ~bg'.inWork
    BY <1>1, <1>3, EndedFields DEF BgOff
  <2> QED  BY <1>2, <2>1 DEF WorkInv
<1>4. ASSUME bg' = bg \/ HasEnded,
             db'.up \in {"logs", "current", "open"} => Numbers(db'.version) \subseteq DOMAIN disk'.tables
      PROVE  FilesInv'
  BY <1>2, <1>3, <1>4 DEF FilesInv, FilesExist
<1>5. CASE NewDB
  <2>1. bg' = bg /\ db'.up = "down"
    BY <1>5, NewDBEffect
  <2> QED  BY <1>4, <2>1
<1>6. CASE Recover
  <2>1. disk' = disk /\ bg' = bg
    BY <1>6, RecoverEffect
  <2>2. \/ db'.up = "corrupt"
        \/ /\ Numbers(VersionOf(disk.manifests[disk.current])) \subseteq DOMAIN disk.tables
           /\ db'.version = VersionOf(disk.manifests[disk.current])
    BY <1>6, RecoverEffect
  <2> QED  BY <1>4, <2>1, <2>2
<1>7. CASE RecoverLog
  <2>1. PICK n, ents, next, last, version : Recovered(n, ents, next, last, version)
    BY <1>7, LogRecovered
  <2>2. /\ db.up = "logs" /\ db'.version = version /\ bg' = bg
        /\ disk'.tables = IF ents = {} THEN disk.tables ELSE With(disk.tables, db.nextFile, ents)
    BY <1>7, <2>1, RecoverLogEffect
  <2>3. version = db.version \cup IF ents = {} THEN {} ELSE {<<db.nextFile, 0>>}
    BY <2>1 DEF Recovered
  <2>4. Numbers(db.version) \subseteq DOMAIN disk.tables
    BY <2>2 DEF FilesInv, FilesExist
  <2>5. CASE ents = {}
    BY <1>4, <2>2, <2>3, <2>4, <2>5
  <2>6. CASE ents # {}
    <3>1. DOMAIN disk'.tables = DOMAIN disk.tables \cup {db.nextFile}
      BY <2>2, <2>6 DEF With
    <3>2. Numbers(version) = Numbers(db.version) \cup Numbers({<<db.nextFile, 0>>})
      BY <2>3, <2>6 DEF Numbers
    <3>3. Numbers({<<db.nextFile, 0>>}) = {db.nextFile}
      BY NumbersOfOne
    <3> QED  BY <1>4, <2>2, <2>4, <3>1, <3>2, <3>3
  <2> QED  BY <2>5, <2>6
<1>8. CASE NewManifest
  <2>1. db.up = "logs" /\ db'.version = db.version /\ bg' = bg /\ disk'.tables = disk.tables
    BY <1>8, NewManifestEffect
  <2>2. Numbers(db.version) \subseteq DOMAIN disk.tables
    BY <2>1 DEF FilesInv, FilesExist
  <2> QED  BY <1>4, <2>1, <2>2
<1>9. CASE SetCurrent
  <2>1. /\ db.up = "current" /\ db'.version = db.version /\ HasEnded
        /\ DOMAIN disk'.tables = DOMAIN disk.tables \cap Numbers(db.version)
    BY <1>9, SetCurrentEffect
  <2>2. Numbers(db.version) \subseteq DOMAIN disk.tables
    BY <2>1 DEF FilesInv, FilesExist
  <2> QED  BY <1>4, <2>1, <2>2
<1> QED  BY <1>5, <1>6, <1>7, <1>8, <1>9 DEF Open

LEMMA InitFiles == Init => FilesInv
<1> SUFFICES ASSUME Init PROVE FilesInv
  OBVIOUS
<1>1. /\ db.up = "down" /\ bg.pc = "off" /\ bg.inputs = {} /\ bg.out = {} /\ ~bg.written /\ ~bg.inWork
  BY DEF Init, Closed, BgOff
<1> QED  BY <1>1 DEF FilesInv, WorkInv, FilesExist

LEMMA FilesStep == BaseInv /\ NumbersInv /\ FilesInv /\ [Next]_vars => FilesInv'
<1> SUFFICES ASSUME BaseInv, NumbersInv, FilesInv, [Next]_vars  PROVE FilesInv'
  OBVIOUS
<1>1. CASE UNCHANGED vars
  BY <1>1 DEF vars, FilesInv, WorkInv, FilesExist
<1>2. CASE \E w \in Writer : \E sync, batch \in BOOLEAN : Call(w, sync, batch)
  BY <1>2 DEF Call, FilesInv, WorkInv, FilesExist
<1>3. CASE PinVersion \/ UnpinVersion
  <2>1. UNCHANGED <<disk, db, bg>> /\ (pinned' = {} \/ (pinned' = {db.version} /\ db.up = "open"))
    BY <1>3 DEF PinVersion, UnpinVersion
  <2>2. Numbers({}) = {} /\ UNION {} = {} /\ UNION {db.version} = db.version
    BY DEF Numbers
  <2>3. db.up \in {"logs", "current", "open"} => Numbers(UNION pinned') \subseteq DOMAIN disk.tables
    BY <2>1, <2>2 DEF FilesInv, FilesExist
  <2>4. WorkInv'
    BY <2>1 DEF FilesInv, WorkInv
  <2>5. FilesExist'
    BY <2>1, <2>3 DEF FilesInv, FilesExist
  <2> QED  BY <2>4, <2>5 DEF FilesInv
<1>4. CASE \E w \in Writer : Thread(w)
  BY <1>4, ThreadEffect, FilesOfThread
<1>5. CASE Background
  BY <1>5, FilesOfBackground
<1>6. CASE Open
  BY <1>6, FilesOfOpen
<1>7. CASE ProcessCrash \/ MachineCrash
  <2>1. db'.up = "down" /\ bg' = BgOff
    BY <1>7, CrashEffect
  <2> QED  BY <2>1 DEF BgOff, FilesInv, WorkInv, FilesExist
<1> QED  BY <1>1, <1>2, <1>3, <1>4, <1>5, <1>6, <1>7 DEF Next

\* DeleteObsoleteFiles deletes no table that the current version has, or that of an
\* iterator, or that a compaction reads, and none that is about to be added.
THEOREM LevelDBNeededFilesExist == Spec => []NeededFilesExist
<1>1. Init => BaseInv /\ NumbersInv /\ FilesInv
  BY InitBase, InitNumbers, InitFiles
<1>2. BaseInv /\ NumbersInv /\ FilesInv /\ [Next]_vars => (BaseInv /\ NumbersInv /\ FilesInv)'
  BY BaseStep, NumbersStep, FilesStep
<1>3. FilesInv => NeededFilesExist
  BY DEF FilesInv, FilesExist, NeededFilesExist
<1> QED  BY <1>1, <1>2, <1>3, PTL DEF Spec

-----------------------------------------------------------------------------
(* What the machine may keep of a file, and what a manifest says then.     *)

Kept(f) == {Cut(f, k) : k \in f.synced .. Len(f.recs)}

Clean(m) == \A i \in DOMAIN m.recs : ~IsTorn(m.recs[i])

LEMMA KeptRecords ==
    ASSUME NEW R, NEW f \in FileOf(R), NEW c \in Kept(f)
    PROVE  /\ c \in FileOf(R) /\ c.synced \in f.synced .. Len(f.recs) /\ c = Cut(f, c.synced)
           /\ Len(c.recs) = c.synced /\ DOMAIN c.recs = 1 .. c.synced
           /\ \A i \in 1 .. c.synced : c.recs[i] = f.recs[i] /\ i \in 1 .. Len(f.recs)
           /\ c.synced = Len(f.recs) => c.recs = f.recs
<1>1. PICK k \in f.synced .. Len(f.recs) : c = Cut(f, k)
  BY DEF Kept
<1>2. c = [recs |-> SubSeq(f.recs, 1, k), synced |-> k]
  BY <1>1 DEF Cut
<1>3. c.synced = k /\ c.recs = SubSeq(f.recs, 1, k)
  BY <1>2
<1>4. /\ c \in FileOf(R) /\ Len(c.recs) = k
      /\ \A i \in 1 .. k : c.recs[i] = f.recs[i] /\ i \in 1 .. Len(f.recs)
  BY <1>2, CutTyped
<1>5. DOMAIN c.recs = 1 .. k
  BY <1>4 DEF FileOf
<1>6. k = Len(f.recs) => c.recs = f.recs
  <2>1. f.recs \in Seq(R)
    BY DEF FileOf
  <2> QED  BY <1>3, <2>1, SubSeqFull
<1> QED  BY <1>1, <1>3, <1>4, <1>5, <1>6

LEMMA KeptAll ==
    ASSUME NEW R, NEW f \in FileOf(R), f.synced <= Len(f.recs)
    PROVE  \E c \in Kept(f) : c.recs = f.recs /\ c.synced = Len(f.recs)
<1>1. f.synced \in Nat /\ Len(f.recs) \in Nat
  BY DEF FileOf
<1>2. PICK k : k = Len(f.recs)
  OBVIOUS
<1>3. k \in f.synced .. Len(f.recs)
  BY <1>1, <1>2
<1>4. Cut(f, k) \in Kept(f) /\ Cut(f, k).synced = k
  BY <1>3 DEF Kept, Cut
<1> QED  BY <1>2, <1>4, KeptRecords

\* A file that has one record more, synced or not.
LEMMA KeptAppended ==
    ASSUME NEW R, NEW f \in FileOf(R), NEW r \in R, NEW g \in FileOf(R),
           g.recs = Append(f.recs, r), g.synced \in {f.synced, Len(f.recs) + 1},
           NEW c \in Kept(g)
    PROVE  \/ c.recs = g.recs /\ c.synced = Len(f.recs) + 1
           \/ g.synced = f.synced /\ \E d \in Kept(f) : d.recs = c.recs /\ d.synced = c.synced
<1>1. /\ f.recs \in Seq(R) /\ f.synced \in Nat /\ Len(f.recs) \in Nat /\ c.recs \in Seq(R)
      /\ Len(g.recs) = Len(f.recs) + 1 /\ \A i \in 1 .. Len(f.recs) : g.recs[i] = f.recs[i]
  <2>1. f.recs \in Seq(R) /\ f.synced \in Nat /\ c \in FileOf(R)
    BY KeptRecords DEF FileOf
  <2> QED  BY <2>1, AppendProperties DEF FileOf
<1>2. /\ c.synced \in g.synced .. Len(g.recs) /\ Len(c.recs) = c.synced
      /\ \A i \in 1 .. c.synced : c.recs[i] = g.recs[i]
      /\ c.synced = Len(g.recs) => c.recs = g.recs
  BY KeptRecords
<1>3. CASE c.synced = Len(g.recs)
  BY <1>1, <1>2, <1>3
<1>4. CASE c.synced # Len(g.recs)
  <2>1. g.synced = f.synced /\ c.synced \in f.synced .. Len(f.recs)
    BY <1>1, <1>2, <1>4
  <2>2. PICK d : d = Cut(f, c.synced)
    OBVIOUS
  <2>3. d \in Kept(f) /\ d.synced = c.synced
    BY <2>1, <2>2 DEF Kept, Cut
  <2>4. /\ d \in FileOf(R) /\ Len(d.recs) = c.synced /\ \A i \in 1 .. c.synced : d.recs[i] = f.recs[i]
    BY <2>3, KeptRecords
  <2>5. \A i \in 1 .. c.synced : d.recs[i] = c.recs[i]
    BY <1>1, <1>2, <2>1, <2>4
  <2>6. d.recs \in Seq(R)
    BY <2>4 DEF FileOf
  <2>7. d.recs = c.recs
    BY <1>1, <1>2, <2>4, <2>5, <2>6, SeqEqual
  <2> QED  BY <2>1, <2>3, <2>7
<1> QED  BY <1>3, <1>4

\* Cut once, a file stays as it is.
LEMMA KeptTwice ==
    ASSUME NEW R, NEW f \in FileOf(R), NEW d \in Kept(f), NEW c \in Kept(d)
    PROVE  c.recs = d.recs /\ c.synced = d.synced
<1>1. d \in FileOf(R) /\ Len(d.recs) = d.synced /\ d.synced \in Nat
  <2>1. d \in FileOf(R) /\ Len(d.recs) = d.synced
    BY KeptRecords
  <2> QED  BY <2>1 DEF FileOf
<1>2. c.synced \in d.synced .. Len(d.recs) /\ (c.synced = Len(d.recs) => c.recs = d.recs)
  BY <1>1, KeptRecords
<1> QED  BY <1>1, <1>2

LEMMA CleanWhole ==
    ASSUME NEW m, Clean(m), NEW n \in Nat, DOMAIN m.recs = 1 .. n
    PROVE  /\ Whole(m) = 1 .. n
           /\ n > 0 => Readable(m) /\ LastEdit(m) = m.recs[n]
<1>1. Whole(m) = 1 .. n
  BY DEF Whole, Clean
<1>2. ASSUME n > 0  PROVE Readable(m) /\ LastEdit(m) = m.recs[n]
  <2>1. n \in 1 .. n /\ \A x \in 1 .. n : x \in Nat /\ x <= n
    BY <1>2
  <2>2. Max(1 .. n) \in 1 .. n /\ n <= Max(1 .. n)
    <3>1. 1 .. n \in SUBSET Nat /\ 1 .. n # {}
      BY <2>1
    <3> QED  BY <2>1, <3>1, GreatestExists
  <2>3. Max(1 .. n) = n
    BY <2>1, <2>2
  <2>4. m.recs # <<>>
    BY <2>1
  <2> QED  BY <1>1, <2>3, <2>4 DEF LastEdit, Readable, Clean
<1> QED  BY <1>1, <1>2

\* One more edit is applied to the version that the others make.
LEMMA VersionAppended ==
    ASSUME NEW m \in ManifestOf, Clean(m), NEW e \in EditOf, NEW g, g.recs = Append(m.recs, e)
    PROVE  Clean(g) /\ VersionOf(g) = Applied(VersionOf(m), e) /\ LastEdit(g) = e /\ Readable(g)
<1> DEFINE n == Len(m.recs)
<1>1. /\ n \in Nat /\ DOMAIN m.recs = 1 .. n /\ DOMAIN g.recs = 1 .. n + 1
      /\ \A i \in 1 .. n : g.recs[i] = m.recs[i]
      /\ g.recs[n + 1] = e
  <2>1. m.recs \in Seq(EditOf \cup {Torn})
    BY DEF ManifestOf
  <2> QED  BY <2>1, AppendProperties
<1> HIDE DEF n
<1>2. \A i \in 1 .. n + 1 : i \in 1 .. n \/ i = n + 1
  BY <1>1
<1>3. ~IsTorn(e)
  BY TornRecords
<1>4. Clean(g)
  BY <1>1, <1>2, <1>3 DEF Clean
<1>5. Whole(m) = 1 .. n /\ Whole(g) = 1 .. n + 1 /\ LastEdit(g) = e /\ Readable(g)
  <2>1. Whole(m) = 1 .. n
    BY <1>1 DEF Whole, Clean
  <2>2. n + 1 \in Nat /\ n + 1 > 0
    BY <1>1
  <2> QED  BY <1>1, <1>4, <2>1, <2>2, CleanWhole
<1>6. DeletedSince(g, n + 1) = {}
  <2>1. \A j \in 1 .. n + 1 : ~(j > n + 1)
    BY <1>1
  <2> QED  BY <1>5, <2>1 DEF DeletedSince
<1>7. ASSUME NEW i \in 1 .. n  PROVE DeletedSince(g, i) = DeletedSince(m, i) \cup e.del
  <2>1. n + 1 > i /\ n + 1 \in 1 .. n + 1 /\ 1 .. n \subseteq 1 .. n + 1
    BY <1>1
  <2>2. ASSUME NEW x \in DeletedSince(g, i)  PROVE x \in DeletedSince(m, i) \cup e.del
    <3>1. PICK j \in 1 .. n + 1 : j > i /\ x \in g.recs[j].del
      BY <1>5 DEF DeletedSince
    <3> QED  BY <1>1, <1>2, <1>5, <3>1 DEF DeletedSince
  <2>3. ASSUME NEW x \in DeletedSince(m, i)  PROVE x \in DeletedSince(g, i)
    <3>1. PICK j \in 1 .. n : j > i /\ x \in m.recs[j].del
      BY <1>5 DEF DeletedSince
    <3>2. j \in 1 .. n + 1 /\ x \in g.recs[j].del
      BY <1>1, <2>1, <3>1
    <3> QED  BY <1>5, <3>1, <3>2 DEF DeletedSince
  <2>4. ASSUME NEW x \in e.del  PROVE x \in DeletedSince(g, i)
    BY <1>1, <1>5, <2>1 DEF DeletedSince
  <2> QED  BY <2>2, <2>3, <2>4
<1>8. ASSUME NEW x \in VersionOf(g)  PROVE x \in Applied(VersionOf(m), e)
  <2>1. PICK i \in 1 .. n + 1 : x \in g.recs[i].add /\ x \notin DeletedSince(g, i)
    BY <1>5 DEF VersionOf
  <2>2. CASE i \in 1 .. n
    <3>1. x \in m.recs[i].add /\ x \notin DeletedSince(m, i) /\ x \notin e.del
      BY <1>1, <1>7, <2>1, <2>2
    <3>2. x \in VersionOf(m)
      BY <1>5, <2>2, <3>1 DEF VersionOf
    <3> QED  BY <3>1, <3>2 DEF Applied
  <2>3. CASE i = n + 1
    BY <1>1, <2>1, <2>3 DEF Applied
  <2> QED  BY <1>2, <2>2, <2>3
<1>9. ASSUME NEW x \in Applied(VersionOf(m), e)  PROVE x \in VersionOf(g)
  <2>1. n + 1 \in 1 .. n + 1 /\ 1 .. n \subseteq 1 .. n + 1
    BY <1>1
  <2>2. CASE x \in e.add
    <3>1. x \in g.recs[n + 1].add \ DeletedSince(g, n + 1)
      BY <1>1, <1>6, <2>2
    <3> QED  BY <1>5, <2>1, <3>1 DEF VersionOf
  <2>3. CASE x \notin e.add
    <3>1. x \in VersionOf(m) /\ x \notin e.del
      BY <1>9, <2>3 DEF Applied
    <3>2. PICK i \in 1 .. n : x \in m.recs[i].add /\ x \notin DeletedSince(m, i)
      BY <1>5, <3>1 DEF VersionOf
    <3>3. x \in g.recs[i].add \ DeletedSince(g, i)
      BY <1>1, <1>7, <3>1, <3>2
    <3> QED  BY <1>5, <2>1, <3>3 DEF VersionOf
  <2> QED  BY <2>2, <2>3
<1> QED  BY <1>4, <1>5, <1>8, <1>9

LEMMA VersionFirst ==
    ASSUME NEW e \in EditOf, NEW f, f.recs = <<e>>
    PROVE  Clean(f) /\ VersionOf(f) = e.add /\ LastEdit(f) = e /\ Readable(f)
<1>1. DOMAIN f.recs = 1 .. 1 /\ f.recs[1] = e /\ 1 .. 1 = {1} /\ 1 \in Nat
  OBVIOUS
<1>2. Clean(f)
  BY <1>1, TornRecords DEF Clean
<1>3. Whole(f) = {1} /\ LastEdit(f) = e /\ Readable(f)
  <2>1. Whole(f) = 1 .. 1
    BY <1>1, <1>2 DEF Whole, Clean
  <2>2. 1 > 0
    OBVIOUS
  <2> QED  BY <1>1, <1>2, <2>1, <2>2, CleanWhole
<1>4. DeletedSince(f, 1) = {}
  <2>1. {j \in {1} : j > 1} = {}
    OBVIOUS
  <2> QED  BY <1>3, <2>1 DEF DeletedSince
<1>5. VersionOf(f) = e.add
  BY <1>1, <1>3, <1>4 DEF VersionOf
<1> QED  BY <1>2, <1>3, <1>5

LEMMA SameRecords ==
    ASSUME NEW c, NEW d, c.recs = d.recs
    PROVE  /\ Whole(c) = Whole(d) /\ VersionOf(c) = VersionOf(d) /\ LastEdit(c) = LastEdit(d)
           /\ (Readable(c) <=> Readable(d)) /\ (Clean(c) <=> Clean(d))
<1>1. Whole(c) = Whole(d)
  BY DEF Whole
<1>2. \A i : DeletedSince(c, i) = DeletedSince(d, i)
  BY <1>1 DEF DeletedSince
<1>3. VersionOf(c) = VersionOf(d)
  BY <1>1, <1>2 DEF VersionOf
<1> QED  BY <1>1, <1>3 DEF LastEdit, Readable, Clean

-----------------------------------------------------------------------------
(* The manifest that CURRENT names can be read after every crash, and      *)
(* names tables that exist, unless it is torn: while the database is open  *)
(* without an error it says what the version is or is about to be.         *)

Opens(m, tables) ==
    /\ 1 <= m.synced /\ m.synced <= Len(m.recs)
    /\ \A c \in Kept(m) : Clean(c) => Numbers(VersionOf(c)) \subseteq tables

Expected == IF bg.pc = "install" THEN Applied(db.version, bg.edit[1]) ELSE db.version

CurrentOpens ==
    disk.current \notin {0, 1} => /\ disk.current \in DOMAIN disk.manifests
                                  /\ Opens(disk.manifests[disk.current], DOMAIN disk.tables)

ManifestUpToDate ==
    /\ Clean(disk.manifests[db.manifest])
    /\ disk.manifests[db.manifest].synced = Len(disk.manifests[db.manifest].recs)
    /\ VersionOf(disk.manifests[db.manifest]) = Expected

CurrentInv ==
    /\ CurrentOpens
    /\ db.up = "open" => disk.current = db.manifest
    /\ db.up = "current" \/ (db.up = "open" /\ ~db.error) => ManifestUpToDate
    /\ db.up = "current" => disk.manifests[db.manifest].synced = 1
    /\ db.up = "corrupt" =>
           disk.current = 1 \/ \E r \in Range(disk.manifests[disk.current].recs) : IsTorn(r)

LEMMA OpensMore ==
    ASSUME NEW m, NEW T, Opens(m, T), NEW U, T \subseteq U
    PROVE  Opens(m, U)
  BY DEF Opens

LEMMA OpensFirst ==
    ASSUME NEW f \in ManifestOf, NEW e \in EditOf, f.recs = <<e>>, f.synced = 1,
           NEW T, Numbers(e.add) \subseteq T
    PROVE  Opens(f, T)
<1>1. Len(f.recs) = 1
  OBVIOUS
<1>2. ASSUME NEW c \in Kept(f)  PROVE VersionOf(c) = e.add
  <2> DEFINE R == EditOf \cup {Torn}
  <2>1. f \in FileOf(R)
    BY DEF ManifestOf, FileOf
  <2> HIDE DEF R
  <2>2. c.synced \in f.synced .. Len(f.recs)
    BY <2>1, KeptRecords
  <2>3. c.synced = Len(f.recs) => c.recs = f.recs
    BY <2>1, KeptRecords
  <2>4. c.recs = f.recs
    BY <1>1, <2>2, <2>3
  <2> QED  BY <2>4, SameRecords, VersionFirst
<1> QED  BY <1>1, <1>2 DEF Opens

LEMMA OpensAppended ==
    ASSUME NEW m \in ManifestOf, NEW T, Opens(m, T), NEW r \in EditOf \cup {Torn},
           ~IsTorn(r) => Numbers(r.add) \subseteq T,
           NEW g \in ManifestOf, g.recs = Append(m.recs, r), g.synced \in {m.synced, Len(m.recs) + 1}
    PROVE  Opens(g, T)
<1> DEFINE R == EditOf \cup {Torn}
<1>1. m \in FileOf(R) /\ g \in FileOf(R) /\ r \in R
  BY DEF ManifestOf, FileOf
<1>2. m.synced \in Nat /\ Len(m.recs) \in Nat /\ 1 <= m.synced /\ m.synced <= Len(m.recs)
  BY <1>1 DEF Opens, FileOf
<1>3. Len(g.recs) = Len(m.recs) + 1 /\ \A i \in 1 .. Len(m.recs) : g.recs[i] = m.recs[i]
      /\ g.recs[Len(m.recs) + 1] = r
  BY <1>1, AppendProperties DEF FileOf
<1>4. 1 <= g.synced /\ g.synced <= Len(g.recs)
  BY <1>2, <1>3
<1>5. Clean(g) => r \in EditOf /\ Clean(m) /\ VersionOf(g) = Applied(VersionOf(m), r)
  <2> SUFFICES ASSUME Clean(g) PROVE r \in EditOf /\ Clean(m) /\ VersionOf(g) = Applied(VersionOf(m), r)
    OBVIOUS
  <2>1. DOMAIN g.recs = 1 .. Len(m.recs) + 1 /\ DOMAIN m.recs = 1 .. Len(m.recs)
    BY <1>1, <1>3 DEF FileOf
  <2>2. ~IsTorn(r) /\ Clean(m)
    <3>1. Len(m.recs) + 1 \in 1 .. Len(m.recs) + 1 /\ 1 .. Len(m.recs) \subseteq 1 .. Len(m.recs) + 1
      BY <1>2
    <3> QED  BY <1>3, <2>1, <3>1 DEF Clean
  <2>3. r \in EditOf
    BY <2>2, TornRecords
  <2> QED  BY <2>2, <2>3, VersionAppended
<1>6. Clean(m) => Numbers(VersionOf(m)) \subseteq T
  <2>1. PICK c \in Kept(m) : c.recs = m.recs
    BY <1>1, <1>2, KeptAll
  <2> QED  BY <2>1, SameRecords DEF Opens
<1>7. Clean(g) => Numbers(VersionOf(g)) \subseteq T
  <2> SUFFICES ASSUME Clean(g) PROVE Numbers(VersionOf(g)) \subseteq T
    OBVIOUS
  <2>1. Numbers(Applied(VersionOf(m), r)) \subseteq Numbers(VersionOf(m)) \cup Numbers(r.add)
    BY DEF Numbers, Applied
  <2>2. Numbers(r.add) \subseteq T
    BY <1>5, TornRecords
  <2> QED  BY <1>5, <1>6, <2>1, <2>2
<1> HIDE DEF R
<1>8. ASSUME NEW c \in Kept(g), Clean(c)  PROVE Numbers(VersionOf(c)) \subseteq T
  <2>1. CASE c.recs = g.recs
    BY <1>7, <1>8, <2>1, SameRecords
  <2>2. CASE \E d \in Kept(m) : d.recs = c.recs
    BY <1>8, <2>2, SameRecords DEF Opens
  <2> QED  BY <1>1, <2>1, <2>2, KeptAppended
<1> QED  BY <1>4, <1>8 DEF Opens

LEMMA OpensCut ==
    ASSUME NEW m \in ManifestOf, NEW T, Opens(m, T), NEW d \in Kept(m)
    PROVE  Opens(d, T)
<1>1. m \in FileOf(EditOf \cup {Torn})
  BY DEF ManifestOf, FileOf
<1>2. d.synced \in m.synced .. Len(m.recs) /\ Len(d.recs) = d.synced
  BY <1>1, KeptRecords
<1>3. 1 <= d.synced /\ d.synced <= Len(d.recs)
  BY <1>1, <1>2 DEF Opens, FileOf
<1>4. \A c \in Kept(d) : c.recs = d.recs
  BY <1>1, KeptTwice
<1> QED  BY <1>3, <1>4, SameRecords DEF Opens

LEMMA OpensInstalled ==
    ASSUME NEW m \in ManifestOf, NEW T, Opens(m, T), m.synced = Len(m.recs),
           NEW U, Numbers(VersionOf(m)) \subseteq U
    PROVE  Opens(m, U)
<1>1. m \in FileOf(EditOf \cup {Torn}) /\ m.synced \in Nat
  BY DEF ManifestOf, FileOf
<1>2. ASSUME NEW c \in Kept(m)  PROVE c.recs = m.recs
  <2>1. c.synced \in m.synced .. Len(m.recs) /\ (c.synced = Len(m.recs) => c.recs = m.recs)
    BY <1>1, KeptRecords
  <2> QED  BY <1>1, <2>1
<1> QED  BY <1>2, SameRecords DEF Opens

\* A manifest that is not torn opens.
LEMMA OpensReadable ==
    ASSUME NEW m \in ManifestOf, NEW T, Opens(m, T), Clean(m)
    PROVE  Readable(m) /\ Numbers(VersionOf(m)) \subseteq T
<1>1. m \in FileOf(EditOf \cup {Torn}) /\ m.synced \in Nat /\ Len(m.recs) \in Nat
      /\ DOMAIN m.recs = 1 .. Len(m.recs)
  BY DEF ManifestOf, FileOf
<1>2. Len(m.recs) > 0
  BY <1>1 DEF Opens
<1>3. Readable(m)
  BY <1>1, <1>2, CleanWhole
<1>4. PICK c \in Kept(m) : c.recs = m.recs
  BY <1>1, KeptAll DEF Opens
<1> QED  BY <1>3, <1>4, SameRecords DEF Opens

\* A step that leaves the manifest as it is, while the database is open.
LEMMA CurrentKept ==
    ASSUME CurrentInv, db.up = "open", db'.up = "open", db'.manifest = db.manifest,
           disk'.current = disk.current, disk'.manifests = disk.manifests,
           DOMAIN disk.tables \subseteq DOMAIN disk'.tables,
           db.error => db'.error, Expected' = Expected
    PROVE  CurrentInv'
<1>1. CurrentOpens'
  BY OpensMore DEF CurrentInv, CurrentOpens
<1>2. ~db'.error => ManifestUpToDate'
  BY DEF CurrentInv, ManifestUpToDate
<1> QED  BY <1>1, <1>2 DEF CurrentInv

LEMMA CurrentOfBackground ==
    ASSUME BaseInv, NumbersInv, FilesInv, CurrentInv, Background
    PROVE  CurrentInv'
<1>0. /\ db.up = "open" /\ db'.up = "open" /\ DiskTyped /\ db.manifest \in Nat
  BY BackgroundOpen
<1>1. LogsNumbered /\ VersionNumbered /\ FilesExist /\ disk.current = db.manifest
      /\ CurrentOpens /\ (~db.error => ManifestUpToDate)
  BY <1>0 DEF NumbersInv, FilesInv, CurrentInv
<1>2. disk.current \notin {0, 1} /\ disk.current \in DOMAIN disk.manifests
      /\ disk.manifests[db.manifest] \in ManifestOf
      /\ Opens(disk.manifests[db.manifest], DOMAIN disk.tables)
  BY <1>0, <1>1 DEF VersionNumbered, CurrentOpens, DiskTyped
<1>3. ASSUME disk' = disk \/ \E n, ents : disk' = [disk EXCEPT !.tables = With(@, n, ents)],
             db'.manifest = db.manifest, db'.version = db.version, db.error => db'.error,
             bg.pc # "install", bg'.pc # "install"
      PROVE  CurrentInv'
  <2>1. /\ disk'.current = disk.current /\ disk'.manifests = disk.manifests
        /\ DOMAIN disk.tables \subseteq DOMAIN disk'.tables
    <3>1. CASE disk' = disk
      BY <3>1
    <3>2. CASE \E n, ents : disk' = [disk EXCEPT !.tables = With(@, n, ents)]
      BY <1>0, <3>2 DEF DiskTyped, With
    <3> QED  BY <1>3, <3>1, <3>2
  <2>2. Expected' = Expected
    BY <1>3 DEF Expected
  <2> QED  BY <1>0, <1>3, <2>1, <2>2, CurrentKept
<1>4. (FlushIsOver \/ HasEnded) => bg'.pc \notin {"manifest", "install"}
  BY EndedFields, BackFields DEF FlushIsOver
<1>5. CASE NothingToDo
  <2>1. UNCHANGED <<disk, db>> /\ bg.pc = "due" /\ HasEnded
    BY <1>5, NothingToDoEffect
  <2> QED  BY <1>3, <1>4, <2>1
<1>6. CASE BuildTableFails
  <2>1. /\ bg.pc = "build" /\ disk' = disk /\ FlushIsOver
        /\ db'.version = db.version /\ db'.manifest = db.manifest /\ db'.error
    BY <1>6, BuildTableFailsEffect DEF DbIs
  <2> QED  BY <1>3, <1>4, <2>1
<1>7. CASE WorkFails
  <2>1. /\ bg.pc = "work" /\ disk' = disk /\ HasEnded
        /\ db'.version = db.version /\ db'.manifest = db.manifest /\ db'.error
    BY <1>7, WorkFailsEffect DEF DbIs
  <2> QED  BY <1>3, <1>4, <2>1
<1>8. CASE StartFlush
  <2>1. /\ bg.pc \in {"work", "due"} /\ disk' = disk
        /\ db'.version = db.version /\ db'.manifest = db.manifest /\ (db'.error <=> db.error)
        /\ bg'.pc = "build"
    BY <1>8, StartFlushEffect DEF DbIs, BgIs
  <2> QED  BY <1>3, <2>1
<1>9. CASE BuildTable
  <2> DEFINE ents == db.imm[1]
  <2>1. /\ bg.pc = "build"
        /\ disk' = IF ents = {} THEN disk ELSE [disk EXCEPT !.tables = With(@, bg.num, ents)]
        /\ db'.version = db.version /\ db'.manifest = db.manifest /\ (db'.error <=> db.error)
        /\ bg'.pc = "manifest"
    BY <1>9, BuildTableEffect DEF DbIs, BgIs
  <2>2. disk' = disk \/ \E n, x : disk' = [disk EXCEPT !.tables = With(@, n, x)]
    BY <2>1
  <2> QED  BY <1>3, <2>1, <2>2
<1>10. CASE StartMove
  <2>1. bg.pc = "due" /\ disk' = disk /\ db' = db /\ bg'.pc = "manifest"
    BY <1>10, StartMoveEffect DEF BgIs
  <2> QED  BY <1>3, <2>1
<1>11. CASE StartCompaction
  <2>1. bg.pc = "due" /\ disk' = disk /\ db' = db /\ bg'.pc = "work"
    BY <1>11, StartCompactionEffect DEF BgIs
  <2> QED  BY <1>3, <2>1
<1>12. CASE OpenOutput
  <2>1. /\ bg.pc = "work" /\ disk' = disk /\ bg'.pc = "work"
        /\ db'.version = db.version /\ db'.manifest = db.manifest /\ (db'.error <=> db.error)
    BY <1>12, OpenOutputEffect DEF DbIs, BgIs
  <2> QED  BY <1>3, <2>1
<1>13. CASE WriteOutput
  <2>1. PICK k \in Nat :
           /\ bg.pc = "work" /\ db' = db /\ bg'.pc = "work"
           /\ disk' = [disk EXCEPT !.tables = With(@, k, UNION {disk.tables[n] : n \in Numbers(bg.inputs)})]
    BY <1>13, WriteOutputEffect DEF BgIs
  <2>2. disk' = disk \/ \E n, x : disk' = [disk EXCEPT !.tables = With(@, n, x)]
    BY <2>1
  <2> QED  BY <1>3, <2>1, <2>2
<1>14. CASE EndWork
  <2>1. bg.pc = "work" /\ disk' = disk /\ db' = db /\ bg'.pc = "manifest"
    BY <1>14, EndWorkEffect DEF BgIs
  <2> QED  BY <1>3, <2>1
<1>15. ASSUME bg.pc = "manifest", NEW r \in EditOf \cup {Torn}, r \in {Torn, bg.edit[1]},
              NEW g \in ManifestOf, g.recs = Append(disk.manifests[db.manifest].recs, r),
              g.synced \in {disk.manifests[db.manifest].synced, Len(disk.manifests[db.manifest].recs) + 1},
              disk' = [disk EXCEPT !.manifests[db.manifest] = g],
              db'.manifest = db.manifest
       PROVE  /\ CurrentOpens' /\ disk'.current = db.manifest /\ disk'.manifests[db.manifest] = g
  <2>1. /\ disk'.current = disk.current /\ disk'.tables = disk.tables
        /\ DOMAIN disk'.manifests = DOMAIN disk.manifests /\ disk'.manifests[db.manifest] = g
    BY <1>0, <1>1, <1>2, <1>15 DEF DiskTyped
  <2>2. ~IsTorn(r) => Numbers(r.add) \subseteq DOMAIN disk.tables
    <3>1. ~IsTorn(r) => r = bg.edit[1]
      BY <1>15, TornRecords
    <3> QED  BY <1>1, <1>15, <3>1 DEF FilesExist
  <2>3. Opens(g, DOMAIN disk.tables)
    <3>1. PICK m, T : m = disk.manifests[db.manifest] /\ T = DOMAIN disk.tables
      OBVIOUS
    <3>2. m \in ManifestOf /\ Opens(m, T) /\ (~IsTorn(r) => Numbers(r.add) \subseteq T)
          /\ g.recs = Append(m.recs, r) /\ g.synced \in {m.synced, Len(m.recs) + 1}
      BY <1>2, <1>15, <2>2, <3>1
    <3> QED  BY <1>15, <3>1, <3>2, OpensAppended
  <2> QED  BY <1>1, <1>2, <2>1, <2>3 DEF CurrentOpens
<1>16. CASE WriteManifest
  <2> DEFINE g == Synced(Appended(disk.manifests[db.manifest], bg.edit[1]))
  <2>1. /\ bg.pc = "manifest" /\ bg.edit[1] \in EditOf /\ db' = db
        /\ disk' = [disk EXCEPT !.manifests[db.manifest] = g]
        /\ bg'.pc = "install" /\ bg'.edit = bg.edit
    BY <1>16, WriteManifestEffect DEF BgIs
  <2>2. /\ g \in ManifestOf /\ g.recs = Append(disk.manifests[db.manifest].recs, bg.edit[1])
        /\ g.synced = Len(disk.manifests[db.manifest].recs) + 1 /\ Len(g.recs) = g.synced
    <3>1. PICK m, e : m = disk.manifests[db.manifest] /\ e = bg.edit[1]
      OBVIOUS
    <3>2. m \in ManifestOf /\ e \in EditOf \cup {Torn} /\ g = Synced(Appended(m, e))
      BY <1>2, <2>1, <3>1
    <3> HIDE DEF g
    <3>3. /\ g \in ManifestOf /\ g.recs = Append(m.recs, e) /\ g.synced = Len(m.recs) + 1
          /\ Len(Append(m.recs, e)) = Len(m.recs) + 1
      BY <3>2, AppendedManifest
    <3> QED  BY <3>1, <3>3
  <2> HIDE DEF g
  <2>3. CurrentOpens' /\ disk'.current = db.manifest /\ disk'.manifests[db.manifest] = g
    <3>1. bg.edit[1] \in EditOf \cup {Torn} /\ bg.edit[1] \in {Torn, bg.edit[1]}
      BY <2>1
    <3> QED  BY <1>15, <2>1, <2>2, <3>1
  <2>4. ~db.error => ManifestUpToDate'
    <3> SUFFICES ASSUME ~db.error PROVE ManifestUpToDate'
      OBVIOUS
    <3>1. /\ Clean(disk.manifests[db.manifest]) /\ VersionOf(disk.manifests[db.manifest]) = db.version
      BY <1>1, <2>1 DEF ManifestUpToDate, Expected
    <3>2. Clean(g) /\ VersionOf(g) = Applied(db.version, bg.edit[1])
      <4>1. PICK m, e : m = disk.manifests[db.manifest] /\ e = bg.edit[1]
        OBVIOUS
      <4>2. m \in ManifestOf /\ Clean(m) /\ e \in EditOf /\ g.recs = Append(m.recs, e)
        BY <1>2, <2>1, <2>2, <3>1, <4>1
      <4>3. Clean(g) /\ VersionOf(g) = Applied(VersionOf(m), e)
        BY <4>2, VersionAppended
      <4> QED  BY <3>1, <4>1, <4>3
    <3> QED  BY <2>1, <2>2, <2>3, <3>2 DEF ManifestUpToDate, Expected
  <2> QED  BY <1>0, <2>1, <2>3, <2>4 DEF CurrentInv
<1>17. CASE WriteManifestFails
  <2>1. /\ bg.pc = "manifest" /\ bg.edit[1] \in EditOf
        /\ \/ disk' = disk
           \/ \E r \in {Torn, bg.edit[1]} :
                 disk' = [disk EXCEPT !.manifests[db.manifest] = Appended(disk.manifests[db.manifest], r)]
        /\ db'.version = db.version /\ db'.manifest = db.manifest /\ db'.error
        /\ FlushIsOver \/ HasEnded
    BY <1>17, WriteManifestFailsEffect DEF DbIs
  <2>2. CASE disk' = disk
    BY <1>3, <1>4, <2>1, <2>2
  <2>3. ASSUME NEW r \in {Torn, bg.edit[1]},
               disk' = [disk EXCEPT !.manifests[db.manifest] = Appended(disk.manifests[db.manifest], r)]
        PROVE  CurrentInv'
    <3> DEFINE g == Appended(disk.manifests[db.manifest], r)
    <3>1. r \in EditOf \cup {Torn}
      BY <2>1, <2>3
    <3>2. /\ g \in ManifestOf /\ g.recs = Append(disk.manifests[db.manifest].recs, r)
          /\ g.synced = disk.manifests[db.manifest].synced
      BY <1>2, <3>1, AppendedManifest
    <3>3. disk' = [disk EXCEPT !.manifests[db.manifest] = g]
      BY <2>3
    <3> HIDE DEF g
    <3>4. CurrentOpens' /\ disk'.current = db.manifest
      BY <1>15, <2>1, <3>1, <3>2, <3>3
    <3> QED  BY <1>0, <2>1, <3>4 DEF CurrentInv
  <2> QED  BY <2>1, <2>2, <2>3
<1>18. CASE InstallVersion
  <2> DEFINE held == IF IsFlush THEN bg.inputs ELSE {}
  <2>1. /\ bg.pc = "install"
        /\ db'.version = Applied(db.version, bg.edit[1]) /\ db'.manifest = db.manifest
        /\ (db'.error <=> db.error)
        /\ FlushIsOver \/ HasEnded
        /\ disk' = disk \/ (~db.error /\ FilesLeft(held))
        /\ disk'.current = disk.current
    BY <1>18, InstallVersionEffect DEF DbIs
  <2>2. Expected' = Expected
    BY <1>4, <2>1 DEF Expected
  <2>3. CASE disk' = disk
    BY <1>0, <2>1, <2>2, <2>3, CurrentKept
  <2>4. CASE ~db.error /\ FilesLeft(held)
    <3>1. /\ db.manifest \in DOMAIN disk'.manifests
          /\ disk'.manifests[db.manifest] = disk.manifests[db.manifest]
          /\ \A n \in DOMAIN disk.tables : n \in Numbers(db'.version) => n \in DOMAIN disk'.tables
      <4> HIDE DEF held
      <4>1. db.manifest >= db'.manifest
        BY <1>0, <2>1
      <4> QED  BY <1>1, <1>2, <2>4, <4>1 DEF FilesLeft, Live
    <3>2. /\ Clean(disk.manifests[db.manifest])
          /\ disk.manifests[db.manifest].synced = Len(disk.manifests[db.manifest].recs)
          /\ VersionOf(disk.manifests[db.manifest]) = db'.version
      BY <1>1, <2>1, <2>4 DEF ManifestUpToDate, Expected
    <3>3. Opens(disk.manifests[db.manifest], DOMAIN disk'.tables)
      <4>1. PICK m, T, U : m = disk.manifests[db.manifest] /\ T = DOMAIN disk.tables /\ U = DOMAIN disk'.tables
        OBVIOUS
      <4>2. m \in ManifestOf /\ Opens(m, T) /\ m.synced = Len(m.recs) /\ Clean(m)
        BY <1>2, <3>2, <4>1
      <4>3. Numbers(VersionOf(m)) \subseteq T
        BY <4>2, OpensReadable
      <4>4. Numbers(VersionOf(m)) \subseteq U
        BY <3>1, <3>2, <4>1, <4>3
      <4> QED  BY <4>1, <4>2, <4>4, OpensInstalled
    <3>4. CurrentOpens'
      BY <1>1, <2>1, <3>1, <3>3 DEF CurrentOpens
    <3>5. ManifestUpToDate'
      BY <1>4, <2>1, <3>1, <3>2 DEF ManifestUpToDate, Expected
    <3> QED  BY <1>0, <1>1, <2>1, <3>4, <3>5 DEF CurrentInv
  <2> QED  BY <2>1, <2>3, <2>4
<1> QED  BY <1>5, <1>6, <1>7, <1>8, <1>9, <1>10, <1>11, <1>12, <1>13, <1>14, <1>16, <1>17, <1>18 DEF Background

LEMMA CurrentOfOpen ==
    ASSUME BaseInv, NumbersInv, FilesInv, CurrentInv, Open
    PROVE  CurrentInv'
<1>1. DiskTyped /\ QuietInv /\ db.version \in SUBSET Table /\ db.manifest \in Nat
      /\ CurrentOpens
  BY FieldsOf DEF CurrentInv
\* The current manifest stays, and no table goes.
<1>2. ASSUME disk'.current = disk.current, DOMAIN disk.tables \subseteq DOMAIN disk'.tables,
             \/ disk'.manifests = disk.manifests
             \/ \E g : /\ disk'.manifests = With(disk.manifests, db.manifest, g)
                       /\ Opens(g, DOMAIN disk.tables)
      PROVE  CurrentOpens'
  <2> SUFFICES ASSUME disk.current \notin {0, 1}
               PROVE  /\ disk.current \in DOMAIN disk'.manifests
                      /\ Opens(disk'.manifests[disk.current], DOMAIN disk'.tables)
    BY <1>2 DEF CurrentOpens
  <2>1. disk.current \in DOMAIN disk.manifests /\ Opens(disk.manifests[disk.current], DOMAIN disk.tables)
    BY <1>1 DEF CurrentOpens
  <2>2. /\ disk.current \in DOMAIN disk'.manifests
        /\ Opens(disk'.manifests[disk.current], DOMAIN disk.tables)
    <3>1. CASE disk'.manifests = disk.manifests
      BY <2>1, <3>1
    <3>2. ASSUME NEW g, disk'.manifests = With(disk.manifests, db.manifest, g), Opens(g, DOMAIN disk.tables)
          PROVE  /\ disk.current \in DOMAIN disk'.manifests
                 /\ Opens(disk'.manifests[disk.current], DOMAIN disk.tables)
      <4>1. disk.current \in DOMAIN disk'.manifests /\
            disk'.manifests[disk.current] \in {g, disk.manifests[disk.current]}
        BY <2>1, <3>2 DEF With
      <4> QED  BY <2>1, <3>2, <4>1
    <3> QED  BY <1>2, <3>1, <3>2
  <2> QED  BY <1>2, <2>2, OpensMore
<1>3. CASE NewDB
  <2>1. db'.up = "down" /\ disk'.current = 1
    BY <1>3, NewDBEffect
  <2> QED  BY <2>1 DEF CurrentInv, CurrentOpens
<1>4. CASE Recover
  <2> DEFINE m == disk.manifests[disk.current]
  <2>1. disk' = disk /\ disk.current # 0
    BY <1>4, RecoverEffect
  <2>2. \/ db'.up = "logs"
        \/ /\ db'.up = "corrupt"
           /\ ~(/\ disk.current \in DOMAIN disk.manifests /\ Readable(m)
                /\ Numbers(VersionOf(m)) \subseteq DOMAIN disk.tables)
    BY <1>4, RecoverEffect
  <2>3. CurrentOpens'
    BY <1>2, <2>1
  <2>4. ASSUME db'.up = "corrupt", disk.current # 1  PROVE \E r \in Range(m.recs) : IsTorn(r)
    <3>1. disk.current \in DOMAIN disk.manifests /\ m \in ManifestOf /\ Opens(m, DOMAIN disk.tables)
      BY <1>1, <2>1, <2>4 DEF CurrentOpens, DiskTyped
    <3>2. ~Clean(m)
      BY <2>2, <2>4, <3>1, OpensReadable
    <3> QED  BY <3>2 DEF Clean, Range
  <2> QED  BY <2>1, <2>2, <2>3, <2>4 DEF CurrentInv
<1>5. CASE RecoverLog
  <2>1. PICK n, ents, next, last, version : Recovered(n, ents, next, last, version)
    BY <1>5, LogRecovered
  <2>2. /\ db'.up = "logs" /\ disk'.current = disk.current /\ disk'.manifests = disk.manifests
        /\ disk'.tables = IF ents = {} THEN disk.tables ELSE With(disk.tables, db.nextFile, ents)
    BY <1>5, <2>1, RecoverLogEffect
  <2>3. DOMAIN disk.tables \subseteq DOMAIN disk'.tables
    BY <2>2 DEF With
  <2> QED  BY <1>2, <2>2, <2>3 DEF CurrentInv
<1>6. CASE NewManifest
  <2> DEFINE log == db.nextFile
             e   == Edit(log, log + 1, db.lastSeq, db.version, {})
             f   == Synced(Appended(File, e))
  <2>1. /\ db.up = "logs" /\ db'.up = "current" /\ db'.manifest = db.manifest /\ db'.version = db.version
        /\ disk'.current = disk.current /\ disk'.tables = disk.tables
        /\ disk'.manifests = With(disk.manifests, db.manifest, f)
        /\ e \in EditOf /\ f \in ManifestOf /\ f.recs = <<e>> /\ f.synced = 1 /\ bg' = bg
    BY <1>6, NewManifestEffect
  <2>2. e.add = db.version
    BY NumbersOfEdit
  <2> HIDE DEF f, e
  <2>3. Clean(f) /\ VersionOf(f) = db.version /\ Len(f.recs) = 1
    BY <2>1, <2>2, VersionFirst
  <2>4. Opens(f, DOMAIN disk.tables)
    <3>1. Numbers(e.add) \subseteq DOMAIN disk.tables
      BY <2>1, <2>2 DEF FilesInv, FilesExist
    <3>2. PICK T : T = DOMAIN disk.tables
      OBVIOUS
    <3> QED  BY <2>1, <3>1, <3>2, OpensFirst
  <2>5. CurrentOpens'
    BY <1>2, <2>1, <2>4
  <2>6. disk'.manifests[db.manifest] = f
    BY <2>1 DEF With
  <2>7. Expected' = db.version
    BY <1>1, <2>1 DEF QuietInv, BgOff, Expected
  <2>8. ManifestUpToDate'
    BY <2>1, <2>3, <2>6, <2>7 DEF ManifestUpToDate
  <2> QED  BY <2>1, <2>5, <2>6, <2>8 DEF CurrentInv
<1>7. CASE SetCurrent
  <2>1. /\ db.up = "current" /\ db'.up = "open"
        /\ db'.manifest = db.manifest /\ db'.version = db.version
        /\ disk'.current = db.manifest /\ FilesLeft({}) /\ HasEnded
        /\ DOMAIN disk'.tables = DOMAIN disk.tables \cap Numbers(db.version)
    BY <1>7, SetCurrentEffect
  <2>2. LogsNumbered /\ ManifestUpToDate /\ disk.manifests[db.manifest].synced = 1
    BY <2>1 DEF NumbersInv, CurrentInv
  <2>3. /\ db.manifest \in DOMAIN disk'.manifests
        /\ disk'.manifests[db.manifest] = disk.manifests[db.manifest]
        /\ disk.manifests[db.manifest] \in ManifestOf
    <3>1. db.manifest >= db'.manifest
      BY <1>1, <2>1
    <3> QED  BY <1>1, <2>1, <2>2, <3>1 DEF FilesLeft, LogsNumbered, DiskTyped
  <2>4. /\ Clean(disk.manifests[db.manifest])
        /\ disk.manifests[db.manifest].synced = Len(disk.manifests[db.manifest].recs)
        /\ VersionOf(disk.manifests[db.manifest]) = db.version
    BY <1>1, <2>1, <2>2 DEF ManifestUpToDate, Expected, QuietInv, BgOff
  <2>5. Numbers(db.version) \subseteq DOMAIN disk'.tables
    BY <2>1 DEF FilesInv, FilesExist
  <2>6. Opens(disk.manifests[db.manifest], DOMAIN disk'.tables)
    <3>1. PICK m, U : m = disk.manifests[db.manifest] /\ U = DOMAIN disk'.tables
      OBVIOUS
    <3>2. m \in ManifestOf /\ m.synced = 1 /\ m.synced = Len(m.recs) /\ Numbers(VersionOf(m)) \subseteq U
      BY <2>2, <2>3, <2>4, <2>5, <3>1
    <3>3. Opens(m, {n : n \in Numbers(VersionOf(m))})
      <4>1. m \in FileOf(EditOf \cup {Torn})
        BY <3>2 DEF ManifestOf, FileOf
      <4>2. \A c \in Kept(m) : c.synced \in 1 .. 1 /\ (c.synced = 1 => c.recs = m.recs)
        BY <3>2, <4>1, KeptRecords
      <4>3. \A c \in Kept(m) : c.recs = m.recs
        BY <4>2
      <4> QED  BY <3>2, <4>3, SameRecords DEF Opens
    <3> QED  BY <3>1, <3>2, <3>3, OpensMore
  <2>7. CurrentOpens'
    BY <2>1, <2>3, <2>6 DEF CurrentOpens
  <2>8. Expected' = db.version
    BY <2>1, EndedFields DEF Expected
  <2>9. ManifestUpToDate'
    BY <2>1, <2>3, <2>4, <2>8 DEF ManifestUpToDate
  <2> QED  BY <2>1, <2>7, <2>9 DEF CurrentInv
<1> QED  BY <1>3, <1>4, <1>5, <1>6, <1>7 DEF Open

LEMMA CurrentOfCrash ==
    ASSUME BaseInv, CurrentInv, ProcessCrash \/ MachineCrash
    PROVE  CurrentInv'
<1>1. /\ db'.up = "down"
      /\ disk'.current = disk.current /\ disk'.tables = disk.tables
      /\ DOMAIN disk'.manifests = DOMAIN disk.manifests
      /\ \/ disk'.manifests = disk.manifests
         \/ \A n \in DOMAIN disk.manifests :
                \E k \in disk.manifests[n].synced .. Len(disk.manifests[n].recs) :
                    disk'.manifests[n] = Cut(disk.manifests[n], k)
  BY CrashEffect
<1>2. DiskTyped /\ CurrentOpens
  BY FieldsOf DEF CurrentInv
<1>3. CurrentOpens'
  <2> SUFFICES ASSUME disk.current \notin {0, 1}
               PROVE  /\ disk.current \in DOMAIN disk'.manifests
                      /\ Opens(disk'.manifests[disk.current], DOMAIN disk.tables)
    BY <1>1 DEF CurrentOpens
  <2>1. /\ disk.current \in DOMAIN disk.manifests /\ disk.manifests[disk.current] \in ManifestOf
        /\ Opens(disk.manifests[disk.current], DOMAIN disk.tables)
    BY <1>2 DEF CurrentOpens, DiskTyped
  <2>2. \/ disk'.manifests[disk.current] = disk.manifests[disk.current]
        \/ disk'.manifests[disk.current] \in Kept(disk.manifests[disk.current])
    BY <1>1, <2>1 DEF Kept
  <2> QED  BY <1>1, <2>1, <2>2, OpensCut
<1> QED  BY <1>1, <1>3 DEF CurrentInv

LEMMA InitCurrent == Init => CurrentInv
<1> SUFFICES ASSUME Init PROVE CurrentInv
  OBVIOUS
<1>1. db.up = "down" /\ disk.current = 0
  BY DEF Init, Closed
<1> QED  BY <1>1 DEF CurrentInv, CurrentOpens

LEMMA CurrentStep == BaseInv /\ NumbersInv /\ FilesInv /\ CurrentInv /\ [Next]_vars => CurrentInv'
<1> SUFFICES ASSUME BaseInv, NumbersInv, FilesInv, CurrentInv, [Next]_vars  PROVE CurrentInv'
  OBVIOUS
<1>1. ASSUME UNCHANGED <<disk, db, bg>>  PROVE CurrentInv'
  BY <1>1 DEF CurrentInv, CurrentOpens, ManifestUpToDate, Expected
<1>2. CASE UNCHANGED vars
  BY <1>1, <1>2 DEF vars
<1>3. CASE \E w \in Writer : \E sync, batch \in BOOLEAN : Call(w, sync, batch)
  BY <1>1, <1>3 DEF Call
<1>4. CASE PinVersion \/ UnpinVersion
  BY <1>1, <1>4 DEF PinVersion, UnpinVersion
<1>5. CASE \E w \in Writer : Thread(w)
  <2>1. ThreadFrame
    BY <1>5, ThreadEffect
  <2>2. Expected' = Expected
    BY <2>1 DEF ThreadFrame, BgIs, Expected
  <2> QED  BY <2>1, <2>2, CurrentKept DEF ThreadFrame
<1>6. CASE Background
  BY <1>6, CurrentOfBackground
<1>7. CASE Open
  BY <1>7, CurrentOfOpen
<1>8. CASE ProcessCrash \/ MachineCrash
  BY <1>8, CurrentOfCrash
<1> QED  BY <1>2, <1>3, <1>4, <1>5, <1>6, <1>7, <1>8 DEF Next

\* Whatever crashes, and whenever, the database opens again, unless its first
\* manifest was lost or its current one is torn.
THEOREM LevelDBOpensAgain == Spec => []OpensAgain
<1>1. Init => BaseInv /\ NumbersInv /\ FilesInv /\ CurrentInv
  BY InitBase, InitNumbers, InitFiles, InitCurrent
<1>2. BaseInv /\ NumbersInv /\ FilesInv /\ CurrentInv /\ [Next]_vars
          => (BaseInv /\ NumbersInv /\ FilesInv /\ CurrentInv)'
  BY BaseStep, NumbersStep, FilesStep, CurrentStep
<1>3. CurrentInv => OpensAgain
  BY DEF CurrentInv, OpensAgain
<1> QED  BY <1>1, <1>2, <1>3, PTL DEF Spec

-----------------------------------------------------------------------------
(* Sequence numbers.  A new one is above all that are stored anywhere, in  *)
(* a file that may yet be read or in memory.                               *)

InFlight(w) == call[w].pc \in {"sync", "finish", "syncerror"}

Frozen       == IF db.imm = <<>> THEN {} ELSE db.imm[1]
TableEntries == UNION {disk.tables[n] : n \in DOMAIN disk.tables}
LogEntries   == UNION {Entries(disk.logs[n]) : n \in DOMAIN disk.logs}
AllEntries   == TableEntries \cup LogEntries \cup db.mem \cup Frozen

Distinct(ents) == \A e, f \in ents : e.seq = f.seq => e = f
UpTo(ents, n)  == \A e \in ents : e.seq <= n

\* Whatever a crash leaves of a manifest, the tables of its version are there, and
\* its last edit knows their sequence numbers.
Ordered(m, tables) ==
    /\ m.synced <= Len(m.recs)
    /\ \A c \in Kept(m) : Readable(c) =>
          \A n \in Numbers(VersionOf(c)) : n \in DOMAIN tables /\ UpTo(tables[n], LastEdit(c).last)

UsedUpTo ==
    /\ UpTo(TableEntries \cup db.mem \cup Frozen, db.lastSeq)
    /\ \A e \in LogEntries : \/ e.seq <= db.lastSeq
                             \/ \E w \in Writer : InFlight(w) /\ e \in GroupEntries(w)

EntriesInv ==
    /\ TableEntries \subseteq Entry /\ Distinct(AllEntries)
    /\ db.up = "open" => UsedUpTo

OrderInv ==
    /\ bg.pc = "manifest" => UpTo(TableEntries, bg.edit[1].last)
    /\ disk.current \in DOMAIN disk.manifests => Ordered(disk.manifests[disk.current], disk.tables)
    /\ db.up \in {"logs", "current"} =>
          \A n \in Numbers(db.version) \cap DOMAIN disk.tables : UpTo(disk.tables[n], db.lastSeq)
    /\ db.up = "logs" /\ disk.current \in DOMAIN disk.manifests =>
          AddsBelow(disk.manifests[disk.current], db.nextFile)
    /\ db.up = "current" => /\ Ordered(disk.manifests[db.manifest], disk.tables)
                            /\ db.logNumber = db.logfile /\ disk.logs[db.logfile].recs = <<>>

SeqInv == EntriesInv /\ OrderInv

LEMMA KeptBelow ==
    ASSUME NEW m \in ManifestOf, NEW b, AddsBelow(m, b), NEW c \in Kept(m), NEW n \in Numbers(VersionOf(c))
    PROVE  n < b
<1>1. m \in FileOf(EditOf \cup {Torn})
  BY DEF ManifestOf, FileOf
<1>2. DOMAIN c.recs = 1 .. c.synced /\ \A i \in 1 .. c.synced : c.recs[i] = m.recs[i] /\ i \in 1 .. Len(m.recs)
  BY <1>1, KeptRecords
<1>3. DOMAIN m.recs = 1 .. Len(m.recs)
  BY <1>1 DEF FileOf
<1>4. PICK f \in VersionOf(c) : n = f[1]
  BY DEF Numbers
<1>5. PICK i \in Whole(c) : f \in c.recs[i].add
  BY <1>4 DEF VersionOf
<1>6. i \in 1 .. c.synced /\ ~IsTorn(c.recs[i])
  <2>1. i \in DOMAIN c.recs /\ \A j \in 1 .. i : ~IsTorn(c.recs[j])
    BY <1>5 DEF Whole
  <2>2. c.synced \in Nat \/ 1 .. c.synced = 1 .. Len(c.recs)
    BY <1>1, KeptRecords
  <2>3. c \in FileOf(EditOf \cup {Torn})
    BY <1>1, KeptRecords
  <2>4. i \in 1 .. i
    BY <1>2, <2>1, <2>3 DEF FileOf
  <2> QED  BY <1>2, <2>1, <2>4
<1>7. n \in Numbers(m.recs[i].add) /\ ~IsTorn(m.recs[i]) /\ i \in DOMAIN m.recs
  BY <1>2, <1>3, <1>4, <1>5, <1>6 DEF Numbers
<1> QED  BY <1>7 DEF AddsBelow

LEMMA OrderedKept ==
    ASSUME NEW m \in ManifestOf, NEW T, Ordered(m, T), NEW b, AddsBelow(m, b), NEW U,
           \A n \in DOMAIN T : n < b => n \in DOMAIN U /\ U[n] = T[n]
    PROVE  Ordered(m, U)
<1>2. \A c \in Kept(m) : \A n \in Numbers(VersionOf(c)) : n < b
  BY KeptBelow
<1>3. ASSUME NEW c \in Kept(m), Readable(c), NEW n \in Numbers(VersionOf(c))
      PROVE  n \in DOMAIN U /\ UpTo(U[n], LastEdit(c).last)
  <2>1. n \in DOMAIN T /\ UpTo(T[n], LastEdit(c).last)
    BY <1>3 DEF Ordered
  <2>2. n \in DOMAIN U /\ U[n] = T[n]
    BY <1>2, <1>3, <2>1
  <2> QED  BY <2>1, <2>2
<1> QED  BY <1>3 DEF Ordered

\* New tables and no changed ones.
LEMMA OrderedMore ==
    ASSUME NEW m, NEW T, Ordered(m, T), NEW U, \A n \in DOMAIN T : n \in DOMAIN U /\ U[n] = T[n]
    PROVE  Ordered(m, U)
  BY DEF Ordered

\* Only the tables of its version are needed by a manifest that is synced.
LEMMA OrderedInstalled ==
    ASSUME NEW m \in ManifestOf, NEW T, Ordered(m, T), m.synced = Len(m.recs), NEW U,
           \A n \in Numbers(VersionOf(m)) : n \in DOMAIN T => n \in DOMAIN U /\ U[n] = T[n]
    PROVE  Ordered(m, U)
<1>1. m \in FileOf(EditOf \cup {Torn}) /\ m.synced \in Nat
  BY DEF ManifestOf, FileOf
<1>2. ASSUME NEW c \in Kept(m)  PROVE c.recs = m.recs
  <2>1. c.synced \in m.synced .. Len(m.recs) /\ (c.synced = Len(m.recs) => c.recs = m.recs)
    BY <1>1, KeptRecords
  <2> QED  BY <1>1, <2>1
<1>3. ASSUME NEW c \in Kept(m), Readable(c), NEW n \in Numbers(VersionOf(c))
      PROVE  n \in DOMAIN U /\ UpTo(U[n], LastEdit(c).last)
  <2>1. n \in DOMAIN T /\ UpTo(T[n], LastEdit(c).last)
    BY <1>3 DEF Ordered
  <2>2. VersionOf(c) = VersionOf(m)
    BY <1>2, SameRecords
  <2> QED  BY <1>3, <2>1, <2>2
<1> QED  BY <1>3 DEF Ordered

LEMMA OrderedFirst ==
    ASSUME NEW f \in ManifestOf, NEW e \in EditOf, f.recs = <<e>>, f.synced \in {0, 1}, NEW T,
           \A n \in Numbers(e.add) : n \in DOMAIN T /\ UpTo(T[n], e.last)
    PROVE  Ordered(f, T)
<1>1. f \in FileOf(EditOf \cup {Torn})
  BY DEF ManifestOf, FileOf
<1>2. Len(f.recs) = 1
  OBVIOUS
<1>3. ASSUME NEW c \in Kept(f), Readable(c)  PROVE c.recs = f.recs
  <2>1. c.synced \in f.synced .. 1 /\ Len(c.recs) = c.synced /\ (c.synced = 1 => c.recs = f.recs)
        /\ c \in FileOf(EditOf \cup {Torn})
    BY <1>1, <1>2, KeptRecords
  <2>2. Len(c.recs) # 0
    BY <1>3, <2>1 DEF Readable, FileOf
  <2> QED  BY <2>1, <2>2
<1>4. VersionOf(f) = e.add /\ LastEdit(f) = e
  BY VersionFirst
<1>5. \A c \in Kept(f) : Readable(c) => VersionOf(c) = e.add /\ LastEdit(c) = e
  BY <1>3, <1>4, SameRecords
<1> QED  BY <1>2, <1>5 DEF Ordered

\* A torn record at the end is as if it were not there.
LEMMA TornAppended ==
    ASSUME NEW m \in ManifestOf, NEW g \in ManifestOf, g.recs = Append(m.recs, Torn), Readable(g)
    PROVE  /\ Clean(m) /\ Readable(m)
           /\ VersionOf(g) = VersionOf(m) /\ LastEdit(g) = LastEdit(m)
<1> DEFINE n == Len(m.recs)
<1>1. /\ n \in Nat /\ DOMAIN m.recs = 1 .. n /\ DOMAIN g.recs = 1 .. n + 1 /\ Len(g.recs) = n + 1
      /\ \A i \in 1 .. n : g.recs[i] = m.recs[i]
      /\ g.recs[n + 1] = Torn
  <2>1. m.recs \in Seq(EditOf \cup {Torn})
    BY DEF ManifestOf
  <2> QED  BY <2>1, AppendProperties
<1> HIDE DEF n
<1>2. \A i \in DOMAIN g.recs : IsTorn(g.recs[i]) => i = n + 1 /\ i > 1
  BY <1>1 DEF Readable
<1>3. Clean(m)
  <2>1. ASSUME NEW i \in 1 .. n  PROVE ~IsTorn(m.recs[i])
    <3>1. i \in DOMAIN g.recs /\ i # n + 1 /\ g.recs[i] = m.recs[i]
      BY <1>1
    <3> QED  BY <1>2, <3>1
  <2> QED  BY <1>1, <2>1 DEF Clean
<1>4. n > 0
  <2>1. n + 1 \in DOMAIN g.recs
    BY <1>1
  <2>2. n + 1 > 1
    BY <1>1, <1>2, <2>1, TornRecords
  <2> QED  BY <1>1, <2>2
<1>5. Whole(m) = 1 .. n /\ Readable(m)
  BY <1>1, <1>3, <1>4, CleanWhole
<1>6. Whole(g) = 1 .. n
  <2>1. ASSUME NEW i \in 1 .. n  PROVE i \in Whole(g)
    <3>1. i \in DOMAIN g.recs /\ \A j \in 1 .. i : j \in 1 .. n
      BY <1>1
    <3>2. \A j \in 1 .. i : ~IsTorn(g.recs[j])
      BY <1>1, <1>3, <3>1 DEF Clean
    <3> QED  BY <3>1, <3>2 DEF Whole
  <2>2. ASSUME NEW i \in Whole(g)  PROVE i \in 1 .. n
    <3>1. i \in 1 .. n + 1 /\ i \in 1 .. i
      BY <1>1, <2>2 DEF Whole
    <3>2. i # n + 1
      BY <1>1, <2>2, <3>1, TornRecords DEF Whole
    <3> QED  BY <1>1, <3>1, <3>2
  <2> QED  BY <2>1, <2>2
<1>7. Whole(g) = Whole(m)
  BY <1>5, <1>6
<1>8. \A i \in Whole(m) : g.recs[i] = m.recs[i]
  BY <1>1, <1>5
<1>9. \A i \in Whole(m) : DeletedSince(g, i) = DeletedSince(m, i)
  BY <1>7, <1>8 DEF DeletedSince
<1>10. VersionOf(g) = VersionOf(m)
  BY <1>7, <1>8, <1>9 DEF VersionOf
<1>11. LastEdit(g) = LastEdit(m)
  <2>1. n \in Whole(m) /\ \A x \in Whole(m) : x <= n
    BY <1>1, <1>4, <1>5
  <2>2. Max(Whole(m)) \in Whole(m)
    <3>1. Whole(m) \in SUBSET Nat /\ Whole(m) # {}
      BY <1>5, <2>1
    <3> QED  BY <1>1, <2>1, <3>1, GreatestExists
  <2> QED  BY <1>7, <1>8, <2>2 DEF LastEdit
<1> QED  BY <1>3, <1>5, <1>10, <1>11

LEMMA OrderedAppended ==
    ASSUME NEW m \in ManifestOf, NEW T, Ordered(m, T), NEW r \in EditOf \cup {Torn},
           ~IsTorn(r) => Numbers(r.add) \subseteq DOMAIN T /\ \A n \in DOMAIN T : UpTo(T[n], r.last),
           m.recs # <<>>, NEW g \in ManifestOf, g.recs = Append(m.recs, r), g.synced \in {m.synced, Len(m.recs) + 1}
    PROVE  Ordered(g, T)
<1> DEFINE R == EditOf \cup {Torn}
<1>1. m \in FileOf(R) /\ g \in FileOf(R) /\ r \in R
  BY DEF ManifestOf, FileOf
<1>2. m.synced \in Nat /\ Len(m.recs) \in Nat /\ m.synced <= Len(m.recs)
  BY <1>1 DEF Ordered, FileOf
<1>3. Len(g.recs) = Len(m.recs) + 1 /\ DOMAIN g.recs = 1 .. Len(m.recs) + 1 /\ DOMAIN m.recs = 1 .. Len(m.recs)
      /\ \A i \in 1 .. Len(m.recs) : g.recs[i] = m.recs[i]
  <2>1. m.recs \in Seq(R)
    BY <1>1 DEF FileOf
  <2> QED  BY <1>1, <2>1, AppendProperties
<1>4. g.synced <= Len(g.recs)
  BY <1>2, <1>3
<1>5. ASSUME Readable(g), NEW n \in Numbers(VersionOf(g))
      PROVE  n \in DOMAIN T /\ UpTo(T[n], LastEdit(g).last)
  <2>1. CASE r = Torn
    <3>1. Readable(m) /\ VersionOf(g) = VersionOf(m) /\ LastEdit(g) = LastEdit(m)
      BY <1>5, <2>1, TornAppended
    <3>2. PICK c \in Kept(m) : c.recs = m.recs
      BY <1>1, <1>2, KeptAll
    <3>3. Readable(c) /\ VersionOf(c) = VersionOf(g) /\ LastEdit(c) = LastEdit(g)
      BY <3>1, <3>2, SameRecords
    <3> QED  BY <1>5, <3>3 DEF Ordered
  <2>2. CASE r # Torn
    <3>1. r \in EditOf /\ ~IsTorn(r)
      BY <2>2, TornRecords
    <3>2. Clean(m)
      <4>1. ASSUME NEW i \in 1 .. Len(m.recs)  PROVE ~IsTorn(m.recs[i])
        <5>1. i \in DOMAIN g.recs /\ i # Len(g.recs) /\ g.recs[i] = m.recs[i]
          BY <1>2, <1>3
        <5> QED  BY <1>5, <5>1 DEF Readable
      <4> QED  BY <1>3, <4>1 DEF Clean
    <3>3. LastEdit(g) = r /\ VersionOf(g) = Applied(VersionOf(m), r)
      BY <3>1, <3>2, VersionAppended
    <3>4. PICK c \in Kept(m) : c.recs = m.recs
      BY <1>1, <1>2, KeptAll
    <3>5. Readable(m)
      <4>1. Len(m.recs) # 0
        BY <1>1 DEF FileOf
      <4> QED  BY <1>2, <1>3, <3>2, <4>1, CleanWhole
    <3>6. Numbers(VersionOf(m)) \subseteq DOMAIN T
      BY <3>4, <3>5, SameRecords DEF Ordered
    <3>7. n \in DOMAIN T
      BY <1>5, <3>1, <3>3, <3>6 DEF Numbers, Applied
    <3> QED  BY <3>1, <3>3, <3>7
  <2> QED  BY <2>1, <2>2
<1> HIDE DEF R
<1>6. ASSUME NEW c \in Kept(g), Readable(c), NEW n \in Numbers(VersionOf(c))
      PROVE  n \in DOMAIN T /\ UpTo(T[n], LastEdit(c).last)
  <2>1. CASE c.recs = g.recs
    <3>1. Readable(g) /\ VersionOf(c) = VersionOf(g) /\ LastEdit(c) = LastEdit(g)
      BY <1>6, <2>1, SameRecords
    <3> QED  BY <1>5, <1>6, <3>1
  <2>2. CASE \E d \in Kept(m) : d.recs = c.recs
    <3>1. PICK d \in Kept(m) : d.recs = c.recs
      BY <2>2
    <3>2. Readable(d) /\ VersionOf(c) = VersionOf(d) /\ LastEdit(c) = LastEdit(d)
      BY <1>6, <3>1, SameRecords
    <3> QED  BY <1>6, <3>2 DEF Ordered
  <2> QED  BY <1>1, <2>1, <2>2, KeptAppended
<1> QED  BY <1>4, <1>6 DEF Ordered

LEMMA OrderedCut ==
    ASSUME NEW m \in ManifestOf, NEW T, Ordered(m, T), NEW d \in Kept(m)
    PROVE  Ordered(d, T)
<1>1. m \in FileOf(EditOf \cup {Torn})
  BY DEF ManifestOf, FileOf
<1>2. d \in FileOf(EditOf \cup {Torn}) /\ Len(d.recs) = d.synced
  BY <1>1, KeptRecords
<1>3. d.synced <= Len(d.recs)
  BY <1>2 DEF FileOf
<1>4. \A c \in Kept(d) : c.recs = d.recs
  BY <1>1, KeptTwice
<1> QED  BY <1>3, <1>4, SameRecords DEF Ordered

LEMMA OrderedReadable ==
    ASSUME NEW m \in ManifestOf, NEW T, Ordered(m, T), Readable(m), NEW n \in Numbers(VersionOf(m))
    PROVE  n \in DOMAIN T /\ UpTo(T[n], LastEdit(m).last)
<1>1. m \in FileOf(EditOf \cup {Torn})
  BY DEF ManifestOf, FileOf
<1>2. PICK c \in Kept(m) : c.recs = m.recs
  BY <1>1, KeptAll DEF Ordered
<1>3. Readable(c) /\ VersionOf(c) = VersionOf(m) /\ LastEdit(c) = LastEdit(m)
  BY <1>2, SameRecords
<1> QED  BY <1>3 DEF Ordered

\* What a log has when it has the same or fewer records, or one more.
LEMMA EntriesLess ==
    ASSUME NEW f \in LogOf, NEW g \in LogOf,
           \A i \in DOMAIN g.recs : i \in DOMAIN f.recs /\ g.recs[i] = f.recs[i]
    PROVE  Entries(g) \subseteq Entries(f)
<1>1. DOMAIN g.recs = 1 .. Len(g.recs) /\ Len(g.recs) \in Nat
  BY DEF LogOf
<1>2. ASSUME NEW i \in Whole(g)  PROVE i \in Whole(f) /\ g.recs[i] = f.recs[i]
  <2>1. i \in DOMAIN g.recs /\ \A j \in 1 .. i : ~IsTorn(g.recs[j])
    BY <1>2 DEF Whole
  <2>2. \A j \in 1 .. i : j \in DOMAIN g.recs
    BY <1>1, <2>1
  <2> QED  BY <2>1, <2>2 DEF Whole
<1> QED  BY <1>2 DEF Entries

LEMMA EntriesAppended ==
    ASSUME NEW f \in LogOf, NEW r \in [ents : SUBSET Entry] \cup {Torn}, NEW ents,
           ~IsTorn(r) => r.ents \subseteq ents
    PROVE  Entries(Appended(f, r)) \subseteq Entries(f) \cup ents
<1> DEFINE R == [ents : SUBSET Entry] \cup {Torn}
           g == Appended(f, r)
           n == Len(f.recs)
<1>1. f \in FileOf(R) /\ r \in R
  BY DEF LogOf, FileOf
<1> HIDE DEF R
<1>2. g.recs = Append(f.recs, r) /\ f.recs \in Seq(R)
  <2>1. f.recs \in Seq(R)
    BY <1>1 DEF FileOf
  <2>2. Appended(f, r).recs = Append(f.recs, r)
    BY <1>1, AppendedTyped
  <2> QED  BY <2>1, <2>2
<1> HIDE DEF g
<1>3. /\ n \in Nat /\ DOMAIN f.recs = 1 .. n /\ DOMAIN g.recs = 1 .. n + 1
      /\ \A i \in 1 .. n : g.recs[i] = f.recs[i]
      /\ g.recs[n + 1] = r
  BY <1>1, <1>2, AppendProperties
<1> HIDE DEF n
<1>4. ASSUME NEW i \in Whole(g)  PROVE g.recs[i].ents \subseteq Entries(f) \cup ents
  <2>1. i \in DOMAIN g.recs /\ \A j \in 1 .. i : ~IsTorn(g.recs[j])
    BY <1>4 DEF Whole
  <2>2. CASE i \in 1 .. n
    <3>1. \A j \in 1 .. i : j \in 1 .. n
      BY <1>3, <2>2
    <3>2. i \in Whole(f)
      BY <1>3, <2>1, <2>2, <3>1 DEF Whole
    <3> QED  BY <1>3, <2>2, <3>2 DEF Entries
  <2>3. CASE i = n + 1
    <3>1. i \in 1 .. i
      BY <1>3, <2>3
    <3> QED  BY <1>3, <2>1, <2>3, <3>1
  <2> QED  BY <1>3, <2>1, <2>2, <2>3
<1> QED  BY <1>4 DEF Entries, g

\* The entries of a group that is in the log already do not change while others
\* enter the queue, wake up or are signalled.
KeepsGroups ==
    \A v \in Writer : InFlight(v) => InFlight(v)' /\ GroupEntries(v)' = GroupEntries(v)

LEMMA GroupStays ==
    ASSUME BaseInv, db'.lastSeq = db.lastSeq, NEW v \in Writer, call[v].pc \in WritePcs,
           call'[v].group = call[v].group,
           \A i \in 1 .. Len(queue) : queue'[i] = queue[i],
           \A u \in Range(queue) : call'[u].id = call[u].id /\ call'[u].batch = call[u].batch
    PROVE  GroupEntries(v)' = GroupEntries(v)
<1>1. call[v].group \in 1 .. Len(queue) /\ queue \in Seq(Writer)
  <2>1. call[v].pc \in FrontPcs
    BY DEF WritePcs, FrontPcs
  <2> QED  BY <2>1, FrontWrites
<1>2. DOMAIN queue = 1 .. Len(queue) /\ Len(queue) \in Nat
  BY <1>1
<1>3. ASSUME NEW i \in 1 .. Len(queue)
      PROVE  call'[queue'[i]].id = call[queue[i]].id /\ call'[queue'[i]].batch = call[queue[i]].batch
  <2>1. queue[i] \in Range(queue)
    BY <1>2 DEF Range
  <2> QED  BY <2>1
<1>4. ASSUME NEW n \in 1 .. Len(queue)  PROVE Batched(n)' = Batched(n)
  <2>1. \A i \in 1 .. n : i \in 1 .. Len(queue)
    BY <1>2
  <2> QED  BY <1>3, <2>1 DEF Batched
<1>5. Batched(call[v].group) \subseteq 1 .. Len(queue)
  BY <1>1, <1>2 DEF Batched
<1>6. Batched(call[v].group)' = Batched(call[v].group)
  <2>1. PICK n \in 1 .. Len(queue) : n = call[v].group
    BY <1>1
  <2> QED  BY <1>4, <2>1
<1> DEFINE B == Batched(call[v].group)
           old(i) == [id |-> call[queue[i]].id, seq |-> db.lastSeq + Cardinality(Batched(i))]
           new(i) == [id |-> call'[queue'[i]].id, seq |-> db'.lastSeq + Cardinality(Batched(i)')]
<1>7. GroupEntries(v) = {old(i) : i \in B}
  BY DEF GroupEntries
<1>8. GroupEntries(v)' = {new(i) : i \in B}
  BY <1>6 DEF GroupEntries
<1> HIDE DEF B
<1>9. ASSUME NEW i \in B  PROVE new(i) = old(i)
  <2>1. i \in 1 .. Len(queue)
    BY <1>5 DEF B
  <2>2. Batched(i)' = Batched(i)
    BY <1>4, <2>1
  <2>3. call'[queue'[i]].id = call[queue[i]].id
    BY <1>3, <2>1
  <2> QED  BY <2>2, <2>3
<1> HIDE DEF old, new
<1> QED  BY <1>7, <1>8, <1>9

LEMMA GroupsKept ==
    ASSUME BaseInv, db'.lastSeq = db.lastSeq, \A i \in 1 .. Len(queue) : queue'[i] = queue[i],
           \A u \in Range(queue) : call'[u].id = call[u].id /\ call'[u].batch = call[u].batch,
           \A v \in Writer : InFlight(v) => InFlight(v)' /\ call'[v].group = call[v].group
    PROVE  KeepsGroups
<1>1. \A v \in Writer : InFlight(v) => call[v].pc \in WritePcs
  BY DEF InFlight, WritePcs
<1> QED  BY <1>1, GroupStays DEF KeepsGroups

\* Only the front is at work.
LEMMA OneFront ==
    ASSUME BaseInv, NEW w \in Writer, call[w].pc \in FrontPcs, NEW v \in Writer, InFlight(v)
    PROVE  v = w
<1>1. call[v].pc \in FrontPcs
  BY DEF InFlight, FrontPcs
<1> QED  BY <1>1, FrontWrites

\* A step that brings no entry into the files or into memory.
LEMMA EntriesKept ==
    ASSUME BaseInv, EntriesInv, db.up = "open", db'.lastSeq = db.lastSeq, KeepsGroups,
           TableEntries' \cup db'.mem \cup Frozen' \subseteq TableEntries \cup db.mem \cup Frozen,
           LogEntries' \subseteq LogEntries
    PROVE  EntriesInv'
<1>1. db.mem \subseteq Entry /\ Frozen \subseteq Entry
  <2>1. db.mem \in SUBSET Entry /\ db.imm \in ImmOf
    BY FieldsOf
  <2>2. db.imm # <<>> => db.imm[1] \in SUBSET Entry
    BY <2>1 DEF ImmOf
  <2> QED  BY <2>1, <2>2 DEF Frozen
<1>2. TableEntries' \subseteq Entry
  BY <1>1 DEF EntriesInv
<1>3. Distinct(AllEntries)'
  <2>1. AllEntries' \subseteq AllEntries
    BY DEF AllEntries
  <2> QED  BY <2>1 DEF EntriesInv, Distinct
<1>4. UsedUpTo'
  <2>1. UsedUpTo
    BY DEF EntriesInv
  <2>2. UpTo(TableEntries \cup db.mem \cup Frozen, db.lastSeq)'
    BY <2>1 DEF UsedUpTo, UpTo
  <2>3. ASSUME NEW e \in LogEntries'
        PROVE  e.seq <= db'.lastSeq \/ \E w \in Writer : InFlight(w)' /\ e \in GroupEntries(w)'
    <3>1. e.seq <= db.lastSeq \/ \E w \in Writer : InFlight(w) /\ e \in GroupEntries(w)
      BY <2>1, <2>3 DEF UsedUpTo
    <3> QED  BY <3>1 DEF KeepsGroups
  <2> QED  BY <2>2, <2>3 DEF UsedUpTo
<1> QED  BY <1>2, <1>3, <1>4 DEF EntriesInv

LEMMA NoneInFlight ==
    ASSUME BaseInv, NEW w \in Writer, call[w].pc \in {"room", "log"}
    PROVE  KeepsGroups /\ \A v \in Writer : ~InFlight(v)
<1>1. \A v \in Writer : ~InFlight(v)
  BY OneFront DEF InFlight, FrontPcs
<1> QED  BY <1>1 DEF KeepsGroups

\* One thread goes on; if it is in the queue its batch stays what it is.
LEMMA OneGroupStays ==
    ASSUME BaseInv, NEW w \in Writer, db'.lastSeq = db.lastSeq, queue' = queue,
           \A v \in Writer : v # w => call'[v] = call[v],
           w \in Range(queue) => call'[w].id = call[w].id /\ call'[w].batch = call[w].batch,
           InFlight(w) => InFlight(w)' /\ call'[w].group = call[w].group
    PROVE  KeepsGroups
<1>1. \A u \in Range(queue) : u \in Writer
  BY DEF BaseInv, QueueInv, Queued, Range
<1>2. \A u \in Range(queue) : call'[u].id = call[u].id /\ call'[u].batch = call[u].batch
  BY <1>1
<1>3. ASSUME NEW v \in Writer, InFlight(v)  PROVE InFlight(v)' /\ call'[v].group = call[v].group
  <2>1. CASE v = w
    BY <1>3, <2>1
  <2>2. CASE v # w
    BY <1>3, <2>2 DEF InFlight
  <2> QED  BY <2>1, <2>2
<1>4. \A i \in 1 .. Len(queue) : queue'[i] = queue[i]
  OBVIOUS
<1> QED  BY <1>2, <1>3, <1>4, GroupsKept

LEMMA LogEntriesLess ==
    ASSUME NEW X, \A n \in DOMAIN disk'.logs :
               \/ Entries(disk'.logs[n]) = {}
               \/ n \in DOMAIN disk.logs /\ Entries(disk'.logs[n]) \subseteq Entries(disk.logs[n]) \cup X
    PROVE  LogEntries' \subseteq LogEntries \cup X
<1> SUFFICES ASSUME NEW e \in LogEntries'  PROVE e \in LogEntries \cup X
  OBVIOUS
<1>1. PICK n \in DOMAIN disk'.logs : e \in Entries(disk'.logs[n])
  BY DEF LogEntries
<1>2. n \in DOMAIN disk.logs /\ e \in Entries(disk.logs[n]) \cup X
  BY <1>1
<1> QED  BY <1>2 DEF LogEntries

LEMMA FileEmpty == Entries(File) = {}
  BY DEF Entries, Whole, File

\* The steps that touch no file and no field of the database.
LEMMA QuietThread ==
    ASSUME BaseInv, NEW w \in Writer, UNCHANGED <<disk, db>>,
           \/ Wake(w) \/ RoomError(w) \/ Delay(w) \/ WaitForRoom(w) \/ TakeRoom(w)
           \/ NewLogFails(w) \/ SyncLogFails(w) \/ AddRecordFails(w) \/ WaitForFlush(w)
    PROVE  KeepsGroups
<1>1. call \in [Writer -> {Idle} \cup CallOf] /\ WriterOK(queue, w, call[w])
  BY DEF BaseInv, QueueInv, Queued
<1>2. CASE RoomError(w) \/ Delay(w) \/ WaitForRoom(w) \/ TakeRoom(w) \/ NewLogFails(w) \/ AddRecordFails(w)
  <2>1. call[w].pc \in {"room", "log"}
    BY <1>2 DEF RoomError, Delay, WaitForRoom, TakeRoom, NewLogFails, AddRecordFails
  <2> QED  BY <2>1, NoneInFlight
<1>3. CASE SyncLogFails(w)
  <2>1. call[w].pc = "sync" /\ queue' = queue
        /\ call' = [call EXCEPT ![w] = [call[w] EXCEPT !.pc = "syncerror", !.ok = FALSE]]
    BY <1>3 DEF SyncLogFails
  <2>2. call[w] \in CallOf
    BY <2>1, WritingOpen
  <2>3. /\ \A v \in Writer : v # w => call'[v] = call[v]
        /\ call'[w] = [call[w] EXCEPT !.pc = "syncerror", !.ok = FALSE]
    BY <1>1, <2>1
  <2>4. call'[w].pc = "syncerror" /\ call'[w].id = call[w].id /\ call'[w].batch = call[w].batch
        /\ call'[w].group = call[w].group
    BY <2>2, <2>3 DEF CallOf
  <2>5. InFlight(w)'
    BY <2>4 DEF InFlight
  <2> QED  BY <2>1, <2>3, <2>4, <2>5, OneGroupStays
<1>4. CASE Wake(w)
  <2>1. call[w].pc = "woken" /\ queue' = queue /\ ~InFlight(w) /\ call[w] \in CallOf
    BY <1>4, WritingOpen DEF Wake, InFlight
  <2>2. CASE call[w].done
    <3>1. call' = [call EXCEPT ![w] = AfterWrite(call[w], call[w].ok)]
      BY <1>4, <2>2 DEF Wake
    <3>2. w \notin Range(queue)
      BY <1>1, <2>1, <2>2 DEF WriterOK, InQueue, FrontPcs
    <3>3. \A v \in Writer : v # w => call'[v] = call[v]
      BY <1>1, <3>1
    <3> QED  BY <2>1, <3>2, <3>3, OneGroupStays
  <2>3. CASE ~call[w].done
    <3>1. PICK pc : call' = [call EXCEPT ![w] = [call[w] EXCEPT !.pc = pc]]
      BY <1>4, <2>3 DEF Wake
    <3>2. (\A v \in Writer : v # w => call'[v] = call[v]) /\ call'[w] = [call[w] EXCEPT !.pc = pc]
      BY <1>1, <3>1
    <3>3. call'[w].id = call[w].id /\ call'[w].batch = call[w].batch
      BY <2>1, <3>2 DEF CallOf
    <3> QED  BY <2>1, <3>2, <3>3, OneGroupStays
  <2> QED  BY <2>2, <2>3
<1>5. CASE WaitForFlush(w)
  <2>1. call[w].pc = "flush" /\ queue' = queue /\ ~InFlight(w) /\ w \notin Range(queue)
    BY <1>1, <1>5 DEF WaitForFlush, InFlight, WriterOK, InQueue, FrontPcs
  <2>2. \A v \in Writer : v # w => call'[v] = call[v]
    BY <1>1, <1>5 DEF WaitForFlush
  <2> QED  BY <2>1, <2>2, OneGroupStays
<1> QED  BY <1>2, <1>3, <1>4, <1>5

LEMMA AllTyped ==
    ASSUME BaseInv, EntriesInv
    PROVE  AllEntries \subseteq Entry /\ LogEntries \subseteq Entry /\ db.mem \subseteq Entry /\ Frozen \subseteq Entry
<1>1. db.mem \in SUBSET Entry /\ db.imm \in ImmOf /\ DiskTyped
  BY FieldsOf
<1>2. db.imm # <<>> => db.imm[1] \in SUBSET Entry
  BY <1>1 DEF ImmOf
<1>3. Frozen \subseteq Entry
  BY <1>2 DEF Frozen
<1>4. LogEntries \subseteq Entry
  BY <1>1, EntriesTyped DEF LogEntries, DiskTyped
<1> QED  BY <1>1, <1>3, <1>4 DEF AllEntries, EntriesInv

LEMMA DistinctMore ==
    ASSUME NEW A \in SUBSET Entry, NEW G \in SUBSET Entry, NEW n \in Nat, Distinct(A), Distinct(G),
           \A e \in A : e.seq <= n \/ e \in G, \A e \in G : n < e.seq
    PROVE  Distinct(A \cup G)
<1>1. \A e \in A \cup G : e.seq \in Nat
  BY DEF Entry
<1>2. ASSUME NEW e \in A \cup G, NEW f \in A \cup G, e.seq = f.seq  PROVE e = f
  <2>1. CASE e \in G /\ f \in G
    BY <1>2, <2>1 DEF Distinct
  <2>2. CASE e \notin G /\ f \notin G
    BY <1>2, <2>2 DEF Distinct
  <2>3. CASE e \notin G /\ f \in G
    BY <1>1, <1>2, <2>3
  <2>4. CASE e \in G /\ f \notin G
    BY <1>1, <1>2, <2>4
  <2> QED  BY <2>1, <2>2, <2>3, <2>4
<1> QED  BY <1>2 DEF Distinct

LEMMA EntriesOfAddRecord ==
    ASSUME BaseInv, NumbersInv, EntriesInv, NEW w \in Writer, AddRecord(w)
    PROVE  EntriesInv'
<1> DEFINE G == GroupEntries(w)
           r == [ents |-> G]
<1>1. /\ call[w].pc = "log" /\ db' = db /\ queue' = queue
      /\ disk' = [disk EXCEPT !.logs[db.logfile] = Appended(disk.logs[db.logfile], r)]
      /\ \E pc \in {"sync", "finish"} : call' = [call EXCEPT ![w] = [call[w] EXCEPT !.pc = pc]]
  BY DEF AddRecord
<1>2. db.up = "open" /\ call[w] \in CallOf /\ call \in [Writer -> {Idle} \cup CallOf]
  BY <1>1, WritingOpen DEF BaseInv, QueueInv, Queued
<1>3. /\ G \subseteq Entry /\ Distinct(G) /\ \A e \in G : db.lastSeq < e.seq
  BY <1>1, GroupTyped DEF WritePcs, Distinct
<1>4. DiskTyped /\ db.lastSeq \in Nat /\ db.logfile \in DOMAIN disk.logs /\ UsedUpTo
  BY <1>2, FieldsOf DEF NumbersInv, LogsNumbered, EntriesInv
<1>5. \A v \in Writer : ~InFlight(v)
  BY <1>1, NoneInFlight
<1>6. InFlight(w)' /\ GroupEntries(w)' = G
  <2>1. PICK pc \in {"sync", "finish"} : call' = [call EXCEPT ![w] = [call[w] EXCEPT !.pc = pc]]
    BY <1>1
  <2>2. (\A v \in Writer : v # w => call'[v] = call[v]) /\ call'[w] = [call[w] EXCEPT !.pc = pc]
    BY <1>2, <2>1
  <2>3. /\ call'[w].pc = pc /\ call'[w].id = call[w].id /\ call'[w].batch = call[w].batch
        /\ call'[w].group = call[w].group
    BY <1>2, <2>2 DEF CallOf
  <2>4. \A u \in Range(queue) : u \in Writer
    BY DEF BaseInv, QueueInv, Queued, Range
  <2>5. \A u \in Range(queue) : call'[u].id = call[u].id /\ call'[u].batch = call[u].batch
    BY <2>2, <2>3, <2>4
  <2>6. call[w].pc \in WritePcs /\ (\A i \in 1 .. Len(queue) : queue'[i] = queue[i]) /\ db'.lastSeq = db.lastSeq
    BY <1>1 DEF WritePcs
  <2>7. GroupEntries(w)' = G
    BY <2>3, <2>5, <2>6, GroupStays
  <2> QED  BY <2>3, <2>7 DEF InFlight
<1> HIDE DEF G
<1>7. r \in [ents : SUBSET Entry] \cup {Torn} /\ r.ents = G
  BY <1>3
<1> HIDE DEF r
<1>8. LogEntries' \subseteq LogEntries \cup G
  <2>1. disk.logs[db.logfile] \in LogOf
    BY <1>4 DEF DiskTyped
  <2>2. Entries(Appended(disk.logs[db.logfile], r)) \subseteq Entries(disk.logs[db.logfile]) \cup G
    BY <1>7, <2>1, EntriesAppended
  <2>3. ASSUME NEW n \in DOMAIN disk'.logs
        PROVE  n \in DOMAIN disk.logs /\ Entries(disk'.logs[n]) \subseteq Entries(disk.logs[n]) \cup G
    <3>1. n \in DOMAIN disk.logs
          /\ disk'.logs[n] = IF n = db.logfile THEN Appended(disk.logs[n], r) ELSE disk.logs[n]
      BY <1>1, <1>4 DEF DiskTyped
    <3> QED  BY <2>2, <3>1
  <2> QED  BY <2>3, LogEntriesLess
<1>9. TableEntries' = TableEntries /\ Frozen' = Frozen
  BY <1>1, <1>4 DEF TableEntries, Frozen, DiskTyped
<1>10. \A e \in AllEntries : e.seq <= db.lastSeq
  BY <1>4, <1>5 DEF UsedUpTo, UpTo, AllEntries
<1>11. Distinct(AllEntries)'
  <2>1. AllEntries' \subseteq AllEntries \cup G
    BY <1>1, <1>8, <1>9 DEF AllEntries
  <2>2. Distinct(AllEntries \cup G)
    <3>1. AllEntries \in SUBSET Entry /\ G \in SUBSET Entry /\ Distinct(AllEntries)
      BY <1>3, AllTyped DEF EntriesInv
    <3> QED  BY <1>3, <1>4, <1>10, <3>1, DistinctMore
  <2> QED  BY <2>1, <2>2 DEF Distinct
<1>12. UsedUpTo'
  <2>1. UpTo(TableEntries \cup db.mem \cup Frozen, db.lastSeq)'
    BY <1>1, <1>4, <1>9 DEF UsedUpTo
  <2>2. ASSUME NEW e \in LogEntries'  PROVE e.seq <= db.lastSeq \/ e \in G
    <3>1. e \in LogEntries \/ e \in G
      BY <1>8, <2>2
    <3> QED  BY <1>10, <3>1 DEF AllEntries
  <2> QED  BY <1>1, <1>6, <2>1, <2>2 DEF UsedUpTo
<1> QED  BY <1>9, <1>11, <1>12 DEF EntriesInv

LEMMA EntriesOfFinish ==
    ASSUME BaseInv, EntriesInv, NEW w \in Writer, Finish(w)
    PROVE  EntriesInv'
<1> DEFINE G == GroupEntries(w)
           mem == db.mem \cup IF call[w].ok THEN G ELSE {}
           seq == db.lastSeq + Cardinality(G)
           d == [db EXCEPT !.lastSeq = seq, !.mem = mem]
<1>1. call[w].pc \in {"finish", "syncerror"} /\ disk' = disk /\ (db' = d \/ db' = Failed(d))
  BY DEF Finish
<1>2. db.up = "open" /\ DiskTyped /\ db.lastSeq \in Nat /\ db \in DbOf
  BY <1>1, WritingOpen, FieldsOf
<1>3. /\ G \subseteq Entry /\ Distinct(G) /\ Cardinality(G) \in Nat
      /\ \A e \in G : db.lastSeq < e.seq /\ e.seq <= db.lastSeq + Cardinality(G)
  BY <1>1, GroupTyped DEF WritePcs, Distinct
<1>4. UsedUpTo /\ InFlight(w) /\ \A v \in Writer : InFlight(v) => v = w
  BY <1>1, <1>2, OneFront DEF EntriesInv, InFlight, FrontPcs
<1>5. mem \subseteq db.mem \cup G /\ seq \in Nat /\ db.lastSeq <= seq /\ \A e \in G : e.seq <= seq
  BY <1>2, <1>3
<1> HIDE DEF mem, seq, G
<1>6. db'.mem = mem /\ db'.lastSeq = seq /\ db'.imm = db.imm
  BY <1>1, <1>2 DEF DbOf, Failed
<1>7. TableEntries' = TableEntries /\ Frozen' = Frozen /\ LogEntries' = LogEntries
  BY <1>1, <1>6 DEF TableEntries, Frozen, LogEntries
<1>8. ASSUME NEW e \in AllEntries  PROVE e.seq <= db.lastSeq \/ e \in G
  <2>1. CASE e \in LogEntries
    BY <1>4, <2>1 DEF UsedUpTo, G
  <2>2. CASE e \notin LogEntries
    BY <1>4, <2>2 DEF UsedUpTo, UpTo, AllEntries
  <2> QED  BY <2>1, <2>2
<1>9. AllEntries \in SUBSET Entry /\ G \in SUBSET Entry /\ Distinct(AllEntries)
  BY <1>3, AllTyped DEF EntriesInv
<1>10. AllEntries' \subseteq AllEntries \cup G
  BY <1>5, <1>6, <1>7 DEF AllEntries
<1>11. Distinct(AllEntries)'
  <2>1. Distinct(AllEntries \cup G)
    BY <1>2, <1>3, <1>8, <1>9, DistinctMore
  <2> QED  BY <1>10, <2>1 DEF Distinct
<1>12. \A e \in AllEntries' : e.seq <= db'.lastSeq
  <2>1. ASSUME NEW e \in AllEntries \cup G  PROVE e.seq <= seq
    <3>1. e.seq \in Nat
      BY <1>9 DEF Entry
    <3> QED  BY <1>2, <1>5, <1>8, <3>1
  <2> QED  BY <1>6, <1>10, <2>1
<1>13. UsedUpTo'
  BY <1>12 DEF UsedUpTo, UpTo, AllEntries
<1> QED  BY <1>7, <1>11, <1>13 DEF EntriesInv

LEMMA SeqOfThread ==
    ASSUME BaseInv, BaseInv', NumbersInv, SeqInv, NEW w \in Writer, Thread(w)
    PROVE  SeqInv'
<1>1. ThreadFrame /\ EntriesInv /\ OrderInv /\ DiskTyped
  BY ThreadEffect, FieldsOf DEF SeqInv
<1>2. OrderInv'
  <2>1. /\ disk'.tables = disk.tables /\ disk'.manifests = disk.manifests /\ disk'.current = disk.current
        /\ TableEntries' = TableEntries /\ db'.up = "open" /\ bg'.edit = bg.edit
        /\ bg'.pc = "manifest" => bg.pc = "manifest"
    BY <1>1 DEF ThreadFrame, BgIs, TableEntries
  <2> QED  BY <1>1, <2>1 DEF OrderInv
<1>3. ASSUME UNCHANGED <<disk, db>>, KeepsGroups  PROVE EntriesInv'
  <2>1. TableEntries' = TableEntries /\ Frozen' = Frozen /\ LogEntries' = LogEntries
    BY <1>3 DEF TableEntries, Frozen, LogEntries
  <2> QED  BY <1>1, <1>3, <2>1, EntriesKept DEF ThreadFrame
<1>4. CASE Wake(w) \/ RoomError(w) \/ Delay(w) \/ WaitForRoom(w) \/ TakeRoom(w)
           \/ NewLogFails(w) \/ SyncLogFails(w) \/ WaitForFlush(w)
  <2>1. UNCHANGED <<disk, db>>
    BY <1>4 DEF Wake, RoomError, Delay, WaitForRoom, TakeRoom, NewLogFails, SyncLogFails, WaitForFlush
  <2>2. KeepsGroups
    BY <1>4, <2>1, QuietThread
  <2>3. EntriesInv'
    BY <1>3, <2>1, <2>2
  <2> QED  BY <1>2, <2>3 DEF SeqInv
<1>5. CASE SwitchMemTable(w)
  <2>1. call[w].pc = "room" /\ disk'.logs = With(disk.logs, db.nextFile, File)
        /\ db'.mem = {} /\ db'.imm = <<db.mem>> /\ db'.lastSeq = db.lastSeq
    <3>1. /\ call[w].pc = "room" /\ disk' = [disk EXCEPT !.logs = With(@, db.nextFile, File)]
          /\ db' = [db EXCEPT !.imm = <<db.mem>>, !.mem = {}, !.logfile = db.nextFile, !.nextFile = db.nextFile + 1]
      BY <1>5 DEF SwitchMemTable, OverToLog
    <3>2. db \in DbOf
      BY FieldsOf
    <3> QED  BY <1>1, <3>1, <3>2 DEF DiskTyped, DbOf
  <2>2. KeepsGroups
    BY <2>1, NoneInFlight
  <2>3. Frozen' = db.mem /\ TableEntries' = TableEntries
    BY <1>1, <2>1 DEF Frozen, TableEntries, ThreadFrame
  <2>4. LogEntries' \subseteq LogEntries \cup {}
    <3>1. \A n \in DOMAIN disk'.logs : \/ Entries(disk'.logs[n]) = {}
                                       \/ n \in DOMAIN disk.logs /\ disk'.logs[n] = disk.logs[n]
      BY <2>1, FileEmpty DEF With
    <3> QED  BY <3>1, LogEntriesLess
  <2>5. EntriesInv'
    BY <1>1, <2>1, <2>2, <2>3, <2>4, EntriesKept DEF ThreadFrame
  <2> QED  BY <1>2, <2>5 DEF SeqInv
<1>6. CASE AddRecord(w)
  BY <1>1, <1>2, <1>6, EntriesOfAddRecord DEF SeqInv
<1>7. CASE AddRecordFails(w) \/ SyncLog(w)
  <2>1. db' = db /\ queue' = queue /\ call[w].pc \in {"log", "sync"}
    BY <1>7 DEF AddRecordFails, SyncLog
  <2>2. /\ db.logfile \in DOMAIN disk.logs /\ disk.logs[db.logfile] \in LogOf
    BY <1>1 DEF ThreadFrame, NumbersInv, LogsNumbered, DiskTyped
  <2>3. KeepsGroups
    <3>1. CASE call[w].pc = "log"
      BY <3>1, NoneInFlight
    <3>2. CASE SyncLog(w)
      <4>1. call' = [call EXCEPT ![w] = [call[w] EXCEPT !.pc = "finish"]] /\ call[w].pc = "sync"
        BY <3>2 DEF SyncLog
      <4>2. call[w] \in CallOf /\ call \in [Writer -> {Idle} \cup CallOf]
        BY <4>1, WritingOpen DEF BaseInv, QueueInv, Queued
      <4>3. (\A v \in Writer : v # w => call'[v] = call[v]) /\ call'[w] = [call[w] EXCEPT !.pc = "finish"]
        BY <4>1, <4>2
      <4>4. call'[w].pc = "finish" /\ call'[w].id = call[w].id /\ call'[w].batch = call[w].batch
            /\ call'[w].group = call[w].group
        BY <4>2, <4>3 DEF CallOf
      <4>5. InFlight(w)'
        BY <4>4 DEF InFlight
      <4> QED  BY <2>1, <4>3, <4>4, <4>5, OneGroupStays
    <3> QED  BY <1>7, <3>1, <3>2 DEF AddRecordFails
  <2>4. LogEntries' \subseteq LogEntries \cup {}
    <3>1. ASSUME NEW f, Entries(f) \subseteq Entries(disk.logs[db.logfile]),
                 disk' = [disk EXCEPT !.logs[db.logfile] = f]
          PROVE  LogEntries' \subseteq LogEntries \cup {}
      <4>1. \A n \in DOMAIN disk'.logs :
               n \in DOMAIN disk.logs /\ disk'.logs[n] = IF n = db.logfile THEN f ELSE disk.logs[n]
        BY <1>1, <3>1 DEF DiskTyped
      <4>2. \A n \in DOMAIN disk'.logs : Entries(disk'.logs[n]) \subseteq Entries(disk.logs[n])
        BY <3>1, <4>1
      <4> QED  BY <4>1, <4>2, LogEntriesLess
    <3>2. Entries(Appended(disk.logs[db.logfile], Torn)) \subseteq Entries(disk.logs[db.logfile]) \cup {}
      <4>1. Torn \in [ents : SUBSET Entry] \cup {Torn} /\ IsTorn(Torn)
        BY TornRecords
      <4> QED  BY <2>2, <4>1, EntriesAppended
    <3>3. Entries(Synced(disk.logs[db.logfile])) \subseteq Entries(disk.logs[db.logfile])
      <4> DEFINE R == [ents : SUBSET Entry] \cup {Torn}
                 f == disk.logs[db.logfile]
      <4>1. f \in FileOf(R)
        BY <2>2 DEF LogOf, FileOf
      <4> HIDE DEF R, f
      <4>2. Synced(f).recs = f.recs
        BY <4>1, SyncedTyped
      <4>3. Entries(Synced(f)) = Entries(f)
        BY <4>2 DEF Entries, Whole
      <4> QED  BY <4>3 DEF f
    <3>4. CASE disk' = disk
      BY <3>4 DEF LogEntries
    <3>5. CASE disk' = [disk EXCEPT !.logs[db.logfile] = Appended(disk.logs[db.logfile], Torn)]
      BY <3>1, <3>2, <3>5
    <3>6. CASE disk' = [disk EXCEPT !.logs[db.logfile] = Synced(disk.logs[db.logfile])]
      BY <3>1, <3>3, <3>6
    <3> QED  BY <1>7, <3>4, <3>5, <3>6 DEF AddRecordFails, SyncLog
  <2>5. Frozen' = Frozen /\ TableEntries' = TableEntries
    BY <1>1, <2>1 DEF Frozen, TableEntries, ThreadFrame
  <2>6. EntriesInv'
    BY <1>1, <2>1, <2>3, <2>4, <2>5, EntriesKept DEF ThreadFrame
  <2> QED  BY <1>2, <2>6 DEF SeqInv
<1>8. CASE Finish(w)
  BY <1>1, <1>2, <1>8, EntriesOfFinish DEF SeqInv
<1> QED  BY <1>4, <1>5, <1>6, <1>7, <1>8 DEF Thread

\* A call joins the queue behind the group that is in the log.
LEMMA SeqOfCall ==
    ASSUME BaseInv, SeqInv, NEW w \in Writer, NEW sync \in BOOLEAN, NEW batch \in BOOLEAN, Call(w, sync, batch)
    PROVE  SeqInv'
<1>1. /\ db.up = "open" /\ call[w].pc = "idle" /\ queue' = Append(queue, w) /\ UNCHANGED <<disk, db, bg>>
      /\ \A v \in Writer : v # w => call'[v] = call[v]
  <2>1. call \in [Writer -> {Idle} \cup CallOf]
    BY DEF BaseInv, QueueInv, Queued
  <2> QED  BY <2>1 DEF Call
<1>2. queue \in Seq(Writer) /\ w \notin Range(queue) /\ \A u \in Range(queue) : u \in Writer
  <2>1. WriterOK(queue, w, call[w]) /\ queue \in Seq(Writer)
    BY DEF BaseInv, QueueInv, Queued
  <2> QED  BY <1>1, <2>1 DEF WriterOK, InQueue, FrontPcs, Range
<1>3. \A i \in 1 .. Len(queue) : queue'[i] = queue[i]
  BY <1>1, <1>2, AppendProperties
<1>4. \A u \in Range(queue) : call'[u].id = call[u].id /\ call'[u].batch = call[u].batch
  BY <1>1, <1>2
<1>5. \A v \in Writer : InFlight(v) => InFlight(v)' /\ call'[v].group = call[v].group
  BY <1>1 DEF InFlight
<1>6. KeepsGroups
  BY <1>1, <1>3, <1>4, <1>5, GroupsKept
<1>7. TableEntries' = TableEntries /\ Frozen' = Frozen /\ LogEntries' = LogEntries
  BY <1>1 DEF TableEntries, Frozen, LogEntries
<1>8. EntriesInv'
  BY <1>1, <1>6, <1>7, EntriesKept DEF SeqInv
<1> QED  BY <1>1, <1>7, <1>8 DEF SeqInv, OrderInv

\* The background thread leaves the writers at work alone.
LEMMA BackgroundEntries ==
    ASSUME BaseInv, EntriesInv, Background, db'.lastSeq = db.lastSeq, db'.mem = db.mem,
           TableEntries' \cup Frozen' \subseteq TableEntries \cup Frozen,
           LogEntries' \subseteq LogEntries
    PROVE  EntriesInv'
<1>1. /\ db.up = "open" /\ queue' = queue /\ call' \in {call, SignalAll(call)}
      /\ call \in [Writer -> {Idle} \cup CallOf] /\ queue \in Seq(Writer)
  BY BackgroundOpen DEF BaseInv, QueueInv, Queued
<1>2. ASSUME NEW v \in Writer
      PROVE  /\ v \in Range(queue) => call'[v].id = call[v].id /\ call'[v].batch = call[v].batch
             /\ InFlight(v) => InFlight(v)' /\ call'[v].group = call[v].group
  <2>1. CASE call'[v] = call[v]
    BY <2>1 DEF InFlight
  <2>2. CASE call'[v] # call[v]
    <3>1. call' = SignalAll(call) /\ call[v].pc \in {"roomwait", "flushwait"}
      BY <1>1, <2>2 DEF SignalAll
    <3>2. PICK pc : call'[v] = [call[v] EXCEPT !.pc = pc]
      BY <3>1 DEF SignalAll
    <3>3. call[v] \in CallOf
      BY <1>1, <3>1 DEF Idle
    <3>4. call'[v].id = call[v].id /\ call'[v].batch = call[v].batch
      BY <3>2, <3>3 DEF CallOf
    <3> QED  BY <3>1, <3>4 DEF InFlight
  <2> QED  BY <2>1, <2>2
<1>3. KeepsGroups
  <2>1. \A u \in Range(queue) : u \in Writer
    BY <1>1 DEF Range
  <2>2. \A u \in Range(queue) : call'[u].id = call[u].id /\ call'[u].batch = call[u].batch
    BY <1>2, <2>1
  <2>3. \A v \in Writer : InFlight(v) => InFlight(v)' /\ call'[v].group = call[v].group
    BY <1>2
  <2> QED  BY <1>1, <2>2, <2>3, GroupsKept
<1> QED  BY <1>1, <1>3, EntriesKept

\* The manifest and the tables of an open database, after a step.
LEMMA OrderOpen ==
    ASSUME db'.up = "open",
           bg'.pc = "manifest" => UpTo(TableEntries', bg'.edit[1].last),
           disk'.current \in DOMAIN disk'.manifests =>
               Ordered(disk'.manifests[disk'.current], disk'.tables)
    PROVE  OrderInv'
  BY DEF OrderInv

\* A table that is new.
LEMMA TablesMore ==
    ASSUME DiskTyped, NEW n, NEW ents, n \notin DOMAIN disk.tables,
           disk' = [disk EXCEPT !.tables = With(disk.tables, n, ents)]
    PROVE  /\ \A k \in DOMAIN disk.tables : k \in DOMAIN disk'.tables /\ disk'.tables[k] = disk.tables[k]
           /\ TableEntries' = TableEntries \cup ents
           /\ disk'.current = disk.current /\ disk'.manifests = disk.manifests /\ disk'.logs = disk.logs
<1>0. PICK T, U : T = disk.tables /\ U = With(disk.tables, n, ents)
  OBVIOUS
<1>1. disk'.tables = U /\ disk'.current = disk.current /\ disk'.manifests = disk.manifests
      /\ disk'.logs = disk.logs
  BY <1>0 DEF DiskTyped
<1>2. /\ DOMAIN U = DOMAIN T \cup {n} /\ U[n] = ents /\ n \notin DOMAIN T
      /\ \A k \in DOMAIN T : k # n => U[k] = T[k]
  BY <1>0 DEF With
<1>3. \A k \in DOMAIN T : k \in DOMAIN U /\ U[k] = T[k]
  BY <1>2
<1> DEFINE X == UNION {T[k] : k \in DOMAIN T}
           Y == UNION {U[k] : k \in DOMAIN U}
<1>4. ASSUME NEW e  PROVE e \in Y <=> e \in X \/ e \in ents
  <2>1. e \in X <=> \E k \in DOMAIN T : e \in T[k]
    OBVIOUS
  <2>2. e \in Y <=> \E k \in DOMAIN U : e \in U[k]
    OBVIOUS
  <2> HIDE DEF X, Y
  <2> QED  BY <1>2, <1>3, <2>1, <2>2
<1>5. X = TableEntries /\ Y = TableEntries'
  BY <1>0, <1>1 DEF TableEntries
<1> HIDE DEF X, Y
<1>6. TableEntries' = TableEntries \cup ents
  BY <1>4, <1>5
<1> QED  BY <1>0, <1>1, <1>3, <1>6

\* LogAndApply writes its edit, or a part of it, to the current manifest.
LEMMA ManifestOrdered ==
    ASSUME BaseInv, NumbersInv, FilesInv, CurrentInv, SeqInv, db.up = "open", bg.pc = "manifest",
           NEW r \in {Torn, bg.edit[1]}, NEW g \in ManifestOf,
           g.recs = Append(disk.manifests[db.manifest].recs, r),
           g.synced \in {disk.manifests[db.manifest].synced, Len(disk.manifests[db.manifest].recs) + 1},
           disk' = [disk EXCEPT !.manifests[db.manifest] = g]
    PROVE  /\ disk'.tables = disk.tables /\ disk'.logs = disk.logs
           /\ Ordered(disk'.manifests[disk'.current], disk'.tables)
<1>1. DiskTyped /\ bg.edit[1] \in EditOf /\ db.manifest \in Nat
  BY FieldsOf
<1>2. /\ disk.current = db.manifest /\ disk.current \in DOMAIN disk.manifests
      /\ disk.manifests[db.manifest] \in ManifestOf
      /\ Opens(disk.manifests[db.manifest], DOMAIN disk.tables)
      /\ Ordered(disk.manifests[db.manifest], disk.tables)
      /\ UpTo(TableEntries, bg.edit[1].last)
      /\ Numbers(bg.edit[1].add) \subseteq DOMAIN disk.tables
  BY <1>1 DEF CurrentInv, NumbersInv, VersionNumbered, CurrentOpens, DiskTyped, SeqInv, OrderInv,
              FilesInv, FilesExist
<1>3. \A n \in DOMAIN disk.tables : UpTo(disk.tables[n], bg.edit[1].last)
  BY <1>2 DEF UpTo, TableEntries
<1>4. r \in EditOf \cup {Torn} /\ (~IsTorn(r) => r = bg.edit[1])
  BY <1>1, TornRecords
<1>5. PICK m, T : m = disk.manifests[db.manifest] /\ T = disk.tables
  OBVIOUS
<1>6. m.recs # <<>>
  <2>1. 1 <= m.synced /\ m.synced <= Len(m.recs) /\ m.synced \in Nat /\ Len(m.recs) \in Nat
    BY <1>2, <1>5 DEF Opens, ManifestOf
  <2>2. Len(m.recs) # 0
    BY <2>1
  <2> QED  BY <2>2
<1>7. ~IsTorn(r) => Numbers(r.add) \subseteq DOMAIN T /\ \A n \in DOMAIN T : UpTo(T[n], r.last)
  BY <1>2, <1>3, <1>4, <1>5
<1>8. Ordered(g, T)
  BY <1>2, <1>4, <1>5, <1>6, <1>7, OrderedAppended
<1>9. /\ disk'.tables = disk.tables /\ disk'.logs = disk.logs /\ disk'.current = disk.current
      /\ disk'.manifests[db.manifest] = g
  BY <1>1, <1>2 DEF DiskTyped
<1> QED  BY <1>2, <1>5, <1>8, <1>9

\* Files are deleted, but none that the manifest needs.
LEMMA InstalledOrdered ==
    ASSUME BaseInv, NumbersInv, CurrentInv, SeqInv, db.up = "open", bg.pc = "install", ~db.error,
           db'.manifest = db.manifest, db'.version = Applied(db.version, bg.edit[1]),
           disk'.current = disk.current, NEW held, FilesLeft(held)
    PROVE  /\ TableEntries' \subseteq TableEntries /\ LogEntries' \subseteq LogEntries
           /\ Ordered(disk'.manifests[disk'.current], disk'.tables)
<1>1. DiskTyped /\ db.manifest \in Nat
  BY FieldsOf
<1>2. /\ disk.current = db.manifest /\ disk.current \in DOMAIN disk.manifests
      /\ disk.manifests[db.manifest] \in ManifestOf
      /\ Ordered(disk.manifests[db.manifest], disk.tables)
      /\ disk.manifests[db.manifest].synced = Len(disk.manifests[db.manifest].recs)
      /\ VersionOf(disk.manifests[db.manifest]) = db'.version
  BY <1>1 DEF CurrentInv, NumbersInv, VersionNumbered, CurrentOpens, DiskTyped, SeqInv, OrderInv,
              ManifestUpToDate, Expected
<1>3. disk'.manifests[db.manifest] = disk.manifests[db.manifest]
  <2>1. db.manifest >= db'.manifest
    BY <1>1
  <2> QED  BY <1>2, <2>1 DEF FilesLeft
<1>4. \A n \in DOMAIN disk.tables : n \in Numbers(db'.version) =>
          n \in DOMAIN disk'.tables /\ disk'.tables[n] = disk.tables[n]
  BY DEF FilesLeft, Live
<1>5. PICK m, T, U : m = disk.manifests[db.manifest] /\ T = disk.tables /\ U = disk'.tables
  OBVIOUS
<1>6. \A n \in Numbers(VersionOf(m)) : n \in DOMAIN T => n \in DOMAIN U /\ U[n] = T[n]
  BY <1>2, <1>4, <1>5
<1>7. Ordered(m, U)
  BY <1>2, <1>5, <1>6, OrderedInstalled
<1>8. TableEntries' \subseteq TableEntries
  <2>1. \A n \in DOMAIN disk'.tables : n \in DOMAIN disk.tables /\ disk'.tables[n] = disk.tables[n]
    BY DEF FilesLeft
  <2> QED  BY <2>1 DEF TableEntries
<1>9. LogEntries' \subseteq LogEntries
  <2>1. \A n \in DOMAIN disk'.logs : n \in DOMAIN disk.logs /\ disk'.logs[n] = disk.logs[n]
    BY DEF FilesLeft
  <2> QED  BY <2>1 DEF LogEntries
<1> QED  BY <1>2, <1>3, <1>5, <1>7, <1>8, <1>9

LEMMA SeqOfBackground ==
    ASSUME BaseInv, NumbersInv, FilesInv, CurrentInv, SeqInv, Background
    PROVE  SeqInv'
<1>0. /\ db.up = "open" /\ db'.up = "open" /\ DiskTyped /\ db.lastSeq \in Nat /\ bg.num \in Nat
      /\ EntriesInv /\ OrderInv /\ UsedUpTo /\ WorkInv /\ FilesExist
  BY BackgroundOpen DEF SeqInv, EntriesInv, FilesInv
<1>1. UpTo(TableEntries \cup Frozen, db.lastSeq)
  BY <1>0 DEF UsedUpTo, UpTo
<1>2. (FlushIsOver \/ HasEnded) => bg'.pc # "manifest"
  BY EndedFields, BackFields DEF FlushIsOver
\* No file changes.
<1>3. ASSUME disk' = disk, db'.lastSeq = db.lastSeq, db'.mem = db.mem, Frozen' \subseteq Frozen,
             bg'.pc = "manifest" => bg'.edit[1].last = db.lastSeq
      PROVE  SeqInv'
  <2>1. TableEntries' = TableEntries /\ LogEntries' = LogEntries
    BY <1>3 DEF TableEntries, LogEntries
  <2>2. EntriesInv'
    BY <1>0, <1>3, <2>1, BackgroundEntries
  <2>3. disk'.current \in DOMAIN disk'.manifests => Ordered(disk'.manifests[disk'.current], disk'.tables)
    BY <1>0, <1>3 DEF OrderInv
  <2>4. bg'.pc = "manifest" => UpTo(TableEntries', bg'.edit[1].last)
    BY <1>1, <1>3, <2>1 DEF UpTo
  <2>5. OrderInv'
    BY <1>0, <2>3, <2>4, OrderOpen
  <2> QED  BY <2>2, <2>5 DEF SeqInv
\* A table is written, with entries that are there already.
<1>4. ASSUME NEW n, NEW ents, n \notin DOMAIN disk.tables, ents \subseteq TableEntries \cup Frozen,
             disk' = [disk EXCEPT !.tables = With(disk.tables, n, ents)],
             db'.lastSeq = db.lastSeq, db'.mem = db.mem, db'.imm = db.imm,
             bg'.pc = "manifest" => bg'.edit[1].last = db.lastSeq
      PROVE  SeqInv'
  <2>1. /\ \A k \in DOMAIN disk.tables : k \in DOMAIN disk'.tables /\ disk'.tables[k] = disk.tables[k]
        /\ TableEntries' = TableEntries \cup ents
        /\ disk'.current = disk.current /\ disk'.manifests = disk.manifests /\ disk'.logs = disk.logs
    BY <1>0, <1>4, TablesMore
  <2>2. LogEntries' = LogEntries /\ Frozen' = Frozen
    BY <1>4, <2>1 DEF LogEntries, Frozen
  <2>3. EntriesInv'
    BY <1>0, <1>4, <2>1, <2>2, BackgroundEntries
  <2>4. disk'.current \in DOMAIN disk'.manifests => Ordered(disk'.manifests[disk'.current], disk'.tables)
    <3>1. PICK T, U : T = disk.tables /\ U = disk'.tables
      OBVIOUS
    <3>2. \A k \in DOMAIN T : k \in DOMAIN U /\ U[k] = T[k]
      BY <2>1, <3>1
    <3> QED  BY <1>0, <2>1, <3>1, <3>2, OrderedMore DEF OrderInv
  <2>5. bg'.pc = "manifest" => UpTo(TableEntries', bg'.edit[1].last)
    BY <1>1, <1>4, <2>1 DEF UpTo
  <2>6. OrderInv'
    BY <1>0, <2>4, <2>5, OrderOpen
  <2> QED  BY <2>3, <2>6 DEF SeqInv
\* The manifest is written.
<1>5. ASSUME NEW r \in {Torn, bg.edit[1]}, NEW g \in ManifestOf, bg.pc = "manifest",
             g.recs = Append(disk.manifests[db.manifest].recs, r),
             g.synced \in {disk.manifests[db.manifest].synced, Len(disk.manifests[db.manifest].recs) + 1},
             disk' = [disk EXCEPT !.manifests[db.manifest] = g],
             db'.lastSeq = db.lastSeq, db'.mem = db.mem, db'.imm = db.imm, bg'.pc # "manifest"
      PROVE  SeqInv'
  <2>1. /\ disk'.tables = disk.tables /\ disk'.logs = disk.logs
        /\ Ordered(disk'.manifests[disk'.current], disk'.tables)
    BY <1>0, <1>5, ManifestOrdered
  <2>2. TableEntries' = TableEntries /\ LogEntries' = LogEntries /\ Frozen' = Frozen
    BY <1>5, <2>1 DEF TableEntries, LogEntries, Frozen
  <2>3. EntriesInv'
    BY <1>0, <1>5, <2>2, BackgroundEntries
  <2>4. OrderInv'
    BY <1>0, <1>5, <2>1, OrderOpen
  <2> QED  BY <2>3, <2>4 DEF SeqInv
<1>6. CASE NothingToDo
  <2>1. disk' = disk /\ db' = db /\ HasEnded
    BY <1>6, NothingToDoEffect
  <2> QED  BY <1>2, <1>3, <2>1 DEF Frozen
<1>7. CASE BuildTableFails \/ WorkFails
  <2>1. disk' = disk /\ (FlushIsOver \/ HasEnded)
        /\ db'.lastSeq = db.lastSeq /\ db'.mem = db.mem /\ db'.imm = db.imm
    BY <1>7, BuildTableFailsEffect, WorkFailsEffect DEF DbIs
  <2> QED  BY <1>2, <1>3, <2>1 DEF Frozen
<1>8. CASE StartFlush \/ StartCompaction \/ OpenOutput
  <2>1. disk' = disk /\ bg'.pc \in {"build", "work"}
        /\ db'.lastSeq = db.lastSeq /\ db'.mem = db.mem /\ db'.imm = db.imm
    BY <1>8, StartFlushEffect, StartCompactionEffect, OpenOutputEffect DEF DbIs, BgIs
  <2> QED  BY <1>3, <2>1 DEF Frozen
<1>9. CASE StartMove
  <2> DEFINE e == Edit(db.logNumber, db.nextFile, db.lastSeq, {<<n, 1>> : n \in Numbers(db.version)}, db.version)
  <2>1. disk' = disk /\ db' = db /\ bg'.edit = <<e>>
    BY <1>9, StartMoveEffect DEF BgIs
  <2>2. e.last = db.lastSeq /\ <<e>>[1] = e
    BY NumbersOfEdit
  <2> HIDE DEF e
  <2> QED  BY <1>3, <2>1, <2>2 DEF Frozen
<1>10. CASE EndWork
  <2> DEFINE e == Edit(db.logNumber, db.nextFile, db.lastSeq, {<<n, 1>> : n \in bg.out}, bg.inputs)
  <2>1. disk' = disk /\ db' = db /\ bg'.edit = <<e>>
    BY <1>10, EndWorkEffect DEF BgIs
  <2>2. e.last = db.lastSeq /\ <<e>>[1] = e
    BY NumbersOfEdit
  <2> HIDE DEF e
  <2> QED  BY <1>3, <2>1, <2>2 DEF Frozen
<1>11. CASE BuildTable
  <2> DEFINE ents == db.imm[1]
             add  == IF ents = {} THEN {} ELSE {<<bg.num, 0>>}
             e    == Edit(db.logfile, db.nextFile, db.lastSeq, add, {})
  <2>1. /\ bg.pc = "build" /\ db.imm # <<>>
        /\ disk' = IF ents = {} THEN disk ELSE [disk EXCEPT !.tables = With(@, bg.num, ents)]
        /\ db'.lastSeq = db.lastSeq /\ db'.mem = db.mem /\ db'.imm = db.imm /\ bg'.edit = <<e>>
    BY <1>11, BuildTableEffect DEF DbIs, BgIs
  <2>2. e.last = db.lastSeq /\ <<e>>[1] = e
    BY NumbersOfEdit
  <2>3. ents = Frozen /\ bg.num \notin DOMAIN disk.tables
    BY <1>0, <2>1 DEF Frozen, WorkInv
  <2> HIDE DEF e, ents
  <2>4. Frozen' = Frozen /\ bg'.edit[1].last = db.lastSeq
    BY <2>1, <2>2 DEF Frozen
  <2>5. CASE ents = {}
    BY <1>3, <2>1, <2>4, <2>5
  <2>6. CASE ents # {}
    BY <1>4, <2>1, <2>3, <2>4, <2>6
  <2> QED  BY <2>5, <2>6
<1>12. CASE WriteOutput
  <2> DEFINE ents == UNION {disk.tables[n] : n \in Numbers(bg.inputs)}
  <2>1. PICK k \in Nat :
           /\ bg.pc = "work" /\ bg.out = {k} /\ ~bg.written
           /\ disk' = [disk EXCEPT !.tables = With(@, k, ents)]
           /\ db'.lastSeq = db.lastSeq /\ db'.mem = db.mem /\ db'.imm = db.imm /\ bg'.pc = "work"
    BY <1>12, WriteOutputEffect DEF DbIs, BgIs
  <2>2. k \notin DOMAIN disk.tables /\ Numbers(bg.inputs) \subseteq DOMAIN disk.tables
    BY <1>0, <2>1 DEF WorkInv, FilesExist
  <2>3. ents \subseteq TableEntries
    BY <2>2 DEF TableEntries
  <2> HIDE DEF ents
  <2> QED  BY <1>4, <2>1, <2>2, <2>3
<1>13. CASE WriteManifest
  <2> DEFINE g == Synced(Appended(disk.manifests[db.manifest], bg.edit[1]))
  <2>1. /\ bg.pc = "manifest" /\ bg.edit[1] \in EditOf /\ db' = db
        /\ disk' = [disk EXCEPT !.manifests[db.manifest] = g] /\ bg'.pc = "install"
    BY <1>13, WriteManifestEffect DEF BgIs
  <2>2. disk.manifests[db.manifest] \in ManifestOf
    BY <1>0 DEF NumbersInv, LogsNumbered, DiskTyped
  <2>3. /\ g \in ManifestOf /\ g.recs = Append(disk.manifests[db.manifest].recs, bg.edit[1])
        /\ g.synced = Len(disk.manifests[db.manifest].recs) + 1
    <3>1. PICK m, e : m = disk.manifests[db.manifest] /\ e = bg.edit[1]
      OBVIOUS
    <3>2. m \in ManifestOf /\ e \in EditOf \cup {Torn} /\ g = Synced(Appended(m, e))
      BY <2>1, <2>2, <3>1
    <3> HIDE DEF g
    <3> QED  BY <3>1, <3>2, AppendedManifest
  <2> HIDE DEF g
  <2>4. bg.edit[1] \in {Torn, bg.edit[1]} /\ bg'.pc # "manifest"
    BY <2>1
  <2> QED  BY <1>5, <2>1, <2>3, <2>4
<1>14. CASE WriteManifestFails
  <2>1. /\ bg.pc = "manifest" /\ bg.edit[1] \in EditOf
        /\ \/ disk' = disk
           \/ \E r \in {Torn, bg.edit[1]} :
                 disk' = [disk EXCEPT !.manifests[db.manifest] = Appended(disk.manifests[db.manifest], r)]
        /\ db'.lastSeq = db.lastSeq /\ db'.mem = db.mem /\ db'.imm = db.imm
        /\ FlushIsOver \/ HasEnded
    BY <1>14, WriteManifestFailsEffect DEF DbIs
  <2>2. CASE disk' = disk
    BY <1>2, <1>3, <2>1, <2>2 DEF Frozen
  <2>3. ASSUME NEW r \in {Torn, bg.edit[1]},
               disk' = [disk EXCEPT !.manifests[db.manifest] = Appended(disk.manifests[db.manifest], r)]
        PROVE  SeqInv'
    <3> DEFINE g == Appended(disk.manifests[db.manifest], r)
    <3>1. r \in EditOf \cup {Torn} /\ disk.manifests[db.manifest] \in ManifestOf
      BY <1>0, <2>1, <2>3 DEF NumbersInv, LogsNumbered, DiskTyped
    <3>2. /\ g \in ManifestOf /\ g.recs = Append(disk.manifests[db.manifest].recs, r)
          /\ g.synced = disk.manifests[db.manifest].synced
      BY <3>1, AppendedManifest
    <3>3. disk' = [disk EXCEPT !.manifests[db.manifest] = g]
      BY <2>3
    <3> HIDE DEF g
    <3> QED  BY <1>2, <1>5, <2>1, <3>2, <3>3
  <2> QED  BY <2>1, <2>2, <2>3
<1>15. CASE InstallVersion
  <2> DEFINE held == IF IsFlush THEN bg.inputs ELSE {}
  <2>1. /\ bg.pc = "install"
        /\ db'.version = Applied(db.version, bg.edit[1]) /\ db'.manifest = db.manifest
        /\ db'.lastSeq = db.lastSeq /\ db'.mem = db.mem /\ db'.imm \in {<<>>, db.imm}
        /\ FlushIsOver \/ HasEnded
        /\ disk' = disk \/ (~db.error /\ FilesLeft(held))
        /\ disk'.current = disk.current
    BY <1>15, InstallVersionEffect DEF DbIs
  <2> HIDE DEF held
  <2>2. Frozen' \subseteq Frozen
    BY <2>1 DEF Frozen
  <2>3. CASE disk' = disk
    BY <1>2, <1>3, <2>1, <2>2, <2>3
  <2>4. CASE ~db.error /\ FilesLeft(held)
    <3>1. /\ TableEntries' \subseteq TableEntries /\ LogEntries' \subseteq LogEntries
          /\ Ordered(disk'.manifests[disk'.current], disk'.tables)
      BY <1>0, <2>1, <2>4, InstalledOrdered
    <3>2. EntriesInv'
      BY <1>0, <2>1, <2>2, <3>1, BackgroundEntries
    <3>3. OrderInv'
      BY <1>0, <1>2, <2>1, <3>1, OrderOpen
    <3> QED  BY <3>2, <3>3 DEF SeqInv
  <2> QED  BY <2>1, <2>3, <2>4
<1> QED  BY <1>6, <1>7, <1>8, <1>9, <1>10, <1>11, <1>12, <1>13, <1>14, <1>15 DEF Background

\* A database that is not open yet has nothing in memory.
LEMMA EntriesClosed ==
    ASSUME BaseInv, BaseInv', EntriesInv, db'.mem = {}, db'.imm = <<>>,
           TableEntries' \subseteq TableEntries \cup LogEntries, LogEntries' \subseteq LogEntries,
           db'.up = "open" => UsedUpTo'
    PROVE  EntriesInv'
<1>1. Frozen' = {}
  BY DEF Frozen
<1>2. AllEntries' \subseteq AllEntries
  BY <1>1 DEF AllEntries
<1>3. Distinct(AllEntries)'
  BY <1>2 DEF EntriesInv, Distinct
<1>4. TableEntries' \subseteq Entry
  BY AllTyped DEF EntriesInv
<1> QED  BY <1>3, <1>4 DEF EntriesInv

LEMMA EmptyClosed ==
    ASSUME BaseInv', db'.up # "open"
    PROVE  db'.mem = {} /\ db'.imm = <<>>
<1>0. QuietInv' /\ db' \in DbOf
  BY DEF BaseInv, TypeInv
<1>1. CASE db'.up \in {"down", "corrupt"}
  <2>1. PICK up : up = db'.up
    OBVIOUS
  <2>2. db' = [Closed EXCEPT !.up = up]
    BY <1>0, <1>1, <2>1 DEF QuietInv
  <2> QED  BY <2>2 DEF Closed
<1>2. CASE db'.up \in {"logs", "current"}
  BY <1>0, <1>2 DEF QuietInv
<1>3. db'.up \in {"down", "logs", "current", "open", "corrupt"}
  BY <1>0 DEF DbOf
<1> QED  BY <1>1, <1>2, <1>3

\* The manifest that is read has no edit that adds a file above its last number.
LEMMA ReadableAdds ==
    ASSUME NEW m \in ManifestOf, Readable(m), ManifestNumbered(m)
    PROVE  AddsBelow(m, LastEdit(m).next + 1)
<1>1. PICK k \in 1 .. Len(m.recs) : Whole(m) = 1 .. k /\ LastEdit(m) = m.recs[k] /\ LastEdit(m) \in EditOf
  BY ReadableManifest
<1>2. Len(m.recs) \in Nat /\ DOMAIN m.recs = 1 .. Len(m.recs) /\ LastEdit(m).next \in Nat
  BY <1>1, ManifestAdds DEF EditOf
<1>3. ASSUME NEW i \in DOMAIN m.recs, ~IsTorn(m.recs[i]), NEW n \in Numbers(m.recs[i].add)
      PROVE  n < LastEdit(m).next + 1
  <2>1. ASSUME NEW j \in 1 .. i  PROVE j \in DOMAIN m.recs /\ ~IsTorn(m.recs[j])
    <3>1. j \in DOMAIN m.recs /\ j <= i /\ i <= Len(m.recs)
      BY <1>2, <1>3
    <3>2. IsTorn(m.recs[j]) => j = Len(m.recs)
      BY <3>1 DEF Readable
    <3>3. IsTorn(m.recs[j]) => j = i
      BY <1>2, <3>1, <3>2
    <3> QED  BY <1>3, <3>1, <3>3
  <2>2. i \in 1 .. k
    BY <1>1, <1>3, <2>1 DEF Whole
  <2>3. k \in DOMAIN m.recs /\ ~IsTorn(m.recs[k])
    <3>1. k \in Whole(m) /\ k \in 1 .. k
      BY <1>1
    <3> QED  BY <3>1 DEF Whole
  <2>4. n < m.recs[k].next
    BY <1>3, <2>2, <2>3 DEF ManifestNumbered
  <2>5. n \in Nat
    BY <1>3, ManifestAdds
  <2> QED  BY <1>1, <1>2, <2>4, <2>5
<1> QED  BY <1>3 DEF AddsBelow

LEMMA SeqOfNewDB ==
    ASSUME BaseInv, BaseInv', SeqInv, NewDB
    PROVE  SeqInv'
<1> DEFINE f == Appended(File, FirstEdit)
<1>1. /\ db.up = "down" /\ db' = db /\ disk'.current = 1
      /\ disk'.logs = disk.logs /\ disk'.tables = disk.tables
      /\ disk'.manifests = With(disk.manifests, 1, f)
      /\ f \in ManifestOf /\ FirstEdit \in EditOf /\ f.recs = <<FirstEdit>> /\ f.synced = 0 /\ bg' = bg
  BY NewDBEffect
<1>2. FirstEdit.add = {} /\ Numbers({}) = {}
  BY NumbersOfEdit DEF FirstEdit, Numbers
<1> HIDE DEF f
<1>3. Ordered(f, disk.tables)
  BY <1>1, <1>2, OrderedFirst
<1>4. disk'.manifests[1] = f
  BY <1>1 DEF With
<1>5. TableEntries' = TableEntries /\ LogEntries' = LogEntries /\ db'.mem = {} /\ db'.imm = <<>>
  BY <1>1, EmptyClosed DEF TableEntries, LogEntries
<1>6. EntriesInv'
  BY <1>1, <1>5, EntriesClosed DEF SeqInv
<1>7. bg'.pc # "manifest"
  BY <1>1, FieldsOf DEF QuietInv, BgOff
<1>8. OrderInv'
  BY <1>1, <1>3, <1>4, <1>7 DEF OrderInv
<1> QED  BY <1>6, <1>8 DEF SeqInv

LEMMA SeqOfRecover ==
    ASSUME BaseInv, BaseInv', NumbersInv, SeqInv, Recover
    PROVE  SeqInv'
<1> DEFINE m == disk.manifests[disk.current]
           e == LastEdit(m)
           readable == /\ disk.current \in DOMAIN disk.manifests /\ Readable(m)
                       /\ Numbers(VersionOf(m)) \subseteq DOMAIN disk.tables
<1>1. /\ db.up = "down" /\ disk' = disk /\ bg' = bg
      /\ \/ ~readable /\ db'.up = "corrupt"
         \/ /\ readable /\ e \in EditOf /\ m \in ManifestOf
            /\ db'.up = "logs" /\ db'.nextFile = e.next + 1 /\ db'.lastSeq = e.last
            /\ db'.version = VersionOf(m)
  BY RecoverEffect
<1>2. TableEntries' = TableEntries /\ LogEntries' = LogEntries
  BY <1>1 DEF TableEntries, LogEntries
<1>3. db'.mem = {} /\ db'.imm = <<>> /\ db'.up # "open"
  BY <1>1, EmptyClosed
<1>4. EntriesInv'
  BY <1>2, <1>3, EntriesClosed DEF SeqInv
<1>5. bg'.pc # "manifest"
  BY <1>1, FieldsOf DEF QuietInv, BgOff
<1>6. disk.current \in DOMAIN disk.manifests => Ordered(m, disk.tables)
  BY DEF SeqInv, OrderInv
<1>7. CASE db'.up = "corrupt"
  <2>1. OrderInv'
    BY <1>1, <1>5, <1>6, <1>7 DEF OrderInv
  <2> QED  BY <1>4, <2>1 DEF SeqInv
<1>8. CASE readable /\ db'.up = "logs"
  <2>1. m \in ManifestOf /\ ManifestNumbered(m) /\ Readable(m) /\ Ordered(m, disk.tables)
    BY <1>6, <1>8, FieldsOf DEF DiskTyped, NumbersInv
  <2>2. db'.up = "logs" /\ db'.version = VersionOf(m) /\ db'.lastSeq = e.last /\ db'.nextFile = e.next + 1
    BY <1>1, <1>8
  <2>3. AddsBelow(m, e.next + 1)
    BY <2>1, ReadableAdds
  <2>4. ASSUME NEW n \in Numbers(VersionOf(m))  PROVE UpTo(disk.tables[n], e.last)
    <3>1. PICK g, T : g = m /\ T = disk.tables
      OBVIOUS
    <3> QED  BY <2>1, <2>4, <3>1, OrderedReadable
  <2> HIDE DEF m, e
  <2>5. \A n \in Numbers(db'.version) \cap DOMAIN disk'.tables : UpTo(disk'.tables[n], db'.lastSeq)
    BY <1>1, <2>2, <2>4
  <2>6. AddsBelow(disk'.manifests[disk'.current], db'.nextFile)
    BY <1>1, <2>2, <2>3 DEF m
  <2>7. disk'.current \in DOMAIN disk'.manifests => Ordered(disk'.manifests[disk'.current], disk'.tables)
    BY <1>1, <1>6 DEF m
  <2>8. OrderInv'
    BY <1>5, <2>2, <2>5, <2>6, <2>7 DEF OrderInv
  <2> QED  BY <1>4, <2>8 DEF SeqInv
<1> QED  BY <1>1, <1>7, <1>8

LEMMA SeqOfRecoverLog ==
    ASSUME BaseInv, BaseInv', NumbersInv, SeqInv, RecoverLog
    PROVE  SeqInv'
<1>0. DiskTyped /\ EntriesInv /\ OrderInv /\ db.nextFile \in Nat /\ db.lastSeq \in Nat
  BY FieldsOf DEF SeqInv
<1>1. PICK n, ents, next, last, version : Recovered(n, ents, next, last, version)
  BY LogRecovered
<1>2. /\ db.up = "logs" /\ db'.up = "logs" /\ db'.nextFile = next /\ db'.lastSeq = last /\ db'.version = version
      /\ disk'.current = disk.current /\ disk'.logs = disk.logs /\ disk'.manifests = disk.manifests
      /\ disk'.tables = IF ents = {} THEN disk.tables ELSE With(disk.tables, db.nextFile, ents)
      /\ bg' = bg
  BY <1>1, RecoverLogEffect
<1>3. /\ ents = Entries(disk.logs[n]) /\ n \in DOMAIN disk.logs /\ ents \subseteq Entry
      /\ next \in Nat /\ next >= db.nextFile
      /\ last \in Nat /\ last >= db.lastSeq /\ \A e \in ents : e.seq <= last
      /\ version = db.version \cup IF ents = {} THEN {} ELSE {<<db.nextFile, 0>>}
  BY <1>1 DEF Recovered
\* The tables that are written already stay; the new one has the entries of the log.
<1>4. /\ \A k \in DOMAIN disk'.tables : \/ k \in DOMAIN disk.tables /\ disk'.tables[k] = disk.tables[k]
                                        \/ k = db.nextFile /\ disk'.tables[k] = ents
      /\ \A k \in DOMAIN disk.tables : k < db.nextFile => k \in DOMAIN disk'.tables /\ disk'.tables[k] = disk.tables[k]
  <2>1. CASE ents = {}
    BY <1>2, <2>1
  <2>2. CASE ents # {}
    <3>1. PICK T, U, x : T = disk.tables /\ U = With(disk.tables, db.nextFile, ents) /\ x = db.nextFile
      OBVIOUS
    <3>2. /\ DOMAIN U = DOMAIN T \cup {x} /\ U[x] = ents /\ \A k \in DOMAIN T : k # x => U[k] = T[k]
      BY <3>1 DEF With
    <3>3. disk'.tables = U
      BY <1>2, <2>2, <3>1
    <3>4. \A k : k < x => k # x
      BY <1>0, <3>1
    <3> QED  BY <3>1, <3>2, <3>3, <3>4
  <2> QED  BY <2>1, <2>2
<1>5. ents \subseteq LogEntries
  BY <1>3 DEF LogEntries
<1>6. TableEntries' \subseteq TableEntries \cup LogEntries
  <2> SUFFICES ASSUME NEW e \in TableEntries'  PROVE e \in TableEntries \cup LogEntries
    OBVIOUS
  <2>1. PICK k \in DOMAIN disk'.tables : e \in disk'.tables[k]
    BY DEF TableEntries
  <2> QED  BY <1>4, <1>5, <2>1 DEF TableEntries
<1>7. LogEntries' = LogEntries /\ db'.mem = {} /\ db'.imm = <<>>
  BY <1>2, EmptyClosed DEF LogEntries
<1>8. EntriesInv'
  BY <1>0, <1>2, <1>6, <1>7, EntriesClosed
<1>9. disk.current \in DOMAIN disk.manifests =>
          /\ Ordered(disk.manifests[disk.current], disk'.tables)
          /\ AddsBelow(disk.manifests[disk.current], next)
  <2> SUFFICES ASSUME disk.current \in DOMAIN disk.manifests
               PROVE  /\ Ordered(disk.manifests[disk.current], disk'.tables)
                      /\ AddsBelow(disk.manifests[disk.current], next)
    OBVIOUS
  <2>1. PICK m, T, U, b : m = disk.manifests[disk.current] /\ T = disk.tables /\ U = disk'.tables /\ b = db.nextFile
    OBVIOUS
  <2>2. m \in ManifestOf /\ Ordered(m, T) /\ AddsBelow(m, b)
    BY <1>0, <1>2, <2>1 DEF OrderInv, DiskTyped
  <2>3. Ordered(m, U)
    BY <1>4, <2>1, <2>2, OrderedKept
  <2>4. AddsBelow(m, next)
    <3>1. b \in Nat /\ b <= next
      BY <1>0, <1>3, <2>1
    <3> QED  BY <1>3, <2>2, <3>1, AddsBelowMore
  <2> QED  BY <2>1, <2>3, <2>4
<1>10. ASSUME NEW k \in Numbers(version) \cap DOMAIN disk'.tables  PROVE UpTo(disk'.tables[k], last)
  <2>1. CASE k = db.nextFile /\ disk'.tables[k] = ents
    BY <1>3, <2>1 DEF UpTo
  <2>2. CASE k \in DOMAIN disk.tables /\ disk'.tables[k] = disk.tables[k] /\ ents # {} /\ k = db.nextFile
    <3>1. disk'.tables[k] = ents
      BY <1>2, <2>2 DEF With
    <3> QED  BY <1>3, <3>1 DEF UpTo
  <2>3. CASE k \in DOMAIN disk.tables /\ disk'.tables[k] = disk.tables[k] /\ ~(ents # {} /\ k = db.nextFile)
    <3>1. k \in Numbers(db.version)
      <4>1. PICK f \in version : k = f[1]
        BY <1>10 DEF Numbers
      <4>2. f # <<db.nextFile, 0>> \/ ents = {}
        BY <2>3, <4>1
      <4>3. f \in db.version
        BY <1>3, <4>1, <4>2
      <4> QED  BY <4>1, <4>3 DEF Numbers
    <3>2. UpTo(disk.tables[k], db.lastSeq)
      BY <1>0, <1>2, <2>3, <3>1 DEF OrderInv
    <3>3. \A e \in disk.tables[k] : e.seq \in Nat
      BY <1>0, <2>3 DEF EntriesInv, TableEntries, Entry
    <3>4. \A e \in disk.tables[k] : e.seq <= last
      BY <1>0, <1>3, <3>2, <3>3 DEF UpTo
    <3> QED  BY <2>3, <3>4 DEF UpTo
  <2> QED  BY <1>4, <1>10, <2>1, <2>2, <2>3
<1>11. bg'.pc # "manifest"
  BY <1>2, FieldsOf DEF QuietInv, BgOff
<1>12. OrderInv'
  BY <1>2, <1>9, <1>10, <1>11 DEF OrderInv
<1> QED  BY <1>8, <1>12 DEF SeqInv

LEMMA SeqOfNewManifest ==
    ASSUME BaseInv, BaseInv', FilesInv, SeqInv, NewManifest
    PROVE  SeqInv'
<1> DEFINE log == db.nextFile
           e   == Edit(log, log + 1, db.lastSeq, db.version, {})
           f   == Synced(Appended(File, e))
<1>0. DiskTyped /\ EntriesInv /\ OrderInv
  BY FieldsOf DEF SeqInv
<1>1. /\ db.up = "logs" /\ db'.up = "current" /\ db'.manifest = db.manifest
      /\ db'.version = db.version /\ db'.lastSeq = db.lastSeq /\ db'.logfile = log /\ db'.logNumber = log
      /\ disk'.current = disk.current /\ disk'.tables = disk.tables
      /\ disk'.logs = With(disk.logs, log, File) /\ disk'.manifests = With(disk.manifests, db.manifest, f)
      /\ e \in EditOf /\ f \in ManifestOf /\ f.recs = <<e>> /\ f.synced = 1 /\ bg' = bg
  BY NewManifestEffect
<1>2. e.add = db.version /\ e.last = db.lastSeq
  BY NumbersOfEdit
<1> HIDE DEF f, e, log
<1>3. Ordered(f, disk.tables)
  <2>1. \A n \in Numbers(e.add) : n \in DOMAIN disk.tables /\ UpTo(disk.tables[n], e.last)
    <3>1. Numbers(db.version) \subseteq DOMAIN disk.tables
      BY <1>1 DEF FilesInv, FilesExist
    <3>2. \A n \in Numbers(db.version) \cap DOMAIN disk.tables : UpTo(disk.tables[n], db.lastSeq)
      BY <1>0, <1>1 DEF OrderInv
    <3> QED  BY <1>2, <3>1, <3>2
  <2>2. PICK T : T = disk.tables
    OBVIOUS
  <2> QED  BY <1>1, <2>1, <2>2, OrderedFirst
<1>4. disk'.manifests[db.manifest] = f /\ disk'.logs[log] = File
  BY <1>1 DEF With
<1>5. disk.current \in DOMAIN disk'.manifests => Ordered(disk'.manifests[disk.current], disk.tables)
  <2>1. CASE disk.current = db.manifest
    BY <1>3, <1>4, <2>1
  <2>2. CASE disk.current # db.manifest
    <3>1. disk.current \in DOMAIN disk'.manifests =>
            /\ disk.current \in DOMAIN disk.manifests
            /\ disk'.manifests[disk.current] = disk.manifests[disk.current]
      BY <1>1, <2>2 DEF With
    <3> QED  BY <1>0, <3>1 DEF OrderInv
  <2> QED  BY <2>1, <2>2
<1>6. LogEntries' \subseteq LogEntries \cup {}
  <2>1. \A n \in DOMAIN disk'.logs : \/ Entries(disk'.logs[n]) = {}
                                     \/ n \in DOMAIN disk.logs /\ disk'.logs[n] = disk.logs[n]
    BY <1>1, FileEmpty DEF With
  <2> QED  BY <2>1, LogEntriesLess
<1>7. TableEntries' = TableEntries /\ db'.mem = {} /\ db'.imm = <<>>
  BY <1>1, EmptyClosed DEF TableEntries
<1>8. EntriesInv'
  BY <1>0, <1>1, <1>6, <1>7, EntriesClosed
<1>9. bg'.pc # "manifest"
  BY <1>1, FieldsOf DEF QuietInv, BgOff
<1>10. File.recs = <<>>
  BY FileTyped
<1>11. OrderInv'
  <2>1. disk'.current \in DOMAIN disk'.manifests => Ordered(disk'.manifests[disk'.current], disk'.tables)
    BY <1>1, <1>5
  <2>2. \A n \in Numbers(db'.version) \cap DOMAIN disk'.tables : UpTo(disk'.tables[n], db'.lastSeq)
    BY <1>0, <1>1 DEF OrderInv
  <2>3. /\ Ordered(disk'.manifests[db'.manifest], disk'.tables)
        /\ db'.logNumber = db'.logfile /\ disk'.logs[db'.logfile].recs = <<>>
    BY <1>1, <1>3, <1>4, <1>10
  <2> QED  BY <1>1, <1>9, <2>1, <2>2, <2>3 DEF OrderInv
<1> QED  BY <1>8, <1>11 DEF SeqInv

LEMMA SeqOfSetCurrent ==
    ASSUME BaseInv, BaseInv', NumbersInv, CurrentInv, SeqInv, SetCurrent
    PROVE  SeqInv'
<1>0. DiskTyped /\ EntriesInv /\ OrderInv /\ db.manifest \in Nat /\ db.logfile \in Nat
  BY FieldsOf DEF SeqInv
<1>1. /\ db.up = "current" /\ db'.up = "open" /\ bg = BgOff
      /\ db'.manifest = db.manifest /\ db'.version = db.version /\ db'.lastSeq = db.lastSeq
      /\ db'.mem = {} /\ db'.imm = <<>>
      /\ disk'.current = db.manifest /\ FilesLeft({}) /\ HasEnded
      /\ DOMAIN disk'.logs = {n \in DOMAIN disk.logs : n >= db.logNumber}
      /\ DOMAIN disk'.tables = DOMAIN disk.tables \cap Numbers(db.version)
  BY SetCurrentEffect
<1>2. /\ db.manifest \in DOMAIN disk.manifests /\ disk.manifests[db.manifest] \in ManifestOf
      /\ Ordered(disk.manifests[db.manifest], disk.tables)
      /\ disk.manifests[db.manifest].synced = Len(disk.manifests[db.manifest].recs)
      /\ VersionOf(disk.manifests[db.manifest]) = db.version
  BY <1>0, <1>1 DEF CurrentInv, NumbersInv, LogsNumbered, DiskTyped, OrderInv, ManifestUpToDate, Expected, BgOff
<1>3. \A n \in DOMAIN disk'.tables : n \in DOMAIN disk.tables /\ disk'.tables[n] = disk.tables[n]
  BY <1>1 DEF FilesLeft
<1>4. Ordered(disk'.manifests[disk'.current], disk'.tables)
  <2>1. disk'.manifests[db.manifest] = disk.manifests[db.manifest]
    <3>1. db.manifest >= db'.manifest
      BY <1>0, <1>1
    <3> QED  BY <1>1, <1>2, <3>1 DEF FilesLeft
  <2>2. PICK m, T, U : m = disk.manifests[db.manifest] /\ T = disk.tables /\ U = disk'.tables
    OBVIOUS
  <2>3. \A n \in Numbers(VersionOf(m)) : n \in DOMAIN T => n \in DOMAIN U /\ U[n] = T[n]
    BY <1>1, <1>2, <1>3, <2>2
  <2>4. Ordered(m, U)
    BY <1>2, <2>2, <2>3, OrderedInstalled
  <2> QED  BY <1>1, <2>1, <2>2, <2>4
<1>5. LogEntries' = {}
  <2>1. ASSUME NEW n \in DOMAIN disk'.logs  PROVE Entries(disk'.logs[n]) = {}
    <3>1. n \in DOMAIN disk.logs /\ disk'.logs[n] = disk.logs[n] /\ n >= db.logNumber
      BY <1>1 DEF FilesLeft
    <3>2. n <= db.logfile /\ db.logNumber = db.logfile /\ disk.logs[db.logfile].recs = <<>>
      BY <1>0, <1>1, <3>1 DEF NumbersInv, LogsNumbered, OrderInv
    <3>3. n \in Nat
      BY <1>0, <3>1 DEF DiskTyped
    <3>4. n = db.logfile
      BY <1>0, <3>1, <3>2, <3>3
    <3> QED  BY <3>1, <3>2, <3>4 DEF Entries, Whole
  <2> QED  BY <2>1 DEF LogEntries
<1>6. TableEntries' \subseteq TableEntries
  BY <1>3 DEF TableEntries
<1>7. UsedUpTo'
  <2>1. Frozen' = {}
    BY <1>1 DEF Frozen
  <2>2. \A n \in Numbers(db.version) \cap DOMAIN disk.tables : UpTo(disk.tables[n], db.lastSeq)
    BY <1>0, <1>1 DEF OrderInv
  <2>3. ASSUME NEW e \in TableEntries'  PROVE e.seq <= db'.lastSeq
    <3>1. PICK n \in DOMAIN disk'.tables : e \in disk'.tables[n]
      BY DEF TableEntries
    <3> QED  BY <1>1, <1>3, <2>2, <3>1 DEF UpTo
  <2> QED  BY <1>1, <1>5, <2>1, <2>3 DEF UsedUpTo, UpTo
<1>8. EntriesInv'
  BY <1>0, <1>1, <1>5, <1>6, <1>7, EntriesClosed
<1>9. OrderInv'
  <2>1. bg'.pc # "manifest"
    BY <1>1, EndedFields
  <2> QED  BY <1>1, <1>4, <2>1, OrderOpen
<1> QED  BY <1>8, <1>9 DEF SeqInv

LEMMA SeqOfCrash ==
    ASSUME BaseInv, BaseInv', SeqInv, ProcessCrash \/ MachineCrash
    PROVE  SeqInv'
<1>0. DiskTyped /\ EntriesInv /\ OrderInv
  BY FieldsOf DEF SeqInv
<1>1. /\ db'.up = "down" /\ bg'.pc = "off" /\ disk'.current = disk.current /\ disk'.tables = disk.tables
      /\ DOMAIN disk'.logs = DOMAIN disk.logs /\ DOMAIN disk'.manifests = DOMAIN disk.manifests
      /\ \/ disk'.logs = disk.logs /\ disk'.manifests = disk.manifests
         \/ /\ \A n \in DOMAIN disk.logs :
                   \E k \in disk.logs[n].synced .. Len(disk.logs[n].recs) : disk'.logs[n] = Cut(disk.logs[n], k)
            /\ \A n \in DOMAIN disk.manifests :
                   \E k \in disk.manifests[n].synced .. Len(disk.manifests[n].recs) :
                       disk'.manifests[n] = Cut(disk.manifests[n], k)
  BY CrashEffect
<1>2. disk.current \in DOMAIN disk.manifests => Ordered(disk'.manifests[disk.current], disk.tables)
  <2> SUFFICES ASSUME disk.current \in DOMAIN disk.manifests
               PROVE  Ordered(disk'.manifests[disk.current], disk.tables)
    OBVIOUS
  <2>1. \/ disk'.manifests[disk.current] = disk.manifests[disk.current]
        \/ disk'.manifests[disk.current] \in Kept(disk.manifests[disk.current])
    BY <1>1 DEF Kept
  <2>2. PICK m, T : m = disk.manifests[disk.current] /\ T = disk.tables
    OBVIOUS
  <2>3. m \in ManifestOf /\ Ordered(m, T)
    BY <1>0, <2>2 DEF OrderInv, DiskTyped
  <2> QED  BY <2>1, <2>2, <2>3, OrderedCut
<1>3. LogEntries' \subseteq LogEntries \cup {}
  <2>1. ASSUME NEW n \in DOMAIN disk.logs  PROVE Entries(disk'.logs[n]) \subseteq Entries(disk.logs[n])
    <3> DEFINE R == [ents : SUBSET Entry] \cup {Torn}
    <3>1. PICK f : f = disk.logs[n]
      OBVIOUS
    <3>2. f \in FileOf(R) /\ f \in LogOf /\ LogOf = FileOf(R)
      BY <1>0, <3>1 DEF DiskTyped, LogOf, FileOf
    <3> HIDE DEF R
    <3>3. CASE disk'.logs[n] = f
      BY <3>1, <3>3
    <3>4. ASSUME NEW k \in f.synced .. Len(f.recs), disk'.logs[n] = Cut(f, k)
          PROVE  Entries(disk'.logs[n]) \subseteq Entries(f)
      <4>1. PICK g : g = Cut(f, k)
        OBVIOUS
      <4>2. g \in Kept(f)
        BY <4>1 DEF Kept
      <4>3. g \in FileOf(R) /\ DOMAIN g.recs = 1 .. g.synced
            /\ \A i \in 1 .. g.synced : g.recs[i] = f.recs[i] /\ i \in 1 .. Len(f.recs)
        BY <3>2, <4>2, KeptRecords
      <4>4. DOMAIN f.recs = 1 .. Len(f.recs)
        BY <3>2 DEF FileOf
      <4>5. g \in LogOf /\ \A i \in DOMAIN g.recs : i \in DOMAIN f.recs /\ g.recs[i] = f.recs[i]
        BY <3>2, <4>3, <4>4
      <4>6. Entries(g) \subseteq Entries(f)
        BY <3>2, <4>5, EntriesLess
      <4> QED  BY <3>4, <4>1, <4>6
    <3> QED  BY <1>1, <3>1, <3>3, <3>4
  <2>2. \A n \in DOMAIN disk'.logs :
           n \in DOMAIN disk.logs /\ Entries(disk'.logs[n]) \subseteq Entries(disk.logs[n]) \cup {}
    BY <1>1, <2>1
  <2> QED  BY <2>2, LogEntriesLess
<1>4. TableEntries' = TableEntries /\ db'.mem = {} /\ db'.imm = <<>>
  BY <1>1, EmptyClosed DEF TableEntries
<1>5. EntriesInv'
  BY <1>0, <1>1, <1>3, <1>4, EntriesClosed
<1>6. OrderInv'
  BY <1>1, <1>2 DEF OrderInv
<1> QED  BY <1>5, <1>6 DEF SeqInv

LEMMA InitSeq == Init => SeqInv
<1> SUFFICES ASSUME Init PROVE SeqInv
  OBVIOUS
<1>1. /\ db.up = "down" /\ db.mem = {} /\ db.imm = <<>> /\ bg.pc = "off"
      /\ DOMAIN disk.tables = {} /\ DOMAIN disk.logs = {} /\ DOMAIN disk.manifests = {}
  BY DEF Init, Closed, BgOff
<1>2. AllEntries = {}
  BY <1>1 DEF AllEntries, TableEntries, LogEntries, Frozen
<1>3. TableEntries = {}
  BY <1>2 DEF AllEntries
<1> QED  BY <1>1, <1>2, <1>3 DEF SeqInv, EntriesInv, OrderInv, Distinct

LEMMA SeqStep ==
    BaseInv /\ BaseInv' /\ NumbersInv /\ FilesInv /\ CurrentInv /\ SeqInv /\ [Next]_vars => SeqInv'
<1> SUFFICES ASSUME BaseInv, BaseInv', NumbersInv, FilesInv, CurrentInv, SeqInv, [Next]_vars  PROVE SeqInv'
  OBVIOUS
<1>1. CASE UNCHANGED <<disk, db, bg, queue, call>>
  <2>1. TableEntries' = TableEntries /\ Frozen' = Frozen /\ LogEntries' = LogEntries
    BY <1>1 DEF TableEntries, Frozen, LogEntries
  <2>2. \A n : Batched(n)' = Batched(n)
    BY <1>1 DEF Batched
  <2>3. \A w \in Writer : InFlight(w)' = InFlight(w) /\ GroupEntries(w)' = GroupEntries(w)
    BY <1>1, <2>2 DEF InFlight, GroupEntries
  <2>4. EntriesInv'
    BY <1>1, <2>1, <2>3 DEF SeqInv, EntriesInv, AllEntries, UsedUpTo
  <2> QED  BY <1>1, <2>1, <2>4 DEF SeqInv, OrderInv
<1>2. CASE UNCHANGED vars
  BY <1>1, <1>2 DEF vars
<1>3. CASE \E w \in Writer : \E sync, batch \in BOOLEAN : Call(w, sync, batch)
  BY <1>3, SeqOfCall
<1>4. CASE PinVersion \/ UnpinVersion
  BY <1>1, <1>4 DEF PinVersion, UnpinVersion
<1>5. CASE \E w \in Writer : Thread(w)
  BY <1>5, SeqOfThread
<1>6. CASE Background
  BY <1>6, SeqOfBackground
<1>7. CASE Open
  BY <1>7, SeqOfNewDB, SeqOfRecover, SeqOfRecoverLog, SeqOfNewManifest, SeqOfSetCurrent DEF Open
<1>8. CASE ProcessCrash \/ MachineCrash
  BY <1>8, SeqOfCrash
<1> QED  BY <1>2, <1>3, <1>4, <1>5, <1>6, <1>7, <1>8 DEF Next

\* No two entries that can be read share a sequence number, whoever wrote them,
\* whatever failed and however often the database was opened since.
THEOREM LevelDBSequencesUnique == Spec => []SequencesUnique
<1>1. Init => BaseInv /\ NumbersInv /\ FilesInv /\ CurrentInv /\ SeqInv
  BY InitBase, InitNumbers, InitFiles, InitCurrent, InitSeq
<1>2. BaseInv /\ NumbersInv /\ FilesInv /\ CurrentInv /\ SeqInv /\ [Next]_vars
          => (BaseInv /\ NumbersInv /\ FilesInv /\ CurrentInv /\ SeqInv)'
  BY BaseStep, NumbersStep, FilesStep, CurrentStep, SeqStep
<1>3. BaseInv /\ SeqInv => SequencesUnique
  <2> SUFFICES ASSUME BaseInv, SeqInv  PROVE SequencesUnique
    OBVIOUS
  <2>1. UNION Range(db.imm) \subseteq Frozen
    <3>1. db.imm \in ImmOf
      BY FieldsOf
    <3>2. CASE db.imm = <<>>
      BY <3>2 DEF Range
    <3>3. CASE db.imm # <<>>
      <4>1. PICK m : db.imm = <<m>>
        BY <3>1, <3>3 DEF ImmOf
      <4>2. Range(<<m>>) = {m} /\ <<m>>[1] = m
        BY DEF Range
      <4> QED  BY <3>3, <4>1, <4>2 DEF Frozen
    <3> QED  BY <3>2, <3>3
  <2>2. UNION {disk.tables[n] : n \in Numbers(db.version) \cap DOMAIN disk.tables} \subseteq TableEntries
    <3>1. PICK T, V : T = disk.tables /\ V = Numbers(db.version)
      OBVIOUS
    <3>2. UNION {T[n] : n \in V \cap DOMAIN T} \subseteq UNION {T[n] : n \in DOMAIN T}
      OBVIOUS
    <3> QED  BY <3>1, <3>2 DEF TableEntries
  <2>3. Visible \subseteq AllEntries
    BY <2>1, <2>2 DEF Visible, AllEntries
  <2> QED  BY <2>3 DEF SeqInv, EntriesInv, Distinct, SequencesUnique
<1> QED  BY <1>1, <1>2, <1>3, PTL DEF Spec
=============================================================================
