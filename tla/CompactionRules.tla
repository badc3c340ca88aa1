--------------------------- MODULE CompactionRules ---------------------------
(***************************************************************************)
(* Entries of LevelDB and the rules by which a compaction drops them       *)
(* (db/dbformat.cc, DBImpl::DoCompactionWork), without the files that hold *)
(* them: what a read sees of a set of entries, and what is kept of the     *)
(* input of a compaction.  The module has no constants; what is proved of  *)
(* it is in LevelCompaction_proof.                                         *)
(***************************************************************************)
EXTENDS Naturals

\* An entry is a write of one user key: its sequence number and whether it is a
\* deletion.  A value is told apart by its sequence number.
Entries(Keys) == [key : Keys, seq : Nat, del : BOOLEAN]

\* InternalKeyComparator: by user key, then the newer entry first.
Before(a, b) == a.key < b.key \/ (a.key = b.key /\ a.seq > b.seq)

\* The newest entry of a key at a snapshot: {} when there is none.
Answer(ents, k, s) ==
    {e \in ents : /\ e.key = k /\ e.seq <= s
                  /\ \A f \in ents : f.key = k /\ f.seq <= s => f.seq <= e.seq}

\* What a reader at the snapshot is told: a deletion is told as NotFound.
Reads(ents, k, s) == {e \in Answer(ents, k, s) : ~e.del}

\* Mutated form: without the comparison with the smallest snapshot.
HiddenAtOnce(e, input, smallest) == \E n \in input : n.key = e.key /\ n.seq > e.seq

\* Rule (A): a newer entry of the key, of the same input, is visible to every
\* snapshot.  last_sequence_for_key is the sequence number of the entry before,
\* the smallest of the newer ones.
Hidden(e, input, smallest) ==
    \E n \in input : n.key = e.key /\ n.seq > e.seq /\ n.seq <= smallest

\* Mutated form: a deletion marker is dropped wherever its key may be.
ObsoleteAnywhere(e, smallest, deeper) == e.del /\ e.seq <= smallest

\* The rule for deletion markers; deeper holds the user keys that a file below
\* the output level may have.
ObsoleteMarker(e, smallest, deeper) ==
    e.del /\ e.seq <= smallest /\ e.key \notin deeper

Kept(input, smallest, deeper) ==
    {e \in input : ~Hidden(e, input, smallest) /\ ~ObsoleteMarker(e, smallest, deeper)}
=============================================================================
