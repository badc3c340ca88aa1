----------------------------- MODULE WriteTree -----------------------------
(***************************************************************************)
(* FWriteTree, the pending writes of a client, and FCompoundWrite, the     *)
(* cached result of applying the visible ones, over a parent and its       *)
(* children: two levels are where one write covers another.  Writes are    *)
(* overwrites of the parent or of a child; data at a place gives a number  *)
(* to each child at or under it, 0 for a child that is not there.          *)
(***************************************************************************)
EXTENDS Naturals, Sequences, FiniteSets, SequencesExt, Functions

CONSTANTS Child, Parent

ASSUME WriteTreeAssumption == IsFiniteSet(Child) /\ Parent \notin Child

Place == Child \cup {Parent}
Under(path) == IF path = Parent THEN Child ELSE {path}
Covers(path, other) == path = Parent \/ path = other

\* New data shadows what it covers.
Shadow(data, new) == [c \in DOMAIN data \cup DOMAIN new |->
                         IF c \in DOMAIN new THEN new[c] ELSE data[c]]

-----------------------------------------------------------------------------
(* FCompoundWrite: a write of the whole parent, or writes of some children. *)

EmptyWrite == [whole |-> FALSE, values |-> [c \in {} |-> 0]]

\* addWrite:atPath: a child of a parent that is written becomes part of it.
AddWrite(compound, path, data) ==
    [whole |-> compound.whole \/ path = Parent, values |-> Shadow(compound.values, data)]

\* removeWriteAtPath does not modify a write at a higher location.
RemoveWriteAtPath(compound, path) ==
    IF path = Parent
    THEN EmptyWrite
    ELSE IF compound.whole
         THEN compound
         ELSE [compound EXCEPT !.values = Restrict(@, DOMAIN @ \ {path})]

ApplyToNode(compound, data) == Shadow(data, compound.values)

-----------------------------------------------------------------------------
(* FWriteTree.  A record has an id, a path, its data, and whether it is    *)
(* visible; a transaction without local events is not.                     *)

EmptyTree == [allWrites |-> <<>>, visibleWrites |-> EmptyWrite]

AddOverwrite(tree, record) ==
    [allWrites |-> Append(tree.allWrites, record),
     visibleWrites |-> IF record.visible
                       THEN AddWrite(tree.visibleWrites, record.path, record.data)
                       ELSE tree.visibleWrites]

\* layerTreeFromWrites from the root, with the default filter: every record.
LayerTreeFromWrites(records) ==
    FoldLeft(LAMBDA compound, record : AddWrite(compound, record.path, record.data),
             EmptyWrite, records)

WriteIds(tree) == {record.id : record \in Range(tree.allWrites)}
WriteForId(tree, id) == CHOOSE record \in Range(tree.allWrites) : record.id = id

\* shadowingWriteAtPath: a visible write of all that is at the path.
ShadowingWriteAt(tree, path) ==
    tree.visibleWrites.whole \/ path \in DOMAIN tree.visibleWrites.values

\* The write was completely shadowed by a later visible one.
ShadowedLater(tree, index) ==
    \E i \in index + 1 .. Len(tree.allWrites) :
       tree.allWrites[i].visible /\ Covers(tree.allWrites[i].path, tree.allWrites[index].path)

\* It covers other visible writes, or they cover part of it.
Overlaps(tree, index) ==
    \E i \in DOMAIN tree.allWrites \ {index} :
       tree.allWrites[i].visible /\ Covers(tree.allWrites[index].path, tree.allWrites[i].path)

\* removeWriteId: the tree without the write, and whether the write may have been
\* visible.
RemoveWriteId(tree, id) ==
    LET index == CHOOSE i \in DOMAIN tree.allWrites : tree.allWrites[i].id = id
        write == tree.allWrites[index]
        left  == RemoveAt(tree.allWrites, index)
        wasVisible == write.visible /\ ~ShadowedLater(tree, index)
    IN  [wasVisible |-> wasVisible,
         tree |-> [allWrites |-> left,
                   visibleWrites |->
                      IF ~wasVisible THEN tree.visibleWrites
                      ELSE IF Overlaps(tree, index)
                           THEN LayerTreeFromWrites(left)
                           ELSE RemoveWriteAtPath(tree.visibleWrites, write.path)]]

Without(tree, excluded) == SelectSeq(tree.allWrites, LAMBDA record : record.id \notin excluded)

\* calculateCompleteEventCacheAtPath with the ids to exclude, hidden writes
\* included: what is left of the writes is layered over the server's data.
CompleteEventCache(tree, path, serverCache, excluded) ==
    Restrict(ApplyToNode(LayerTreeFromWrites(Without(tree, excluded)), serverCache), Under(path))

\* The same without exclusions and hidden writes: the cached writes over the data.
EventCache(tree, serverCache) == ApplyToNode(tree.visibleWrites, serverCache)
=============================================================================
