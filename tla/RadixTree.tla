----------------------------- MODULE RadixTree -----------------------------
(***************************************************************************)
(* The radix tree of the page cache (mem/radix_tree.c).                    *)
(*                                                                         *)
(* The node of level h that covers index i is known by h and by the bits   *)
(* of i above the level, so the tree is a set of entries <<h, p>>: the     *)
(* nodes, and the items at level 0.  Extending the tree puts a node above  *)
(* the root and renames nothing.  tags are the entries whose bit is set in *)
(* the node above them, for one of the two tags, and count the counters of *)
(* the nodes.                                                              *)
(***************************************************************************)
EXTENDS Integers, FiniteSets

CONSTANTS
    RADIX_TREE_MAP_SIZE,
    MaxHeight     \* the bound on indices, as the height of the tree they need

VARIABLES height, entries, count, tags,
          fault,      \* a NULL node was followed
          marked,     \* the items callers tagged
          unheld      \* those they tagged while the tree was only the item

asks == <<marked, unheld>>
vars == <<height, entries, count, tags, fault, asks>>

MaxIndex(h) == RADIX_TREE_MAP_SIZE ^ h - 1
Indices == 0..MaxIndex(MaxHeight)
AllEntries == {e \in (0..MaxHeight) \X Indices : e[2] <= MaxIndex(MaxHeight - e[1])}

Entry(h, i) == <<h, i \div RADIX_TREE_MAP_SIZE ^ h>>
Parent(e) == <<e[1] + 1, e[2] \div RADIX_TREE_MAP_SIZE>>
Children(e) == {c \in AllEntries : c[1] < MaxHeight /\ Parent(c) = e}

rnode == <<height, 0>>
Empty == rnode \notin entries

\* The least height from the present one up that has room for an index.
HeightFor(i) == CHOOSE h \in height..MaxHeight : i <= MaxIndex(h) /\ \A k \in height..(h - 1) : i > MaxIndex(k)

Init ==
    /\ height = 0 /\ entries = {} /\ tags = {} /\ marked = {} /\ unheld = {} /\ fault = FALSE
    /\ count = [e \in AllEntries |-> 0]

-----------------------------------------------------------------------------
(* The tree grows *)

\* The nodes that radix_tree_extend puts above the root, up to height h.
NewRoots(h) == {<<k, 0>> : k \in (height + 1)..h}

\* The nodes below the root, of level l and above, that an insertion lacks.
NewPath(h, l, i) == {Entry(k, i) : k \in l..(h - 1)} \ (entries \cup NewRoots(h))

\* Mutant: radix_tree_extend forgets the tags of the old root.
Grow_ForgetsTags(h, new) ==
    LET linked == (new \ {<<h, 0>>}) \cup (IF h > height THEN {rnode} ELSE {}) IN
    /\ height' = h
    /\ entries' = entries \cup new
    /\ count' = [e \in AllEntries |-> count[e] + Cardinality({c \in linked : Parent(c) = e})]
    /\ UNCHANGED tags

\* Entries are added and every entry but the root is counted in the one above;
\* a new root has the tag of the old one in its first slot.
Grow(h, new) ==
    LET linked == (new \ {<<h, 0>>}) \cup (IF h > height THEN {rnode} ELSE {})
        tagged == Children(rnode) \cap tags # {} IN
    /\ height' = h
    /\ entries' = entries \cup new
    /\ count' = [e \in AllEntries |-> count[e] + Cardinality({c \in linked : Parent(c) = e})]
    /\ tags' = IF tagged THEN tags \cup {<<k, 0>> : k \in height..(h - 1)} ELSE tags

radix_tree_insert(i) ==
    /\ ~ fault
    /\ <<0, i>> \notin entries
    /\ Empty => i = 0 /\ height = 0
    /\ LET h == HeightFor(i) IN Grow(h, NewRoots(h) \cup NewPath(h, 1, i) \cup {<<0, i>>})
    /\ UNCHANGED <<fault, asks>>

\* No memory for a node: the nodes made so far stay.
InsertFails(i) ==
    /\ ~ fault
    /\ <<0, i>> \notin entries
    /\ ~ Empty
    /\ \/ \E h \in height..(HeightFor(i) - 1) : Grow(h, NewRoots(h))
       \/ LET h == HeightFor(i) IN
          \E l \in 2..h : /\ NewPath(h, 1, i) # NewPath(h, l, i)
                          /\ Grow(h, NewRoots(h) \cup NewPath(h, l, i))
    /\ UNCHANGED <<fault, asks>>

\* radix_tree_extend gives an empty tree its height and no node; the insertion
\* follows the root nevertheless.
InsertFaults(i) ==
    /\ ~ fault
    /\ Empty /\ i > 0
    /\ height' = HeightFor(i)
    /\ fault' = TRUE
    /\ UNCHANGED <<entries, count, tags, asks>>

-----------------------------------------------------------------------------
(* The tree shrinks *)

\* Mutant: an emptied node stays counted in the one above.
Delete_KeepsCount(i) ==
    LET freed[k \in 0..height] ==
            k = 0 \/ (k <= height - 2 /\ count[Entry(k, i)] = IF freed[k - 1] THEN 1 ELSE 0)
        untagged[k \in 0..height] ==
            \/ k = 0
            \/ /\ k <= height - 2
               /\ Children(Entry(k, i)) \cap tags \subseteq (IF untagged[k - 1] THEN {Entry(k - 1, i)} ELSE {})
        gone == {Entry(k, i) : k \in {k \in 0..height : freed[k]}} IN
    /\ entries' = entries \ gone
    /\ count' = [e \in AllEntries |-> IF e \in gone THEN 0
                                      ELSE count[e] - Cardinality({c \in gone : c[1] = 0 /\ Parent(c) = e})]
    /\ tags' = (tags \ {Entry(k, i) : k \in {k \in 0..height : untagged[k]}}) \ UNION {Children(e) : e \in gone}

\* The path from the item up to, but not including, the root: a node that has
\* become empty is freed, and a bit is cleared when no bit is left below it.
Delete(i) ==
    LET freed[k \in 0..height] ==
            k = 0 \/ (k <= height - 2 /\ count[Entry(k, i)] = IF freed[k - 1] THEN 1 ELSE 0)
        untagged[k \in 0..height] ==
            \/ k = 0
            \/ /\ k <= height - 2
               /\ Children(Entry(k, i)) \cap tags \subseteq (IF untagged[k - 1] THEN {Entry(k - 1, i)} ELSE {})
        gone == {Entry(k, i) : k \in {k \in 0..height : freed[k]}} IN
    /\ entries' = entries \ gone
    /\ count' = [e \in AllEntries |-> IF e \in gone THEN 0 ELSE count[e] - Cardinality({c \in gone : Parent(c) = e})]
    /\ tags' = (tags \ {Entry(k, i) : k \in {k \in 0..height : untagged[k]}}) \ UNION {Children(e) : e \in gone}

\* The last item of a tree without inner nodes takes the root with it.
DeleteLast(i) ==
    /\ height = 0 \/ (height = 1 /\ count[rnode] = 1)
    /\ height' = 0 /\ entries' = {} /\ tags' = {}
    /\ count' = [count EXCEPT ![rnode] = 0]

radix_tree_delete(i) ==
    /\ ~ fault
    /\ <<0, i>> \in entries
    /\ \/ DeleteLast(i)
       \/ height > 1 /\ Delete(i) /\ UNCHANGED height
       \/ height = 1 /\ count[rnode] > 1 /\ Delete(i) /\ UNCHANGED height
    /\ marked' = marked \ {i}
    /\ unheld' = unheld \ {i}
    /\ UNCHANGED fault

-----------------------------------------------------------------------------
(* Tags and lookups.  Callers name pages that are in the tree. *)

\* A tree that is only an item has no place for its tag.
radix_tree_tag_set(i) ==
    /\ ~ fault
    /\ <<0, i>> \in entries
    /\ tags' = tags \cup {Entry(k, i) : k \in 0..(height - 1)}
    /\ marked' = marked \cup {i}
    /\ unheld' = IF height = 0 THEN unheld \cup {i} ELSE unheld \ {i}
    /\ UNCHANGED <<height, entries, count, fault>>

\* Upwards as long as no bit is left below.
radix_tree_tag_clear(i) ==
    LET clear[k \in 0..height] ==
            k = 0 \/ (clear[k - 1] /\ Children(Entry(k, i)) \cap tags \subseteq {Entry(k - 1, i)}) IN
    /\ ~ fault
    /\ <<0, i>> \in entries
    /\ tags' = tags \ {Entry(k, i) : k \in {k \in 0..(height - 1) : clear[k]}}
    /\ marked' = marked \ {i}
    /\ unheld' = unheld \ {i}
    /\ UNCHANGED <<height, entries, count, fault>>

radix_tree_lookup(i) == i <= MaxIndex(height) /\ \A k \in 0..height : Entry(k, i) \in entries

radix_tree_tag_get(i) == height > 0 /\ \A k \in 0..(height - 1) : Entry(k, i) \in tags

\* What a walk without end and from index first on finds.
radix_tree_gang_lookup(first) == {i \in Indices : i >= first /\ radix_tree_lookup(i)}

radix_tree_gang_lookup_tag(first) ==
    {i \in radix_tree_gang_lookup(first) : radix_tree_tag_get(i)}

Next ==
    \E i \in Indices :
       \/ radix_tree_insert(i) \/ InsertFails(i) \/ InsertFaults(i)
       \/ radix_tree_delete(i) \/ radix_tree_tag_set(i) \/ radix_tree_tag_clear(i)

Spec == Init /\ [][Next]_vars

-----------------------------------------------------------------------------
(* Properties. *)

\* Through any insertions, deletions and shortages of memory every item is
\* found at its index, and a node's counter is the number of its slots in use.
TreeExact ==
    /\ \A i \in Indices : <<0, i>> \in entries <=> radix_tree_lookup(i)
    /\ \A e \in entries : e[1] > 0 => count[e] = Cardinality(Children(e) \cap entries)

\* Wherever the tree grew or shrank since, the walk for a tag finds exactly the
\* items that were tagged, but for those tagged while the tree had no node: no
\* bit is ever set for them, and they are not found until they are tagged again.
TagsKept == radix_tree_gang_lookup_tag(0) = marked \ unheld

\* The walk for a tag, which chooses the pages that are written back, finds every
\* item that was tagged: the dirty page of a mapping that has only its first page too.
TagsExact == radix_tree_gang_lookup_tag(0) = marked

\* Inserting a page at any index, into an empty tree too, never follows a NULL
\* node: radix_tree_extend leaves the root that radix_tree_insert descends from.
InsertSafe == ~ fault
=============================================================================
