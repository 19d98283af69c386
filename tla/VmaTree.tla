------------------------------ MODULE VmaTree -------------------------------
(***************************************************************************)
(* The areas of an address space as they are kept (mem/vma.c over          *)
(* core/lib/rbtree.c): a red-black tree and a doubly linked list of the    *)
(* same areas, with the largest gap of every subtree.  A node is named by  *)
(* the page its area starts at, and 0 is NULL.  The left and the right     *)
(* half of each routine are one operator with a side.                      *)
(***************************************************************************)
EXTENDS Integers, Sequences, FiniteSets, FiniteSetsExt

CONSTANTS
    Pages,        \* 1..n
    MAX_LEN,      \* bound: pages of an area
    MAX_AREAS,    \* bound: areas of the space
    Careful       \* TRUE: no area is removed whose successor is its right child and
                  \* has a child, see Exchanged

VARIABLES
    tree,         \* the nodes, vma_tree and vma_head
    areas         \* what the space should contain: a set of <<start, end>>

vars == <<tree, areas>>

Sides == {"left", "right"}
Opp(s) == IF s = "left" THEN "right" ELSE "left"

Empty ==
    [root |-> 0, head |-> 0,
     kid |-> [s \in Sides |-> [n \in Pages |-> 0]], parent |-> [n \in Pages |-> 0], red |-> [n \in Pages |-> FALSE],
     end |-> [n \in Pages |-> 0], gap |-> [n \in Pages |-> 0], next |-> [n \in Pages |-> 0], prev |-> [n \in Pages |-> 0]]

Init == tree = Empty /\ areas = {}

-----------------------------------------------------------------------------
(* The largest gap of a subtree.                                            *)

GapOf(t, n) == IF n = 0 THEN 0 ELSE t.gap[n]
node_gap_to_next(t, n) == IF t.next[n] = 0 \/ t.next[n] <= t.end[n] THEN 0 ELSE t.next[n] - t.end[n]

update_vma_subtree_gap(t, n) ==
    [t EXCEPT !.gap[n] = Max({node_gap_to_next(t, n), GapOf(t, t.kid["left"][n]), GapOf(t, t.kid["right"][n])})]

RECURSIVE propagate_gap_upward(_, _)
propagate_gap_upward(t, n) == IF n = 0 THEN t ELSE propagate_gap_upward(update_vma_subtree_gap(t, n), t.parent[n])

-----------------------------------------------------------------------------
(* The red-black tree.                                                      *)

IsRed(t, n) == n # 0 /\ t.red[n]
SideOf(t, n, p) == IF t.kid["left"][p] = n THEN "left" ELSE "right"
WithParent(t, n, p) == IF n = 0 THEN t ELSE [t EXCEPT !.parent[n] = p]
Colored(t, n, red) == IF n = 0 THEN t ELSE [t EXCEPT !.red[n] = red]

\* What pointed from p, or from the root, to node now points to new.
InPlaceOf(t, p, node, new) ==
    IF p = 0 THEN [t EXCEPT !.root = new] ELSE [t EXCEPT !.kid[SideOf(t, node, p)][p] = new]

\* rb_rotate_left and rb_rotate_right: node goes down on side s.
rb_rotate(t, node, s) ==
    LET up == t.kid[Opp(s)][node]
        inner == t.kid[s][up]
        moved == [WithParent(t, inner, node) EXCEPT !.kid[Opp(s)][node] = inner, !.parent[up] = t.parent[node]]
        linked == [InPlaceOf(moved, t.parent[node], node, up) EXCEPT !.kid[s][up] = node, !.parent[node] = up]
    IN update_vma_subtree_gap(update_vma_subtree_gap(linked, node), up)

\* The rotations that end the loop of rb_insert_augmented.
Straightened(t, node, parent, s) ==
    IF node = t.kid[Opp(s)][parent] THEN <<rb_rotate(t, parent, s), parent>> ELSE <<t, node>>
Raised(t, node, s) ==
    LET p == t.parent[node]
        g == t.parent[p]
    IN rb_rotate([t EXCEPT !.red[p] = FALSE, !.red[g] = TRUE], g, Opp(s))

RootBlack(t) == Colored(t, t.root, FALSE)

RECURSIVE rb_insert_augmented(_, _)
rb_insert_augmented(t, node) ==
    IF ~IsRed(t, t.parent[node]) THEN RootBlack(t)
    ELSE LET p == t.parent[node]
             g == t.parent[p]
             s == SideOf(t, p, g)
             uncle == t.kid[Opp(s)][g]
             straight == Straightened(t, node, p, s)
         IN IF IsRed(t, uncle)
            THEN rb_insert_augmented([t EXCEPT !.red[p] = FALSE, !.red[uncle] = FALSE, !.red[g] = TRUE], g)
            ELSE rb_insert_augmented(Raised(straight[1], straight[2], s), straight[2])

\* A sibling that is red goes up; then one with a red child on the far side takes
\* its place.
SiblingBlack(t, p, s) ==
    LET sibling == t.kid[Opp(s)][p]
    IN IF IsRed(t, sibling) THEN rb_rotate([t EXCEPT !.red[sibling] = FALSE, !.red[p] = TRUE], p, s) ELSE t
FarRed(t, p, s) ==
    LET sibling == t.kid[Opp(s)][p]
    IN IF IsRed(t, t.kid[Opp(s)][sibling]) THEN t
       ELSE rb_rotate(Colored(Colored(t, t.kid[s][sibling], FALSE), sibling, TRUE), sibling, Opp(s))
Settled(t, p, s) ==
    LET sibling == t.kid[Opp(s)][p]
        far == t.kid[Opp(s)][sibling]
    IN rb_rotate(Colored([t EXCEPT !.red[sibling] = t.red[p], !.red[p] = FALSE], far, FALSE), p, s)

RECURSIVE rb_erase_fixup(_, _, _)
rb_erase_fixup(t, node, p) ==
    IF IsRed(t, node) \/ node = t.root THEN Colored(t, node, FALSE)
    ELSE LET s == SideOf(t, node, p)
             t1 == SiblingBlack(t, p, s)
             sibling == t1.kid[Opp(s)][p]
         IN IF \A x \in Sides : ~IsRed(t1, t1.kid[x][sibling])
            THEN rb_erase_fixup([t1 EXCEPT !.red[sibling] = TRUE], p, t1.parent[p])
            ELSE RootBlack(Settled(FarRed(t1, p, s), p, s))

RECURSIVE Outermost(_, _, _)
Outermost(t, n, s) == IF t.kid[s][n] = 0 THEN n ELSE Outermost(t, t.kid[s][n], s)

\* A node with at most one child: the child takes its place.
Spliced(t, node) ==
    LET child == IF t.kid["left"][node] = 0 THEN t.kid["right"][node] ELSE t.kid["left"][node]
        p == t.parent[node]
    IN [tree |-> WithParent(InPlaceOf(t, p, node, child), child, p), child |-> child, parent |-> p, red |-> t.red[node]]

\* A node with two: its successor takes its place, and the successor's child the
\* place of the successor.  The child's parent is set to the successor's parent even
\* where that is the node itself, and stays so: it then points to the node erased.
Exchanged(t, node) ==
    LET heir == Outermost(t, t.kid["right"][node], "left")
        child == t.kid["right"][heir]
        p == t.parent[heir]
        near == p = node
        t1 == WithParent(t, child, p)
        t2 == IF near THEN t1 ELSE InPlaceOf(t1, p, heir, child)
        t3 == [InPlaceOf(t2, t2.parent[node], node, heir)
                  EXCEPT !.parent[heir] = t.parent[node], !.red[heir] = t.red[node],
                         !.kid["left"][heir] = t2.kid["left"][node],
                         !.kid["right"][heir] = IF near THEN child ELSE t2.kid["right"][node]]
        t4 == WithParent(t3, t3.kid["left"][node], heir)
    IN [tree |-> IF near THEN t4 ELSE WithParent(t4, t4.kid["right"][node], heir),
        child |-> child, parent |-> IF near THEN heir ELSE p, red |-> t.red[heir]]

\* Mutant: a red node and a black one are erased alike.
FixedNever(e, t) == t

FixedUp(e, t) == IF e.red THEN t ELSE rb_erase_fixup(t, e.child, e.parent)

rb_erase_augmented(t, node) ==
    LET e == IF \E s \in Sides : t.kid[s][node] = 0 THEN Spliced(t, node) ELSE Exchanged(t, node)
    IN FixedUp(e, propagate_gap_upward(e.tree, e.parent))

rb_first(t) == IF t.root = 0 THEN 0 ELSE Outermost(t, t.root, "left")
rb_last(t) == IF t.root = 0 THEN 0 ELSE Outermost(t, t.root, "right")

\* rb_next and rb_prev: the neighbour on side s.
RECURSIVE Ascend(_, _, _)
Ascend(t, n, s) == LET p == t.parent[n] IN IF p # 0 /\ t.kid[s][p] = n THEN Ascend(t, p, s) ELSE p
rb_step(t, n, s) == IF t.kid[s][n] # 0 THEN Outermost(t, t.kid[s][n], Opp(s)) ELSE Ascend(t, n, s)

-----------------------------------------------------------------------------
(* The areas.                                                               *)

RECURSIVE vma_find_from(_, _, _)
vma_find_from(t, n, addr) ==
    IF n = 0 \/ (n <= addr /\ addr < t.end[n]) THEN n
    ELSE vma_find_from(t, t.kid[IF addr < n THEN "left" ELSE "right"][n], addr)
vma_find(t, addr) == vma_find_from(t, t.root, addr)

\* The way down to the place of a new area: its parent there, the side, and the
\* last area that it passed on the left; or an area that it overlaps.
RECURSIVE Descent(_, _, _, _)
Descent(t, start, end, d) ==
    IF d.at = 0 \/ ~(end <= d.at \/ start >= t.end[d.at]) THEN d
    ELSE LET s == IF end <= d.at THEN "left" ELSE "right"
         IN Descent(t, start, end, [at |-> t.kid[s][d.at], parent |-> d.at, side |-> s,
                                    prev |-> IF s = "right" THEN d.at ELSE d.prev])
Place(t, start, end) == Descent(t, start, end, [at |-> t.root, parent |-> 0, side |-> "left", prev |-> 0])

rb_link_node(t, n, parent, s) ==
    LET fresh == [t EXCEPT !.parent[n] = parent, !.red[n] = TRUE, !.kid = [x \in Sides |-> [@[x] EXCEPT ![n] = 0]]]
    IN IF parent = 0 THEN [fresh EXCEPT !.root = n] ELSE [fresh EXCEPT !.kid[s][parent] = n]

\* Into the list, behind prev.
Listed(t, n, prev) ==
    LET next == IF prev = 0 THEN t.head ELSE t.next[prev]
        t1 == [t EXCEPT !.prev[n] = prev, !.next[n] = next]
        t2 == IF next = 0 THEN t1 ELSE [t1 EXCEPT !.prev[next] = n]
    IN IF prev = 0 THEN [t2 EXCEPT !.head = n] ELSE [t2 EXCEPT !.next[prev] = n]

GapsAround(t, n) ==
    propagate_gap_upward(IF t.prev[n] = 0 THEN t ELSE propagate_gap_upward(t, t.prev[n]), n)

Inserted(t, start, end) ==
    LET d == Place(t, start, end)
        linked == Listed(rb_link_node([t EXCEPT !.end[start] = end], start, d.parent, d.side), start, d.prev)
    IN IF d.at # 0 THEN t
       ELSE propagate_gap_upward(rb_insert_augmented(GapsAround(linked, start), start), start)

Removed(t, n) ==
    LET prev == t.prev[n]
        next == t.next[n]
        t1 == IF prev = 0 THEN [t EXCEPT !.head = next] ELSE [t EXCEPT !.next[prev] = next]
        t2 == IF next = 0 THEN t1 ELSE [t1 EXCEPT !.prev[next] = prev]
    IN propagate_gap_upward(rb_erase_augmented(t2, n), prev)

\* vma_destroy: what the freed area held does not matter any more.
Freed(t, n) ==
    [t EXCEPT !.end[n] = 0, !.gap[n] = 0, !.next[n] = 0, !.prev[n] = 0, !.parent[n] = 0, !.red[n] = FALSE,
              !.kid = [x \in Sides |-> [@[x] EXCEPT ![n] = 0]]]

vma_insert(start, end) ==
    /\ tree' = Inserted(tree, start, end)
    /\ areas' = IF \E a \in areas : a[1] < end /\ start < a[2] THEN areas ELSE areas \cup {<<start, end>>}

\* The right child of the node is its successor, and has a child.
LeavesStaleParent(n) ==
    LET right == tree.kid["right"][n]
    IN tree.kid["left"][n] # 0 /\ right # 0 /\ tree.kid["left"][right] = 0 /\ tree.kid["right"][right] # 0

vma_remove(a) ==
    /\ Careful => ~LeavesStaleParent(a[1])
    /\ tree' = Freed(Removed(tree, a[1]), a[1])
    /\ areas' = areas \ {a}

\* vma_split, and the right part inserted as its callers do.
vma_split(a, at) ==
    /\ a[1] < at /\ at < a[2]
    /\ tree' = Inserted(propagate_gap_upward([tree EXCEPT !.end[a[1]] = at], a[1]), at, a[2])
    /\ areas' = (areas \ {a}) \cup {<<a[1], at>>, <<at, a[2]>>}

vma_merge_adjacent(a, b) ==
    /\ a[2] = b[1]
    /\ Careful => ~LeavesStaleParent(b[1])
    /\ tree' = propagate_gap_upward(Freed(Removed([tree EXCEPT !.end[a[1]] = b[2]], b[1]), b[1]), a[1])
    /\ areas' = (areas \ {a, b}) \cup {<<a[1], b[2]>>}

Next ==
    \/ \E start \in Pages, len \in 1..MAX_LEN :
          Cardinality(areas) < MAX_AREAS /\ start + len - 1 \in Pages /\ vma_insert(start, start + len)
    \/ \E a \in areas : vma_remove(a)
    \/ \E a \in areas, at \in Pages : Cardinality(areas) < MAX_AREAS /\ vma_split(a, at)
    \/ \E a, b \in areas : a[2] - a[1] + b[2] - b[1] <= MAX_LEN /\ vma_merge_adjacent(a, b)

Spec == Init /\ [][Next]_vars

-----------------------------------------------------------------------------

\* The nodes below n, and the black nodes on the way down to each leaf below it.
RECURSIVE Below(_)
Below(n) == IF n = 0 THEN {} ELSE {n} \cup UNION {Below(tree.kid[s][n]) : s \in Sides}
RECURSIVE Heights(_)
Heights(n) ==
    IF n = 0 THEN {0}
    ELSE {h + (IF tree.red[n] THEN 0 ELSE 1) : h \in UNION {Heights(tree.kid[s][n]) : s \in Sides}}

\* rb_verify.
RedBlack ==
    /\ ~IsRed(tree, tree.root)
    /\ Cardinality(Heights(tree.root)) = 1
    /\ \A n \in Below(tree.root), s \in Sides : tree.red[n] => ~IsRed(tree, tree.kid[s][n])

Starts == {a[1] : a \in areas}
Neighbour(n, s) ==
    LET there == {m \in Starts : IF s = "right" THEN m > n ELSE m < n}
    IN IF there = {} THEN 0 ELSE IF s = "right" THEN Min(there) ELSE Max(there)

\* The tree and the list hold exactly the areas, in order: the walks along both,
\* forwards and backwards, and the search for a page find what they should.
Indexed ==
    /\ Below(tree.root) = Starts
    /\ \A a \in areas : tree.end[a[1]] = a[2]
    /\ tree.head = rb_first(tree) /\ rb_first(tree) = (IF areas = {} THEN 0 ELSE Min(Starts))
    /\ rb_last(tree) = (IF areas = {} THEN 0 ELSE Max(Starts))
    /\ \A n \in Starts :
          /\ rb_step(tree, n, "right") = Neighbour(n, "right") /\ tree.next[n] = Neighbour(n, "right")
          /\ rb_step(tree, n, "left") = Neighbour(n, "left") /\ tree.prev[n] = Neighbour(n, "left")
    /\ \A v \in Pages : {a[1] : a \in {x \in areas : x[1] <= v /\ v < x[2]}} = {vma_find(tree, v)} \ {0}

\* rb_subtree_max_gap is the largest gap behind an area of the subtree.
GapsExact ==
    \A n \in Starts : tree.gap[n] = Max({node_gap_to_next(tree, m) : m \in Below(n)})

\* After every insertion, removal, split and merge the tree is a red-black tree of
\* exactly the areas of the space, the list agrees with it, and the gap that each
\* rotation and each change of a neighbour should have brought up to date is.
AreasIndexed == RedBlack /\ Indexed /\ GapsExact
=============================================================================
