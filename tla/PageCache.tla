------------------------------ MODULE PageCache ------------------------------
(***************************************************************************)
(* The page cache of one file (mem/pagecache.c): threads look pages up and *)
(* add them while others truncate the file or write its dirty pages back.  *)
(* tree_lock and lru_lock are spinlocks held over a few statements: a      *)
(* section under one of them is one step.  A page is locked over many.     *)
(* The first page of the file, which nobody changes, is in the tree        *)
(* already: it has a node, so that pages can be inserted and tags set      *)
(* (RadixTree shows what happens while it has none).                       *)
(***************************************************************************)
EXTENDS Integers, Sequences, SequencesExt, FiniteSets

CONSTANTS
    Threads, Indexes,   \* the pages of the file that are used, 0 not among them
    Pages,              \* frames the allocator may hand out
    GANG,               \* pages of one gang lookup (16)
    Starts,             \* what the file is truncated to: <<first whole page, slack>>
    MAXCALLS,           \* bound: calls made
    NONE

VARIABLES
    page_tree,          \* index -> page
    dirty_tag,          \* indexes with RADIX_TREE_TAG_DIRTY
    page,               \* page -> [refcount, locked, dirty, index]
    lru,                \* pages on the inactive list
    g_dirty_pages_count,
    i_rwsem,            \* the thread that truncates
    at,                 \* where each thread is
    calls               \* how many calls were made

vars == <<page_tree, dirty_tag, page, lru, g_dirty_pages_count, i_rwsem, at, calls>>
cache == <<page_tree, dirty_tag, lru, g_dirty_pages_count, i_rwsem>>

Unused == [refcount |-> 0, locked |-> NONE, dirty |-> FALSE, index |-> NONE]
Rest == [pc |-> "rest", index |-> NONE, page |-> NONE, batch |-> <<>>, next |-> 0]

Goto(t, pc) == at' = [at EXCEPT ![t].pc = pc]
Ends(t) == at' = [at EXCEPT ![t] = Rest]
Keeps(t, p) == at' = [at EXCEPT ![t] = [Rest EXCEPT !.pc = "holds", !.page = p]]

\* Mutant: a page is freed with the first reference that is dropped.
FreesAtOnce(f, p) == [f EXCEPT ![p] = Unused]

\* pmm_free_page: one reference less; the frame is free with the last one.
pmm_free_page(f, p) == IF f[p].refcount = 1 THEN [f EXCEPT ![p] = Unused]
                       ELSE [f EXCEPT ![p].refcount = @ - 1]

(***************************************************************************)
(* pagecache_get_page.                                                     *)
(***************************************************************************)
Calls(t, pc, i) ==
    /\ at[t] = Rest /\ calls < MAXCALLS
    /\ calls' = calls + 1
    /\ at' = [at EXCEPT ![t] = [Rest EXCEPT !.pc = pc, !.index = i]]
    /\ UNCHANGED <<cache, page>>

\* Looked up a first time, or again after another thread was faster.
pagecache_find_page(t) ==
    LET p == page_tree[at[t].index]
    IN  /\ at[t].pc \in {"get", "again"}
        /\ IF p # NONE
           THEN /\ page' = [page EXCEPT ![p].refcount = @ + 1]
                /\ at' = [at EXCEPT ![t].pc = "wait", ![t].page = p]
           ELSE /\ page' = page
                /\ IF at[t].pc = "get" THEN Goto(t, "alloc") ELSE Ends(t)
        /\ UNCHANGED <<cache, calls>>

page_wait_locked(t) ==
    /\ at[t].pc = "wait" /\ page[at[t].page].locked = NONE
    /\ Keeps(t, at[t].page)
    /\ UNCHANGED <<cache, page, calls>>

\* A fresh page is locked before anyone can see it.
Allocates(t) ==
    /\ at[t].pc = "alloc"
    /\ \/ \E p \in {q \in Pages : page[q] = Unused} :
             /\ page' = [page EXCEPT ![p] = [Unused EXCEPT !.refcount = 1, !.locked = t]]
             /\ at' = [at EXCEPT ![t].pc = "add", ![t].page = p]
       \/ (\A q \in Pages : page[q] # Unused) /\ Ends(t) /\ UNCHANGED page
    /\ UNCHANGED <<cache, calls>>

\* Mutant: a page that another thread added meanwhile is overwritten.
AddsOverOther(t) ==
    LET p == at[t].page
        i == at[t].index
    IN  /\ at[t].pc = "add"
        /\ page_tree' = [page_tree EXCEPT ![i] = p]
        /\ page' = [page EXCEPT ![p].refcount = @ + 1, ![p].index = i]
        /\ Goto(t, "lru")
        /\ UNCHANGED <<dirty_tag, lru, g_dirty_pages_count, i_rwsem, calls>>

pagecache_add_page(t) ==
    LET p == at[t].page
        i == at[t].index
    IN  /\ at[t].pc = "add"
        /\ IF page_tree[i] = NONE
           THEN /\ page_tree' = [page_tree EXCEPT ![i] = p]
                /\ page' = [page EXCEPT ![p].refcount = @ + 1, ![p].index = i]
                /\ Goto(t, "lru")
           ELSE /\ page' = pmm_free_page([page EXCEPT ![p].locked = NONE], p)
                /\ at' = [at EXCEPT ![t].pc = "again", ![t].page = NONE]
                /\ UNCHANGED page_tree
        /\ UNCHANGED <<dirty_tag, lru, g_dirty_pages_count, i_rwsem, calls>>

lru_add_inactive(t) ==
    /\ at[t].pc = "lru"
    /\ lru' = lru \cup {at[t].page}
    /\ Goto(t, "read")
    /\ UNCHANGED <<page_tree, dirty_tag, page, g_dirty_pages_count, i_rwsem, calls>>

\* read_page (tmpfs: nothing to read), then page_unlock.
ReadsAndUnlocks(t) ==
    /\ at[t].pc = "read"
    /\ page' = [page EXCEPT ![at[t].page].locked = NONE]
    /\ Keeps(t, at[t].page)
    /\ UNCHANGED <<cache, calls>>

Releases(t) ==
    /\ at[t].pc = "holds"
    /\ page' = pmm_free_page(page, at[t].page)
    /\ Ends(t)
    /\ UNCHANGED <<cache, calls>>

(***************************************************************************)
(* Gang lookups: up to GANG pages from an index on, each referenced.       *)
(***************************************************************************)
Gang(from, tagged) ==
    LET in == {i \in Indexes : /\ i >= from /\ page_tree[i] # NONE
                               /\ tagged => i \in dirty_tag}
        sorted == SetToSortSeq(in, <)
    IN  SubSeq(sorted, 1, IF Len(sorted) < GANG THEN Len(sorted) ELSE GANG)

TakesGang(t, tagged, empty, then) ==
    LET found == Gang(at[t].next, tagged)
        ps    == {page_tree[found[i]] : i \in DOMAIN found}
    IN  /\ IF found = <<>> THEN Goto(t, empty)
           ELSE at' = [at EXCEPT ![t].pc = then, ![t].next = found[Len(found)] + 1,
                           ![t].batch = [i \in DOMAIN found |-> page_tree[found[i]]]]
        /\ page' = [p \in Pages |-> IF p \in ps THEN [page[p] EXCEPT !.refcount = @ + 1]
                                    ELSE page[p]]

page_lock(t, from, to) ==
    LET p == Head(at[t].batch)
    IN  /\ at[t].pc = from /\ at[t].batch # <<>>
        /\ page[p].locked = NONE
        /\ page' = [page EXCEPT ![p].locked = t]
        /\ at' = [at EXCEPT ![t].pc = to, ![t].page = p]
        /\ UNCHANGED <<cache, calls>>

\* The flag and the count go first, the tag after them under tree_lock.
ClearsFlag(t, from, to) ==
    LET p == at[t].page
    IN  /\ at[t].pc = from /\ page[p].dirty
        /\ page' = [page EXCEPT ![p].dirty = FALSE]
        /\ g_dirty_pages_count' = g_dirty_pages_count - 1
        /\ Goto(t, to)
        /\ UNCHANGED <<page_tree, dirty_tag, lru, i_rwsem, calls>>

ClearsTag(t, from, to) ==
    /\ at[t].pc = from
    /\ dirty_tag' = dirty_tag \ {page[at[t].page].index}
    /\ Goto(t, to)
    /\ UNCHANGED <<page_tree, page, lru, g_dirty_pages_count, i_rwsem, calls>>

SetsFlag(t, from, tag, skip) ==
    LET p == at[t].page
    IN  /\ at[t].pc = from
        /\ page' = [page EXCEPT ![p].dirty = page[p].index # NONE]
        /\ IF page[p].index # NONE /\ ~page[p].dirty
           THEN g_dirty_pages_count' = g_dirty_pages_count + 1 /\ Goto(t, tag)
           ELSE g_dirty_pages_count' = g_dirty_pages_count /\ Goto(t, skip)
        /\ UNCHANGED <<page_tree, dirty_tag, lru, i_rwsem, calls>>

SetsTag(t, from, to) ==
    /\ at[t].pc = from
    /\ dirty_tag' = dirty_tag \cup {page[at[t].page].index}
    /\ Goto(t, to)
    /\ UNCHANGED <<page_tree, page, lru, g_dirty_pages_count, i_rwsem, calls>>

UnlocksAndFrees(t, from, to) ==
    LET p == at[t].page
    IN  /\ at[t].pc = from
        /\ page' = pmm_free_page([page EXCEPT ![p].locked = NONE], p)
        /\ at' = [at EXCEPT ![t].pc = to, ![t].batch = Tail(@), ![t].page = NONE]
        /\ UNCHANGED <<cache, calls>>

(***************************************************************************)
(* pagecache_truncate_range, under i_rwsem.                                *)
(***************************************************************************)
Truncates(t, s) ==
    LET p == IF s[2] THEN page_tree[s[1] - 1] ELSE NONE      \* the partial page
    IN  /\ at[t].pc = "truncate" /\ i_rwsem = NONE
        /\ i_rwsem' = t
        /\ page' = IF p = NONE THEN page ELSE [page EXCEPT ![p].refcount = @ + 1]
        /\ at' = [at EXCEPT ![t].pc = IF p = NONE THEN "gang" ELSE "partial",
                            ![t].batch = IF p = NONE THEN <<>> ELSE <<p>>, ![t].next = s[1]]
        /\ UNCHANGED <<page_tree, dirty_tag, lru, g_dirty_pages_count, calls>>

PartialPage(t) ==
    \/ page_lock(t, "partial", "zero")
    \/ SetsFlag(t, "zero", "zerotag", "zeroed")
    \/ SetsTag(t, "zerotag", "zeroed")
    \/ UnlocksAndFrees(t, "zeroed", "gang")

TruncateGang(t) ==
    /\ at[t].pc = "gang" /\ at[t].batch = <<>>
    /\ TakesGang(t, FALSE, "truncated", "lock")
    /\ UNCHANGED <<cache, calls>>

pagecache_remove_page(t) ==
    LET p == at[t].page
    IN  \/ ClearsFlag(t, "remove", "removetag")
        \/ ClearsTag(t, "removetag", "unlist")
        \/ /\ at[t].pc = "unlist" \/ (at[t].pc = "remove" /\ ~page[p].dirty)
           /\ lru' = lru \ {p}
           /\ Goto(t, "delete")
           /\ UNCHANGED <<page_tree, dirty_tag, page, g_dirty_pages_count, i_rwsem, calls>>
        \/ /\ at[t].pc = "delete"
           /\ page_tree' = [page_tree EXCEPT ![page[p].index] = NONE]
           /\ page' = pmm_free_page([page EXCEPT ![p].index = NONE], p)
           /\ Goto(t, "removed")
           /\ UNCHANGED <<dirty_tag, lru, g_dirty_pages_count, i_rwsem, calls>>

TruncatePage(t) ==
    \/ page_lock(t, "lock", "remove")
    \/ pagecache_remove_page(t)
    \/ UnlocksAndFrees(t, "removed", "lock")
    \/ at[t].pc = "lock" /\ at[t].batch = <<>> /\ Goto(t, "gang") /\ UNCHANGED <<cache, page, calls>>

TruncateEnds(t) ==
    /\ at[t].pc = "truncated"
    /\ i_rwsem' = NONE
    /\ Ends(t)
    /\ UNCHANGED <<page_tree, dirty_tag, page, lru, g_dirty_pages_count, calls>>

(***************************************************************************)
(* pagecache_sync_mapping.                                                 *)
(***************************************************************************)
SyncGang(t) ==
    /\ at[t].pc = "sync" /\ at[t].batch = <<>>
    /\ TakesGang(t, TRUE, "synced", "sync")
    /\ UNCHANGED <<cache, calls>>

\* write_page succeeds, or fails and the page is dirty again.
SyncPage(t) ==
    \/ page_lock(t, "sync", "clean")
    \/ ClearsFlag(t, "clean", "cleantag")
    \/ at[t].pc = "clean" /\ ~page[at[t].page].dirty /\ Goto(t, "written") /\ UNCHANGED <<cache, page, calls>>
    \/ ClearsTag(t, "cleantag", "write")
    \/ at[t].pc = "write" /\ Goto(t, "written") /\ UNCHANGED <<cache, page, calls>>
    \/ SetsFlag(t, "write", "dirtytag", "written")
    \/ SetsTag(t, "dirtytag", "written")
    \/ UnlocksAndFrees(t, "written", "sync")

SyncEnds(t) == at[t].pc = "synced" /\ Ends(t) /\ UNCHANGED <<cache, page, calls>>

----------------------------------------------------------------------------
Init ==
    /\ page_tree = [i \in Indexes |-> NONE]
    /\ dirty_tag = {}
    /\ page = [p \in Pages |-> Unused]
    /\ lru = {}
    /\ g_dirty_pages_count = 0
    /\ i_rwsem = NONE
    /\ at = [t \in Threads |-> Rest]
    /\ calls = 0

Next ==
    \E t \in Threads :
        \/ \E i \in Indexes : Calls(t, "get", i)
        \/ \E pc \in {"truncate", "sync"} : Calls(t, pc, NONE)
        \/ pagecache_find_page(t) \/ page_wait_locked(t) \/ Allocates(t)
        \/ pagecache_add_page(t) \/ lru_add_inactive(t) \/ ReadsAndUnlocks(t) \/ Releases(t)
        \/ \E s \in Starts : Truncates(t, s)
        \/ PartialPage(t) \/ TruncateGang(t) \/ TruncatePage(t) \/ TruncateEnds(t)
        \/ SyncGang(t) \/ SyncPage(t) \/ SyncEnds(t)

Spec == Init /\ [][Next]_vars

----------------------------------------------------------------------------
Cached == {page_tree[i] : i \in Indexes} \ {NONE}
\* The references thread t has on page p.
Refs(t, p) ==
    IF at[t].pc \in {"wait", "add", "lru", "read", "holds"}
    THEN (IF at[t].page = p THEN 1 ELSE 0)
    ELSE Cardinality({i \in DOMAIN at[t].batch : at[t].batch[i] = p})

\* Lookups, races to add the same page, truncations and write-backs leave each
\* index with one page, and each page with as many references as the cache and
\* the threads hold: none is freed while used, none stays behind.
PagesAccounted ==
    /\ \A i, j \in Indexes : page_tree[i] # NONE /\ page_tree[i] = page_tree[j] => i = j
    /\ \A p \in Pages :
          page[p].refcount = (IF p \in Cached THEN 1 ELSE 0)
                             + Cardinality({t \in Threads : Refs(t, p) > 0})

\* In a tree that has a node, a page nobody has locked is tagged dirty exactly when
\* it is flagged dirty, so that pagecache_sync_mapping finds it, is on the list of
\* the inactive pages exactly when it is cached, and the count is that of the dirty
\* pages.
DirtyTagged ==
    /\ \A i \in Indexes :
          LET p == page_tree[i]
          IN  (p = NONE \/ page[p].locked = NONE) =>
                  (i \in dirty_tag <=> p # NONE /\ page[p].dirty)
    /\ \A p \in Pages : page[p].locked = NONE => (p \in lru <=> p \in Cached)
    /\ g_dirty_pages_count = Cardinality({p \in Pages : page[p].dirty})
============================================================================
