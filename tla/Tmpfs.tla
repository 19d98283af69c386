------------------------------- MODULE Tmpfs -------------------------------
(***************************************************************************)
(* The memory filesystem (fs/tmpfs.c): inodes in lists of children, and    *)
(* the bytes of a file in the pages of its mapping.  What a user expects   *)
(* of it is kept beside it: the variable expected maps each path to the    *)
(* bytes of a file or to ISDIR.                                            *)
(***************************************************************************)
EXTENDS Integers, Sequences, SequencesExt, FiniteSets

CONSTANTS
    Inodes,            \* tmpfs_inode_t structures; 0 is tmpfs_root
    Paths,             \* the paths used: non-empty sequences of names
    Handles, Modes,
    PAGE,              \* bytes of a page (4096)
    Lens, Offsets,     \* arguments of write and seek
    MAXSIZE, MAXOPS,   \* bounds: size of a file, operations made
    Careful,           \* whether open files stay linked, directories never move
                       \* below themselves, and only directories get children
    NONE

VARIABLES
    inode,             \* id -> [name, is_dir, parent, size, pages], or NONE
    children,          \* id -> list of ids, the newest first
    handle,            \* tmpfs_file_handle_t: [inode, position, mode], or NONE
    expected, exact,   \* history: the tree wanted; whether the last read was right
    ops

vars == <<inode, children, handle, expected, exact, ops>>

ISDIR == <<-1>>
Root == 0
Empty == [i \in {} |-> <<>>]
Blank == [o \in 0..(PAGE - 1) |-> 0]
Lesser(a, b) == IF a < b THEN a ELSE b

tmpfs_alloc_inode(name, dir, parent) ==
    [name |-> name, is_dir |-> dir, parent |-> parent, size |-> 0, pages |-> Empty]

(***************************************************************************)
(* Looking up and creating.  A state of the tree is [inode, children].     *)
(***************************************************************************)
Now == [inode |-> inode, children |-> children]
FreeInode(s) == CHOOSE i \in Inodes : s.inode[i] = NONE
HasFree(s, n) == Cardinality({i \in Inodes : s.inode[i] = NONE}) >= n

tmpfs_find_child(s, dir, name) ==
    LET at == SelectInSeq(s.children[dir], LAMBDA c : s.inode[c].name = name)
    IN  IF ~s.inode[dir].is_dir \/ at = 0 THEN NONE ELSE s.children[dir][at]

\* Mutant: the new child replaces the list of its siblings.
AddsLast(s, dir, c, node) ==
    [inode    |-> [s.inode EXCEPT ![c] = node],
     children |-> [s.children EXCEPT ![dir] = <<c>>]]

tmpfs_add_child(s, dir, c, node) ==
    [inode    |-> [s.inode EXCEPT ![c] = node],
     children |-> [s.children EXCEPT ![dir] = <<c>> \o @]]

\* The inode a path leads to and the tree, in which what was missing on the
\* way has been created when "create" says so.
RECURSIVE Walk(_, _, _, _, _)
Walk(s, cur, path, create, leafdir) ==
    IF path = <<>> THEN [s |-> s, at |-> cur]
    ELSE LET next == tmpfs_find_child(s, cur, Head(path))
             last == Len(path) = 1
             made == FreeInode(s)
         IN  IF next # NONE THEN Walk(s, next, Tail(path), create, leafdir)
             ELSE IF ~create THEN [s |-> s, at |-> NONE]
             ELSE Walk(tmpfs_add_child(s, cur, made,
                           tmpfs_alloc_inode(Head(path), ~last \/ leafdir, cur)),
                       made, Tail(path), create, leafdir)

tmpfs_lookup(path) == Walk(Now, Root, path, FALSE, FALSE).at

Unlinked(s, i) ==
    [inode    |-> s.inode,
     children |-> [s.children EXCEPT ![s.inode[i].parent] = SelectSeq(@, LAMBDA c : c # i)]]

Freed(s, i) ==
    [inode    |-> [s.inode EXCEPT ![i] = NONE],
     children |-> [s.children EXCEPT ![i] = <<>>]]

Becomes(s) == inode' = s.inode /\ children' = s.children
Open(i) == \E h \in Handles : handle[h] # NONE /\ handle[h].inode = i

\* The ancestors of a path, and the paths below it.
Above(p) == {SubSeq(p, 1, n) : n \in 1..(Len(p) - 1)}
Below(p) == {q \in DOMAIN expected : IsStrictPrefix(p, q)}
OnlyDirs(p) == \A q \in Above(p) : q \in DOMAIN expected => expected[q] = ISDIR
Domain(f, S) == [x \in S |-> f[x]]
With(p, value) ==      \* the tree wanted once p is created, its ancestors too
    [q \in DOMAIN expected \cup Above(p) \cup {p} |->
        IF q \in DOMAIN expected THEN expected[q] ELSE IF q = p THEN value ELSE ISDIR]

Does == ops < MAXOPS /\ ops' = ops + 1

(***************************************************************************)
(* Files.                                                                  *)
(***************************************************************************)
\* Mutant: the pages of the file are kept.
TruncatedSize(s, i) == [s EXCEPT !.inode[i].size = 0]

\* pagecache_truncate_range(0): the pages go; size = 0.
Truncated(s, i) == [s EXCEPT !.inode[i].pages = Empty, !.inode[i].size = 0]

tmpfs_vfs_open(h, p, mode) ==
    LET w == Walk(Now, Root, p, mode # "r", FALSE)
        i == w.at
        s == IF mode = "w" THEN Truncated(w.s, i) ELSE w.s
        node == s.inode[i]
    IN  /\ Does /\ handle[h] = NONE
        /\ mode # "r" => HasFree(Now, Len(p))
        /\ Careful => OnlyDirs(p)
        /\ i # NONE
        /\ mode # "r" => ~w.s.inode[i].is_dir
        /\ Becomes(s)
        /\ handle' = [handle EXCEPT ![h] =
               [inode |-> i, position |-> IF mode = "a" THEN node.size ELSE 0, mode |-> mode]]
        /\ expected' = IF mode = "w" THEN [With(p, <<>>) EXCEPT ![p] = <<>>]
                       ELSE IF mode = "a" THEN With(p, <<>>) ELSE expected
        /\ UNCHANGED exact

tmpfs_vfs_close(h) ==
    /\ handle[h] # NONE
    /\ handle' = [handle EXCEPT ![h] = NONE]
    /\ UNCHANGED <<inode, children, expected, exact, ops>>

Byte(i, at) == LET k == at \div PAGE
               IN  IF k \in DOMAIN inode[i].pages THEN inode[i].pages[k][at % PAGE] ELSE 0

\* The paths that should lead to inode i.
RECURSIVE PathOf(_)
PathOf(i) == IF i = Root THEN <<>> ELSE Append(PathOf(inode[i].parent), inode[i].name)

\* A page that is read and missing is made, empty.
tmpfs_vfs_read(h, n) ==
    LET i   == handle[h].inode
        pos == handle[h].position
        len == IF pos >= inode[i].size THEN 0 ELSE Lesser(n, inode[i].size - pos)
        got == [k \in 1..len |-> Byte(i, pos + k - 1)]
        ks  == {(pos + k - 1) \div PAGE : k \in 1..len}
        want == expected[PathOf(i)]
    IN  /\ Does /\ handle[h] # NONE /\ inode[i] # NONE /\ ~inode[i].is_dir
        /\ inode' = [inode EXCEPT ![i].pages = [k \in DOMAIN @ \cup ks |->
                         IF k \in DOMAIN @ THEN @[k] ELSE Blank]]
        /\ handle' = [handle EXCEPT ![h].position = @ + len]
        /\ exact' = (got = SubSeq(want, pos + 1, Lesser(pos + n, Len(want))))
        /\ UNCHANGED <<children, expected>>

\* The bytes expected once n bytes "b" were put at pos: a gap reads as zeros.
Spliced(old, pos, n, b) ==
    [k \in 1..(IF pos + n > Len(old) THEN pos + n ELSE Len(old)) |->
        IF k \in (pos + 1)..(pos + n) THEN b ELSE IF k <= Len(old) THEN old[k] ELSE 0]

tmpfs_vfs_write(h, n) ==
    LET i   == handle[h].inode
        pos == handle[h].position
        ks  == {(pos + k) \div PAGE : k \in 0..(n - 1)}
        old(k) == IF k \in DOMAIN inode[i].pages THEN inode[i].pages[k] ELSE Blank
        new(k) == [o \in 0..(PAGE - 1) |->
                      IF k * PAGE + o \in pos..(pos + n - 1) THEN h ELSE old(k)[o]]
    IN  /\ Does /\ handle[h] # NONE /\ inode[i] # NONE /\ ~inode[i].is_dir
        /\ pos + n <= MAXSIZE
        /\ inode' = [inode EXCEPT
               ![i].pages = [k \in DOMAIN @ \cup ks |-> IF k \in ks THEN new(k) ELSE @[k]],
               ![i].size  = IF pos + n > @ THEN pos + n ELSE @]
        /\ handle' = [handle EXCEPT ![h].position = pos + n]
        /\ expected' = [expected EXCEPT ![PathOf(i)] = Spliced(@, pos, n, h)]
        /\ UNCHANGED <<children, exact>>

tmpfs_vfs_seek(h, to) ==
    /\ Does /\ handle[h] # NONE
    /\ handle' = [handle EXCEPT ![h].position = to]
    /\ UNCHANGED <<inode, children, expected, exact>>

(***************************************************************************)
(* The tree.                                                               *)
(***************************************************************************)
tmpfs_vfs_mkdir(p) ==
    /\ Does /\ HasFree(Now, Len(p))
    /\ Careful => OnlyDirs(p)
    /\ Becomes(Walk(Now, Root, p, TRUE, TRUE).s)
    /\ expected' = With(p, ISDIR)
    /\ UNCHANGED <<handle, exact>>

\* Mutant: a directory is removed with what it holds.
RmdirFull(p) ==
    LET i == tmpfs_lookup(p)
    IN  /\ Does /\ i # NONE
        /\ inode[i].is_dir
        /\ Careful => ~Open(i)
        /\ Becomes(Freed(Unlinked(Now, i), i))
        /\ expected' = Domain(expected, DOMAIN expected \ {p})
        /\ UNCHANGED <<handle, exact>>

tmpfs_vfs_rmdir(p) ==
    LET i == tmpfs_lookup(p)
    IN  /\ Does /\ i # NONE
        /\ inode[i].is_dir /\ children[i] = <<>>
        /\ Careful => ~Open(i)
        /\ Becomes(Freed(Unlinked(Now, i), i))
        /\ expected' = Domain(expected, DOMAIN expected \ {p})
        /\ UNCHANGED <<handle, exact>>

tmpfs_vfs_unlink(p) ==
    LET i == tmpfs_lookup(p)
    IN  /\ Does /\ i # NONE
        /\ ~inode[i].is_dir
        /\ Careful => ~Open(i)
        /\ Becomes(Freed(Unlinked(Now, i), i))
        /\ expected' = Domain(expected, DOMAIN expected \ {p})
        /\ UNCHANGED <<handle, exact>>

\* A file in the way of the new name is freed; the node changes its name and
\* its list.
Renamed(i, dir, name) ==
    LET old == tmpfs_find_child(Now, dir, name)
        s1  == IF old = NONE THEN Now ELSE Freed(Unlinked(Now, old), old)
        s2  == Unlinked(s1, i)
    IN  tmpfs_add_child(s2, dir, i, [s2.inode[i] EXCEPT !.name = name, !.parent = dir])

Moved(p, q) ==
    LET from(r) == p \o SubSeq(r, Len(q) + 1, Len(r))
        gone    == {p, q} \cup Below(p)
        come    == {q} \cup {q \o SubSeq(r, Len(p) + 1, Len(r)) : r \in Below(p)}
    IN  [r \in (DOMAIN expected \ gone) \cup come |->
            IF r \in come THEN expected[from(r)] ELSE expected[r]]

tmpfs_vfs_rename(p, q) ==
    LET i   == tmpfs_lookup(p)
        dir == tmpfs_lookup(Front(q))
        old == tmpfs_find_child(Now, dir, Last(q))
    IN  /\ Does /\ i # NONE
        /\ dir # NONE /\ inode[dir].is_dir
        /\ old # i
        /\ old # NONE => ~inode[old].is_dir
        /\ Careful => ~IsPrefix(p, q) /\ (old # NONE => ~Open(old))
        /\ Becomes(Renamed(i, dir, Last(q)))
        /\ expected' = Moved(p, q)
        /\ UNCHANGED <<handle, exact>>

----------------------------------------------------------------------------
\* tmpfs_init; tmpfs_destroy_all only runs on the way to another root.
Init ==
    /\ inode = [i \in Inodes \cup {Root} |->
                   IF i = Root THEN tmpfs_alloc_inode("", TRUE, NONE) ELSE NONE]
    /\ children = [i \in Inodes \cup {Root} |-> <<>>]
    /\ handle = [h \in Handles |-> NONE]
    /\ expected = Domain(<<>>, {})
    /\ exact = TRUE
    /\ ops = 0

Next ==
    \/ \E h \in Handles : \/ \E p \in Paths, m \in Modes : tmpfs_vfs_open(h, p, m)
                          \/ tmpfs_vfs_close(h)
                          \/ \E n \in Lens : tmpfs_vfs_read(h, n)
                          \/ \E n \in Lens : tmpfs_vfs_write(h, n)
                          \/ \E to \in Offsets : tmpfs_vfs_seek(h, to)
    \/ \E p \in Paths : tmpfs_vfs_mkdir(p) \/ tmpfs_vfs_rmdir(p) \/ tmpfs_vfs_unlink(p)
    \/ \E p, q \in Paths : tmpfs_vfs_rename(p, q)

Spec == Init /\ [][Next]_vars

----------------------------------------------------------------------------
\* The questions a process may ask about a path.
tmpfs_vfs_exists(p) == tmpfs_lookup(p) # NONE
tmpfs_vfs_is_dir(p) == tmpfs_lookup(p) # NONE /\ inode[tmpfs_lookup(p)].is_dir
tmpfs_vfs_get_size(p) == inode[tmpfs_lookup(p)].size
tmpfs_vfs_readdir(p) ==
    [k \in DOMAIN children[tmpfs_lookup(p)] |-> inode[children[tmpfs_lookup(p)][k]].name]

\* After any sequence of operations the tree is the one the calls describe:
\* each path leads to what was put there and to nothing else, a directory
\* lists each of its entries once, every open file is still linked, and a read
\* returns the bytes last written, zeros in the gaps a seek left.
TreeKept ==
    /\ exact
    /\ \A p \in Paths :
          /\ tmpfs_vfs_exists(p) <=> p \in DOMAIN expected
          /\ p \in DOMAIN expected =>
                /\ tmpfs_vfs_is_dir(p) <=> expected[p] = ISDIR
                /\ expected[p] # ISDIR => tmpfs_vfs_get_size(p) = Len(expected[p])
                /\ expected[p] = ISDIR =>
                      /\ IsInjective(tmpfs_vfs_readdir(p))
                      /\ ToSet(tmpfs_vfs_readdir(p)) =
                            {Last(q) : q \in {r \in Below(p) : Len(r) = Len(p) + 1}}
    /\ \A h \in Handles : handle[h] # NONE =>
          /\ inode[handle[h].inode] # NONE
          /\ tmpfs_lookup(PathOf(handle[h].inode)) = handle[h].inode
============================================================================
