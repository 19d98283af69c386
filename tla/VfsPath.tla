------------------------------ MODULE VfsPath ------------------------------
(***************************************************************************)
(* Paths as the characters they are (fs/vfs_path.c): vfs_normalize_path,   *)
(* which every system call that names a file begins with, the comparisons  *)
(* of the mount table, and vfs_get_parent_dir.  A process walks about with *)
(* chdir; where it should be is kept as a list of names.                   *)
(***************************************************************************)
EXTENDS Integers, Sequences, SequencesExt, FiniteSetsExt

CONSTANTS
    VFS_MAX_PATH,   \* bytes of a normalized path, the terminator included
    Arguments       \* the paths a process may name: sequences of characters

VARIABLES cwd,      \* proc->cwd
          place     \* the names from the root to it

vars == <<cwd, place>>

Dot == <<".">>
DotDot == <<".", ".">>

\* The components of a path: the longest runs without "/".
Components(p) ==
    LET inside == {i \in DOMAIN p : p[i] # "/"}
        ends   == {j \in inside : j = Len(p) \/ p[j + 1] = "/"}
        from(j) == Max({k \in 1..j : k = 1 \/ p[k - 1] = "/"})
    IN  [n \in 1..Cardinality(ends) |->
            LET j == CHOOSE e \in ends : Cardinality({d \in ends : d < e}) = n - 1
            IN  SubSeq(p, from(j), j)]

Slashed(out) == IF Last(out) # "/" /\ Len(out) < VFS_MAX_PATH - 1 THEN Append(out, "/") ELSE out

\* Mutant: nothing stops the ascent at the root.
AscendPastRoot(out) ==
    LET bare == IF Last(out) = "/" THEN Front(out) ELSE out
    IN  SubSeq(bare, 1, Max({0} \cup {i \in DOMAIN bare : bare[i] = "/"}))

\* One round of the loop over the components, on what was put out so far.
Ascend(out) ==
    LET bare == IF Last(out) = "/" THEN Front(out) ELSE out
    IN  IF Len(out) <= 1 THEN out
        ELSE SubSeq(bare, 1, Max({1} \cup {i \in DOMAIN bare : bare[i] = "/"}))

Descend(out, c) ==
    LET o == Slashed(out)
        n == IF Len(o) + Len(c) >= VFS_MAX_PATH THEN VFS_MAX_PATH - 1 - Len(o) ELSE Len(c)
    IN  o \o SubSeq(c, 1, n)

Component(out, c) == IF c = Dot THEN out ELSE IF c = DotDot THEN Ascend(out) ELSE Descend(out, c)

Base(dir, p) ==
    IF p[1] = "/" \/ dir = <<>> \/ dir[1] # "/" THEN <<"/">>
    ELSE Slashed(SubSeq(dir, 1, IF Len(dir) < VFS_MAX_PATH THEN Len(dir) ELSE VFS_MAX_PATH - 1))

Untrailed(out) == IF Len(out) > 1 /\ Last(out) = "/" THEN Front(out) ELSE out

Normalized(dir, p) == Untrailed(FoldLeft(Component, Base(dir, p), Components(p)))

vfs_normalize_path(dir, p) ==
    IF p # <<>> THEN Normalized(dir, p)
    ELSE IF dir # <<>> THEN Normalized(<<>>, dir) ELSE <<"/">>

\* Mutant: a path is a parent when its characters are a prefix.
ParentByCharacters(parent, child) == IsPrefix(parent, child)

vfs_path_is_parent(parent, child) ==
    /\ IsPrefix(parent, child)
    /\ \/ Len(child) = Len(parent)
       \/ child[Len(parent) + 1] = "/"
       \/ parent = <<"/">>

\* The test vfs_resolve_mount puts to each mount point, and the path it hands
\* to the filesystem.
Matches(mount, p) ==
    /\ IsPrefix(mount, p)
    /\ Len(p) = Len(mount) \/ p[Len(mount) + 1] = "/" \/ Len(mount) = 1

RelativePath(mount, p) ==
    IF Len(mount) = 1 THEN p
    ELSE IF Len(p) = Len(mount) THEN <<"/">> ELSE SubSeq(p, Len(mount) + 1, Len(p))

vfs_get_parent_dir(p) ==
    LET last == Max({i \in DOMAIN p : p[i] = "/"})
    IN  IF last <= 1 THEN <<"/">> ELSE SubSeq(p, 1, last - 1)

----------------------------------------------------------------------------
\* The meaning of a path: from a list of names to a list of names.
Go(names, c) == IF c = Dot THEN names
                ELSE IF c = DotDot THEN (IF names = <<>> THEN names ELSE Front(names))
                ELSE Append(names, c)
Meaning(names, p) ==
    FoldLeft(Go, IF p # <<>> /\ p[1] = "/" THEN <<>> ELSE names, Components(p))

Spelled(names) ==
    IF names = <<>> THEN <<"/">> ELSE FoldLeft(LAMBDA s, n : s \o <<"/">> \o n, <<>>, names)

\* A path whose every intermediate result has room; a longer one is cut.
Fits(p) == Len(cwd) + 1 + Len(p) < VFS_MAX_PATH

fs_cmd_chdir(p) ==
    /\ Fits(p)
    /\ cwd' = vfs_normalize_path(cwd, p)
    /\ place' = Meaning(place, p)

Init == cwd = <<"/">> /\ place = <<>>

Next == \E p \in Arguments : fs_cmd_chdir(p)

Spec == Init /\ [][Next]_vars

----------------------------------------------------------------------------
\* Along every walk the normalized path spells exactly the directory the
\* components mean: "." and ".." are resolved, the root has no parent, and one
\* directory has one spelling (mounts, permissions and deletions compare
\* spellings).  On such spellings the character tests are those on names.
PathsCanonical ==
    /\ cwd = Spelled(place)
    /\ \A p \in Arguments : Fits(p) =>
          LET q     == vfs_normalize_path(cwd, p)
              names == Meaning(place, p)
          IN  /\ q = Spelled(names)
              /\ vfs_path_is_parent(cwd, q) <=> IsPrefix(place, names)
              /\ Matches(cwd, q) <=> IsPrefix(place, names)
              /\ Matches(cwd, q) =>
                    Components(RelativePath(cwd, q)) =
                        SubSeq(names, Len(place) + 1, Len(names))
              /\ names # <<>> => vfs_get_parent_dir(q) = Spelled(Front(names))
============================================================================
