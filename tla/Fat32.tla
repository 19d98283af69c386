------------------------------- MODULE Fat32 -------------------------------
(***************************************************************************)
(* The FAT32 driver (fs/fat32.c) on one volume.  Every operation holds the *)
(* volume's lock from its first read to its last write, so operations take *)
(* their turns; but each of them is several writes to the disk, and the    *)
(* machine may stop between any two of them.  An operation therefore       *)
(* computes the writes it makes, in the order of the code, and Write_disk  *)
(* lets them reach the disk one by one.  A cluster is one sector of        *)
(* CLUSTER_SIZE units; a unit is a byte of a file or a directory entry.    *)
(***************************************************************************)
EXTENDS Integers, Sequences, SequencesExt

CONSTANTS
    FAT_ENTRIES,     \* entries of the allocation table
    CLUSTER_SIZE,
    Files, Dirs,     \* names that clients give to files and to directories
    LongNames,       \* the names that need a long-name entry
    Handles,
    Modes,           \* the modes that clients open files with
    Lens,            \* how much they read or write at once
    Offsets,         \* where they seek to
    MAXSIZE,         \* bound: the size of a file
    MAXCRASHES,      \* bound: how often the machine stops
    MAXOPS,          \* bound: how many operations there are
    Careful,         \* whether clients keep to the limits of the driver
    NONE

ROOT == 2
EOC == FAT_ENTRIES               \* end of a chain: above every cluster
Clusters == 2..(FAT_ENTRIES - 1)
Units == 0..(CLUSTER_SIZE - 1)

Paths == {<<f>> : f \in Files} \cup {<<d>> : d \in Dirs} \cup {<<d, f>> : d \in Dirs, f \in Files}

ZERO == [kind |-> "zero"]
DELETED == [kind |-> "deleted"]  \* first byte 0xE5
Byte(path, pos) == [kind |-> "byte", path |-> path, pos |-> pos]
LongName(name) == [kind |-> "lfn", name |-> name]
Entry(kind, name, start) == [kind |-> kind, name |-> name, start |-> start, size |-> 0]

VARIABLES
    fat,         \* the allocation table on the disk
    clusters,    \* the contents of the clusters on the disk
    last,        \* vol->last_allocated_cluster
    handle,      \* the open files
    todo,        \* the writes that the running operation has still to make
    running,     \* the path the running operation is about
    expected,    \* what each path holds: a sequence, "dir" or NONE
    damaged,     \* the paths whose operation a crash cut short
    exact,       \* whether the last read returned what the file holds
    crashes,
    ops          \* how many operations there were

disk == <<fat, clusters>>
vars == <<fat, clusters, last, handle, todo, running, expected, damaged, exact, crashes, ops>>

-----------------------------------------------------------------------------
(* The volume as an operation sees it, with the log of its writes.          *)

Volume == [fat |-> fat, clusters |-> clusters, last |-> last, log |-> <<>>]

fat32_set_fat_entry(v, c, value) ==
    [v EXCEPT !.fat[c] = value, !.log = Append(@, [to |-> "fat", at |-> c, value |-> value])]

fat32_write_cluster(v, c, units) ==
    [v EXCEPT !.clusters[c] = units, !.log = Append(@, [to |-> "cluster", at |-> c, value |-> units])]

fat32_next_cluster(v, c) ==
    IF c \notin Clusters \/ v.fat[c] \in {0, c} THEN EOC ELSE v.fat[c]

\* The clusters from c on, as every loop over a chain meets them.
RECURSIVE Follow(_, _, _)
Follow(v, c, n) ==
    IF c \notin Clusters \/ n = 0 THEN <<>> ELSE <<c>> \o Follow(v, fat32_next_cluster(v, c), n - 1)
Chain(v, c) == Follow(v, c, FAT_ENTRIES)

\* Mutant: the new cluster is not marked in the table until it is linked.
AllocatesUnmarked(v) ==
    LET free == {c \in Clusters \ {ROOT} : v.fat[c] = 0}
        new == CHOOSE c \in free : \A d \in free : c <= d
    IN IF free = {} THEN [v |-> v, c |-> 0] ELSE [v |-> [v EXCEPT !.last = new], c |-> new]

\* fat32_allocate_cluster: the first free cluster from the last one allocated
\* on, marked as the end of a chain; 0 when there is none.
fat32_allocate_cluster(v) ==
    LET first == IF v.last < 3 THEN 3 ELSE v.last
        free == {c \in Clusters : v.fat[c] = 0}
        after == {c \in free : c >= first}
        from == IF after # {} THEN after ELSE free
        new == CHOOSE c \in from : \A d \in from : c <= d
    IN IF free = {} THEN [v |-> v, c |-> 0]
       ELSE [v |-> [fat32_set_fat_entry(v, new, EOC) EXCEPT !.last = new], c |-> new]

LinkedAfter(c, new) ==
    IF new.c = 0 THEN new ELSE [v |-> fat32_set_fat_entry(new.v, c, new.c), c |-> new.c]

\* The cluster after c, a new one linked to it at the end of the chain.
Extend(v, c) ==
    IF fat32_next_cluster(v, c) # EOC THEN [v |-> v, c |-> fat32_next_cluster(v, c)]
    ELSE LinkedAfter(c, fat32_allocate_cluster(v))

fat32_free_cluster_chain(v, start) ==
    FoldLeft(LAMBDA w, c : fat32_set_fat_entry(w, c, 0), v, Chain(v, start))

-----------------------------------------------------------------------------
(* Directories.                                                             *)

Unit(v, slot) == v.clusters[slot[1]][slot[2]]

\* What a search reads of one cluster: it stops at the first unused entry.
Used(v, c) ==
    LET zeros == {i \in Units : v.clusters[c][i] = ZERO}
        n == IF zeros = {} THEN CLUSTER_SIZE ELSE CHOOSE i \in zeros : \A j \in zeros : i <= j
    IN [i \in 1..n |-> <<c, i - 1>>]

\* The entries that open and delete look at: the search of a cluster ends at
\* an unused entry and goes on with the next cluster.
UsedOf(v, chain) == FlattenSeq([k \in DOMAIN chain |-> Used(v, chain[k])])
Searched(v, dir) == UsedOf(v, Chain(v, dir))

\* fat32_resolve_entry_name: a long name that precedes the entry is its name.
NameAt(v, s, k) ==
    IF k > 1 /\ Unit(v, s[k - 1]).kind = "lfn" THEN Unit(v, s[k - 1]).name ELSE Unit(v, s[k]).name

NamedEntries(v, s, name) ==
    {k \in DOMAIN s : Unit(v, s[k]).kind \in {"file", "dir"} /\ NameAt(v, s, k) = name}

FirstOf(s, at) == IF at = {} THEN NONE ELSE s[CHOOSE k \in at : \A j \in at : k <= j]
Named(v, s, name) == FirstOf(s, NamedEntries(v, s, name))

\* The slot of a name in a directory.
Find(v, dir, name) == IF dir = NONE THEN NONE ELSE Named(v, Searched(v, dir), name)

\* The first cluster of the directory that holds a path's last component.
Subdirectory(v, slot) ==
    IF slot = NONE \/ Unit(v, slot).kind # "dir" THEN NONE ELSE Unit(v, slot).start

Parent(v, path) == IF Len(path) = 1 THEN ROOT ELSE Subdirectory(v, Find(v, ROOT, path[1]))

Resolve(v, path) == Find(v, Parent(v, path), path[Len(path)])

\* fat32_list_directory_vol ends at the first unused entry of the directory.
Listed(v, chain) ==
    LET full == {k \in DOMAIN chain : \A j \in 1..k : Len(Used(v, chain[j])) = CLUSTER_SIZE}
        seen == {k \in DOMAIN chain : k = 1 \/ k - 1 \in full}
    IN {slot \in UNION {ToSet(Used(v, chain[k])) : k \in seen} :
            Unit(v, slot).kind \in {"file", "dir"} /\ Unit(v, slot).name \notin {".", ".."}}

fat32_list_directory_vol(v, dir) == Listed(v, Chain(v, dir))

\* fat32_find_contiguous_free: n free entries in a row in one cluster of the
\* directory; when no cluster has them the directory grows by a zeroed one.
RECURSIVE FreeEntries(_, _, _)
InGrown(g, n) ==
    IF g.c = 0 THEN [v |-> g.v, c |-> 0, i |-> 0]
    ELSE FreeEntries(fat32_write_cluster(g.v, g.c, [i \in Units |-> ZERO]), g.c, n)
FreeEntries(v, c, n) ==
    LET fits == {i \in Units : \A j \in i..(i + n - 1) : j \in Units /\ v.clusters[c][j] \in {ZERO, DELETED}}
        next == fat32_next_cluster(v, c)
    IN CASE fits # {} -> [v |-> v, c |-> c, i |-> CHOOSE i \in fits : \A j \in fits : i <= j]
         [] fits = {} /\ next # EOC -> FreeEntries(v, next, n)
         [] OTHER -> InGrown(Extend(v, c), n)

EntryAt(at, kind, name, start, n) ==
    LET slot == <<at.c, at.i + n - 1>>
        units == [i \in Units |-> CASE i = slot[2] -> Entry(kind, name, start)
                                    [] n = 2 /\ i = at.i -> LongName(name)
                                    [] OTHER -> at.v.clusters[at.c][i]]
    IN IF at.c = 0 THEN [v |-> at.v, slot |-> NONE]
       ELSE [v |-> fat32_write_cluster(at.v, at.c, units), slot |-> slot]

\* fat32_create_entry: the entry after its long name, in one write; the slot
\* is NONE when the directory cannot grow.
Places(name) == IF name \in LongNames THEN 2 ELSE 1
fat32_create_entry(v, dir, kind, name, start) ==
    EntryAt(FreeEntries(v, dir, Places(name)), kind, name, start, Places(name))

\* fat32_update_dir_entry_size: the size, and the first cluster if there is one.
fat32_update_dir_entry_size(v, h) ==
    LET old == Unit(v, h.slot)
        new == IF old.kind # "file" THEN old
               ELSE [old EXCEPT !.size = h.size, !.start = IF h.start # 0 THEN h.start ELSE @]
    IN fat32_write_cluster(v, h.slot[1], [v.clusters[h.slot[1]] EXCEPT ![h.slot[2]] = new])

-----------------------------------------------------------------------------
(* Reading and writing through a handle.                                    *)

Smaller(a, b) == IF a < b THEN a ELSE b

\* The cluster that open for appending and seek walk to.
WalkAlong(chain, start, position) ==
    IF chain = <<>> THEN start ELSE chain[Smaller(position \div CLUSTER_SIZE + 1, Len(chain))]
WalkTo(v, start, position) == WalkAlong(Chain(v, start), start, position)

\* fat32_read_vol: the bytes and the handle after it.
RECURSIVE fat32_read_vol(_, _, _, _)
fat32_read_vol(v, h, n, out) ==
    LET off == h.position % CLUSTER_SIZE
        k == Smaller(n, Smaller(CLUSTER_SIZE - off, h.size - h.position))
        end == h.position + k
        next == IF end % CLUSTER_SIZE = 0 /\ end < h.size THEN fat32_next_cluster(v, h.cluster) ELSE h.cluster
    IN IF n = 0 \/ h.position >= h.size \/ h.cluster \notin Clusters THEN [h |-> h, out |-> out]
       ELSE fat32_read_vol(v, [h EXCEPT !.position = end, !.cluster = next], n - k,
                           out \o [i \in 1..k |-> v.clusters[h.cluster][off + i - 1]])

\* The clusters of one command of a write: consecutive ones, linked if need be.
RECURSIVE Consecutive(_, _, _)
After(next, c, n) ==
    IF next.c # c + 1 THEN [v |-> next.v, c |-> c] ELSE Consecutive(next.v, next.c, n - 1)
Consecutive(v, c, n) == IF n = 1 THEN [v |-> v, c |-> c] ELSE After(Extend(v, c), c, n)

WriteRun(run, h) ==
    LET cs == [k \in 1..(run.c - h.cluster + 1) |-> h.cluster + k - 1]
        units(c) == [i \in Units |-> Byte(h.path, h.position + (c - h.cluster) * CLUSTER_SIZE + i)]
    IN [v |-> FoldLeft(LAMBDA w, c : fat32_write_cluster(w, c, units(c)), run.v, cs),
        c |-> run.c, n |-> Len(cs) * CLUSTER_SIZE]

\* Whole clusters from the handle's on, in one command.
WriteWhole(v, h, n) == WriteRun(Consecutive(v, h.cluster, n \div CLUSTER_SIZE), h)

\* Part of a cluster: what it held is read first, unless nothing of it stays.
WritePart(v, h, n) ==
    LET off == h.position % CLUSTER_SIZE
        k == Smaller(n, CLUSTER_SIZE - off)
        keeps == off > 0 \/ (h.position < h.size /\ h.position + k < h.size)
        units == [i \in Units |-> CASE i \in off..(off + k - 1) -> Byte(h.path, h.position + i - off)
                                    [] i \notin off..(off + k - 1) /\ keeps -> v.clusters[h.cluster][i]
                                    [] OTHER -> ZERO]
    IN [v |-> fat32_write_cluster(v, h.cluster, units), c |-> h.cluster, n |-> k]

RECURSIVE WriteLoop(_, _, _)
Advance(put, h, n) ==
    LET end == h.position + put.n
    IN WriteLoop(put.v, [h EXCEPT !.position = end, !.cluster = put.c,
                                  !.size = IF end > @ THEN end ELSE @], n - put.n)
WriteAt(at, h, n) ==
    LET here == [h EXCEPT !.cluster = at.c]
    IN IF at.c = 0 THEN [v |-> at.v, h |-> h]
       ELSE Advance(IF h.position % CLUSTER_SIZE = 0 /\ n >= CLUSTER_SIZE
                    THEN WriteWhole(at.v, here, n) ELSE WritePart(at.v, here, n), here, n)
WriteLoop(v, h, n) ==
    IF n = 0 THEN [v |-> v, h |-> h]
    ELSE WriteAt(IF h.position % CLUSTER_SIZE = 0 /\ h.position > 0 THEN Extend(v, h.cluster)
                 ELSE [v |-> v, c |-> h.cluster], h, n)

WriteFrom(v, h, n) ==
    LET sized(done) == IF done.h.position = h.position THEN done
                       ELSE [done EXCEPT !.v = fat32_update_dir_entry_size(done.v, done.h)]
    IN sized(WriteLoop(v, h, n))

WriteFirst(new, h, n) ==
    LET h1 == [h EXCEPT !.start = new.c, !.cluster = new.c, !.position = 0, !.size = 0]
    IN IF new.c = 0 THEN [v |-> new.v, h |-> h]
       ELSE WriteFrom(fat32_update_dir_entry_size(new.v, h1), h1, n)

\* fat32_write_vol: the first cluster is entered into the directory before the
\* data is written, the size after it.
fat32_write_vol(v, h, n) ==
    IF h.cluster # 0 THEN WriteFrom(v, h, n) ELSE WriteFirst(fat32_allocate_cluster(v), h, n)

\* fat32_truncate: the chain is freed and the size set to 0; the handle's first
\* cluster is already 0, so that the entry keeps the old one.
fat32_truncate(v, h) ==
    LET h1 == [h EXCEPT !.start = 0, !.cluster = 0, !.size = 0, !.position = 0]
    IN IF h.start = 0 THEN [v |-> v, h |-> h]
       ELSE [v |-> fat32_update_dir_entry_size(fat32_free_cluster_chain(v, h.start), h1), h |-> h1]

-----------------------------------------------------------------------------
(* The operations.                                                          *)

\* An operation that makes the writes of v and is about a path.
Makes(v, path) ==
    /\ todo = <<>>
    /\ todo' = v.log
    /\ last' = v.last
    /\ running' = IF v.log = <<>> THEN NONE ELSE path
    /\ ops < MAXOPS
    /\ ops' = ops + 1
    /\ UNCHANGED <<fat, clusters, crashes>>

Holds(path, contents) ==
    /\ expected' = [expected EXCEPT ![path] = contents]
    /\ damaged' = damaged \ {path}

OpenPaths == {handle[h].path : h \in {g \in Handles : handle[g] # NONE}}

NewHandle(path, mode, slot, entry) ==
    [path |-> path, mode |-> mode, slot |-> slot, start |-> entry.start, cluster |-> entry.start,
     position |-> 0, size |-> entry.size]

\* fat32_open_vol of a file that is there: "w" truncates, "a" goes to the end.
OpenEntry(h, path, mode, slot) ==
    LET fh == NewHandle(path, mode, slot, Unit(Volume, slot))
        cut == fat32_truncate(Volume, fh)
    IN /\ handle[h] = NONE
       /\ slot # NONE /\ Unit(Volume, slot).kind = "file"
       /\ Careful => path \notin OpenPaths /\ (mode = "w" => fh.start = 0)
       /\ handle' = [handle EXCEPT ![h] = CASE mode = "w" -> cut.h
                          [] mode = "a" -> [fh EXCEPT !.position = fh.size,
                                                      !.cluster = WalkTo(Volume, fh.start, fh.size)]
                          [] OTHER -> fh]
       /\ Makes(IF mode = "w" THEN cut.v ELSE Volume, path)
       /\ IF mode = "w" THEN Holds(path, <<>>) ELSE UNCHANGED <<expected, damaged>>
       /\ UNCHANGED exact

OpenFile(h, path, mode) == OpenEntry(h, path, mode, Resolve(Volume, path))

\* fat32_open_vol of a missing file, for writing or appending.
Opens(made, h, path, mode) ==
    /\ Makes(made.v, path)
    /\ IF made.slot = NONE THEN UNCHANGED <<handle, expected, damaged>>
       ELSE /\ handle' = [handle EXCEPT ![h] =
                             NewHandle(path, mode, made.slot, Entry("file", path[Len(path)], 0))]
            /\ Holds(path, <<>>)
    /\ UNCHANGED exact

CreateFile(h, path, mode) ==
    /\ handle[h] = NONE
    /\ mode \in {"w", "a"}
    /\ Parent(Volume, path) # NONE
    /\ Resolve(Volume, path) = NONE
    /\ Careful => path \notin OpenPaths
    /\ Opens(fat32_create_entry(Volume, Parent(Volume, path), "file", path[Len(path)], 0), h, path, mode)

\* vfs_fat32_read takes the lock for each part of at most a cluster.
vfs_fat32_read(h, n) ==
    LET read == fat32_read_vol(Volume, handle[h], n, <<>>)
        from == handle[h].position
        path == handle[h].path
        all == IF expected[path] = NONE THEN <<>> ELSE expected[path]
    IN /\ handle[h] # NONE
       /\ n <= CLUSTER_SIZE
       /\ Careful => handle[h].mode = "r"
       /\ Makes(Volume, path)
       /\ handle' = [handle EXCEPT ![h] = read.h]
       /\ exact' = (path \in damaged \/ read.out = SubSeq(all, from + 1, Smaller(from + n, Len(all))))
       /\ UNCHANGED <<expected, damaged>>

\* What a file holds after n bytes at a position.
Overwritten(path, old, from, n) ==
    [i \in 1..(IF from + n > Len(old) THEN from + n ELSE Len(old)) |->
        IF i \in (from + 1)..(from + n) THEN Byte(path, i - 1) ELSE old[i]]

Writes(done, h) ==
    LET path == handle[h].path
        from == IF handle[h].cluster = 0 THEN 0 ELSE handle[h].position
    IN /\ Makes(done.v, path)
       /\ handle' = [handle EXCEPT ![h] = done.h]
       /\ expected' = IF expected[path] = NONE THEN expected
                      ELSE [expected EXCEPT ![path] = Overwritten(path, @, from, done.h.position - from)]
       /\ UNCHANGED <<damaged, exact>>

vfs_fat32_write(h, n) ==
    /\ handle[h] # NONE
    /\ handle[h].position + n <= MAXSIZE
    /\ Careful => handle[h].mode # "r"
    /\ Writes(fat32_write_vol(Volume, handle[h], n), h)

\* fat32_seek: the position is at most the size, and the cluster is the one
\* that holds it; before an inner boundary that is the cluster after it.
fat32_seek(h, offset) ==
    LET fh == handle[h]
        to == Smaller(offset, fh.size)
    IN /\ fh # NONE
       /\ Careful => to % CLUSTER_SIZE # 0 \/ to \in {0, fh.size}
       /\ Makes(Volume, fh.path)
       /\ handle' = [handle EXCEPT ![h].position = to, ![h].cluster = WalkTo(Volume, fh.start, to)]
       /\ UNCHANGED <<expected, damaged, exact>>

\* fat32_close_nolock: a handle for writing enters its size and first cluster
\* into the directory once more.
fat32_close(h) ==
    LET fh == handle[h]
    IN /\ fh # NONE
       /\ Makes(IF fh.mode = "r" THEN Volume ELSE fat32_update_dir_entry_size(Volume, fh), fh.path)
       /\ handle' = [handle EXCEPT ![h] = NONE]
       /\ UNCHANGED <<expected, damaged, exact>>

\* fat32_delete_vol: the entry is marked, then the chain is freed.  The entry
\* of a long name stays: the search has already forgotten that there was one.
fat32_delete_vol(v, slot) ==
    fat32_free_cluster_chain(
        fat32_write_cluster(v, slot[1], [v.clusters[slot[1]] EXCEPT ![slot[2]] = DELETED]),
        Unit(v, slot).start)

Deletes(path, slot) ==
    /\ Makes(fat32_delete_vol(Volume, slot), path)
    /\ Holds(path, NONE)
    /\ UNCHANGED <<handle, exact>>

UnlinkAt(path, slot) ==
    /\ slot # NONE /\ Unit(Volume, slot).kind = "file"
    /\ Careful => path \notin OpenPaths
    /\ Deletes(path, slot)

vfs_fat32_unlink(path) == UnlinkAt(path, Resolve(Volume, path))

RmdirAt(path, slot) ==
    /\ slot # NONE /\ Unit(Volume, slot).kind = "dir"
    /\ fat32_list_directory_vol(Volume, Unit(Volume, slot).start) = {}
    /\ Deletes(path, slot)

vfs_fat32_rmdir(path) == RmdirAt(path, Resolve(Volume, path))

ISDIR == <<[kind |-> "dir"]>>

\* fat32_mkdir_vol: the new directory's cluster is written before its entry; it
\* stays allocated when the entry finds no place.
MakesDirectory(made, path) ==
    /\ Makes(made.v, path)
    /\ IF made.slot = NONE THEN UNCHANGED <<expected, damaged>> ELSE Holds(path, ISDIR)
    /\ UNCHANGED <<handle, exact>>

MkdirAt(path, new) ==
    LET dots == [i \in Units |-> CASE i = 0 -> Entry("dir", ".", new.c)
                                   [] i = 1 -> Entry("dir", "..", ROOT)
                                   [] OTHER -> ZERO]
    IN /\ new.c # 0
       /\ MakesDirectory(fat32_create_entry(fat32_write_cluster(new.v, new.c, dots),
                                            ROOT, "dir", path[1], new.c), path)

vfs_fat32_mkdir(path) ==
    /\ Resolve(Volume, path) = NONE
    /\ MkdirAt(path, fat32_allocate_cluster(Volume))

-----------------------------------------------------------------------------
(* The disk.                                                                *)

\* One write reaches the disk.
Write_disk ==
    /\ todo # <<>>
    /\ LET w == Head(todo)
       IN IF w.to = "fat" THEN fat' = [fat EXCEPT ![w.at] = w.value] /\ UNCHANGED clusters
          ELSE clusters' = [clusters EXCEPT ![w.at] = w.value] /\ UNCHANGED fat
    /\ todo' = Tail(todo)
    /\ running' = IF todo' = <<>> THEN NONE ELSE running
    /\ UNCHANGED <<last, handle, expected, damaged, exact, crashes, ops>>

\* The machine stops; after the restart the volume is mounted again.
Crash ==
    /\ crashes < MAXCRASHES
    /\ crashes' = crashes + 1
    /\ todo' = <<>>
    /\ last' = 2
    /\ handle' = [h \in Handles |-> NONE]
    /\ damaged' = IF todo = <<>> THEN damaged ELSE damaged \cup {running}
    /\ running' = NONE
    /\ UNCHANGED <<fat, clusters, expected, exact, ops>>

\* An empty volume, mounted (fat32_mount_vol).
Init ==
    /\ fat = [c \in Clusters |-> IF c = ROOT THEN EOC ELSE 0]
    /\ clusters = [c \in Clusters |-> [i \in Units |-> ZERO]]
    /\ last = 2
    /\ handle = [h \in Handles |-> NONE]
    /\ todo = <<>>
    /\ running = NONE
    /\ expected = [p \in Paths |-> NONE]
    /\ damaged = {}
    /\ exact = TRUE
    /\ crashes = 0
    /\ ops = 0

FilePaths == {p \in Paths : p[Len(p)] \in Files}

Next ==
    \/ \E h \in Handles :
        \/ \E p \in FilePaths, m \in Modes : OpenFile(h, p, m) \/ CreateFile(h, p, m)
        \/ \E n \in Lens : vfs_fat32_read(h, n) \/ vfs_fat32_write(h, n)
        \/ \E o \in Offsets : fat32_seek(h, o)
        \/ fat32_close(h)
    \/ \E p \in FilePaths : vfs_fat32_unlink(p)
    \/ \E d \in Dirs : vfs_fat32_mkdir(<<d>>) \/ vfs_fat32_rmdir(<<d>>)
    \/ Write_disk
    \/ Crash

Spec == Init /\ [][Next]_vars

-----------------------------------------------------------------------------

vfs_fat32_exists(path) == Resolve(Volume, path) # NONE
vfs_fat32_is_dir(path) == vfs_fat32_exists(path) /\ Unit(Volume, Resolve(Volume, path)).kind = "dir"
vfs_fat32_get_info(path) == Unit(Volume, Resolve(Volume, path))

BytesOf(info, chain) ==
    LET at(i) == (i - 1) \div CLUSTER_SIZE + 1
    IN [i \in 1..info.size |-> IF at(i) \notin DOMAIN chain THEN ZERO
                               ELSE clusters[chain[at(i)]][(i - 1) % CLUSTER_SIZE]]

\* What a new reader of the volume finds under a path.
Contents(path) ==
    CASE ~vfs_fat32_exists(path) -> NONE
      [] vfs_fat32_is_dir(path) -> ISDIR
      [] OTHER -> BytesOf(vfs_fat32_get_info(path), Chain(Volume, vfs_fat32_get_info(path).start))

\* Every file and directory is on the disk as the clients left it, whatever other
\* files are written or deleted, while an operation on another path is only half
\* on the disk, and after a crash in the middle of one: only the path whose own
\* operation was cut short may have changed.
FilesKept ==
    \A p \in Paths \ damaged : p # running => Contents(p) = expected[p]

\* A read returns what was written at its position, wherever the handle's
\* cluster pointer came from.
ReadsExact == exact
=============================================================================
