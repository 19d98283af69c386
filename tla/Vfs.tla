-------------------------------- MODULE Vfs --------------------------------
(***************************************************************************)
(* The disk registry (dev/disk_manager.c), the mount table and the open    *)
(* files (fs/vfs_mount.c, fs/vfs.c) and the block device files             *)
(* (fs/dev/dev_disk.c) working together.  A path is a sequence of names:   *)
(* how the characters of a path are taken apart is the subject of VfsPath. *)
(*                                                                         *)
(* vfs_open takes vfs_lock twice and calls the filesystem with no lock     *)
(* held: it is three steps here, with every other call in between.  The    *)
(* variable served is history: whether the last call into a filesystem was *)
(* given a handle of its own and a disk that is still there.               *)
(***************************************************************************)
EXTENDS Integers, Sequences, SequencesExt

CONSTANTS
    Slots,        \* 1 .. VFS_MAX_MOUNTS
    Paths,        \* the normalized paths processes name
    MountPaths,   \* the paths something is mounted at
    Threads,      \* threads inside the VFS
    MAX_DISKS,    \* entries of disks[]
    Tables,       \* the partition tables a rescan may find: <<kind, count>>
    MAXDISKS,     \* bound: Disk structures ever allocated
    MAXVOLUMES,   \* bound: volumes ever mounted
    Careful,      \* whether rescans and mounts leave open files alone
    NONE

VARIABLES
    disks,        \* disks[0 .. disk_count - 1]: [id, name, parent]
    freed,        \* the Disk structures freed
    ids,          \* how many Disk structures were allocated
    mounts,       \* mounts[]
    volumes,      \* how many volumes were mounted
    open_files,   \* the list of open files
    thread,       \* where each thread is in a VFS served
    served,       \* whether the last call into a filesystem was right
    panicked      \* a NULL operations table was followed

vars == <<disks, freed, ids, mounts, volumes, open_files, thread, served, panicked>>

Idle == [at |-> "idle"]
Inactive == [active |-> FALSE, path |-> NONE, device |-> NONE, fs |-> NONE]
RAM == [disk |-> NONE, number |-> 0]      \* tmpfs: one instance, no disk
Whole == <<"sda">>
Digit == <<"1", "2", "3">>

(***************************************************************************)
(* The mount table.                                                        *)
(***************************************************************************)
\* A call into the filesystem fs with one of its own handles, or none.
Right(fs, handle) == handle \in {NONE, fs} /\ fs.disk \notin freed

Active == {s \in Slots : mounts[s].active}
First(S) == CHOOSE s \in S : \A u \in S : s <= u

vfs_path_is_parent(parent, child) == IsPrefix(parent, child)

\* Mutant: the first mount that fits is taken, not the longest.
FirstResolved(p) ==
    LET above == {s \in Active : IsPrefix(mounts[s].path, p)}
    IN  IF above = {} THEN NONE ELSE First(above)

\* The active mount with the longest path above p; NONE when there is none.
vfs_resolve_mount(p) ==
    LET above == {s \in Active : IsPrefix(mounts[s].path, p)}
    IN  IF above = {} THEN NONE
        ELSE CHOOSE s \in above : \A u \in above : Len(mounts[u].path) <= Len(mounts[s].path)

Mounted(p, device, fs) ==
    LET at == {s \in Active : mounts[s].path = p}
        to == IF at # {} THEN at ELSE Slots \ Active
    IN  /\ to # {}                                   \* "Maximum mounts reached"
        /\ mounts' = [mounts EXCEPT ![First(to)] =
               [active |-> TRUE, path |-> p, device |-> device, fs |-> fs]]

FilesOn(s) == {f \in open_files : f.slot = s}

\* Mutant: open files do not keep the mount.
UnmountedThoughOpen(table, target) ==
    LET match == {s \in Slots : table[s].active /\ target \in {table[s].path, table[s].device}}
    IN  IF match = {} THEN table ELSE [table EXCEPT ![First(match)] = Inactive]

\* What vfs_umount(target) leaves of the mount table: the first mount at that
\* path or of that device goes, unless a file is open on it.
Unmounted(table, target) ==
    LET match == {s \in Slots : table[s].active /\ target \in {table[s].path, table[s].device}}
    IN  IF match = {} \/ FilesOn(First(match)) # {} THEN table
        ELSE [table EXCEPT ![First(match)] = Inactive]

(***************************************************************************)
(* The disk registry.                                                      *)
(***************************************************************************)
disk_get_by_name(name) ==
    LET at == {i \in DOMAIN disks : disks[i].name = name}
    IN  IF at = {} THEN NONE ELSE disks[First(at)].id

Partitions(d) == SelectSeq(disks, LAMBDA e : e.parent = d)

\* Mutant: the partitions go and their mounts stay.
RemovedStillMounted(d) ==
    [table |-> mounts,
     disks |-> SelectSeq(disks, LAMBDA e : e.parent # d),
     freed |-> freed \cup {Partitions(d)[i].id : i \in DOMAIN Partitions(d)}]

\* Every partition of the disk leaves the array; vfs_umount is called with its
\* name, what it answers is not looked at, and the structure is freed.
disk_remove_partitions(d) ==
    [table |-> FoldLeft(LAMBDA t, e : Unmounted(t, e.name), mounts, Partitions(d)),
     disks |-> SelectSeq(disks, LAMBDA e : e.parent # d),
     freed |-> freed \cup {Partitions(d)[i].id : i \in DOMAIN Partitions(d)}]

\* What the parser of each kind of table registers: parse_mbr_partitions calls
\* disk_register_partition twice for every entry, parse_gpt_partitions once.
Names(table) ==
    CASE table[1] = "mbr" -> [i \in 1..(2 * table[2]) |-> <<"sda", Digit[(i + 1) \div 2]>>]
      [] table[1] = "gpt" -> [i \in 1..table[2] |-> <<"sda", Digit[i]>>]
      [] OTHER -> <<>>

disk_register_partition(list, d, names) ==
    LET room == MAX_DISKS - Len(list)
        n    == IF Len(names) < room THEN Len(names) ELSE room
    IN  list \o [i \in 1..n |-> [id |-> ids + i, name |-> names[i], parent |-> d]]

DeviceFilesOn(list) == \E f \in open_files : \E i \in DOMAIN list : f.disk = list[i].id

\* The caller's care: nothing of the disk is in use, and each of its
\* partitions is mounted at one place.
AtRest(d) ==
    /\ ~DeviceFilesOn(Partitions(d))
    /\ \A i \in DOMAIN Partitions(d) :
          LET at == {s \in Active : mounts[s].fs.disk = Partitions(d)[i].id}
          IN  /\ \A s \in at : FilesOn(s) = {}
              /\ \A s, u \in at : s = u

disk_rescan(table) ==
    LET d    == disks[1].id
        kept == disk_remove_partitions(d)
        list == disk_register_partition(kept.disks, d, Names(table))
    IN  /\ Careful => AtRest(d)
        /\ ids + (Len(list) - Len(kept.disks)) <= MAXDISKS
        /\ mounts' = kept.table
        /\ disks'  = list
        /\ freed'  = kept.freed
        /\ ids'    = ids + (Len(list) - Len(kept.disks))
        /\ UNCHANGED <<volumes, open_files, thread, served, panicked>>

(***************************************************************************)
(* mount and umount.                                                       *)
(***************************************************************************)
MayMount(p) == Careful => \A s \in Active : mounts[s].path = p => FilesOn(s) = {}

handle_sys_mount_tmpfs(p) ==
    /\ MayMount(p)
    /\ Mounted(p, <<"tmpfs">>, RAM)
    /\ UNCHANGED <<disks, freed, ids, volumes, open_files, thread, served, panicked>>

\* A partition: looked up by name, a volume made of what is on it, mounted.
handle_sys_mount(p, name) ==
    LET d == disk_get_by_name(name)
    IN  /\ d # NONE
        /\ MayMount(p)
        /\ volumes < MAXVOLUMES
        /\ volumes' = volumes + 1
        /\ Mounted(p, name, [disk |-> d, number |-> volumes + 1])
        /\ UNCHANGED <<disks, freed, ids, open_files, thread, served, panicked>>

handle_sys_umount2(target) ==
    /\ Unmounted(mounts, target) # mounts
    /\ mounts' = Unmounted(mounts, target)
    /\ UNCHANGED <<disks, freed, ids, volumes, open_files, thread, served, panicked>>

(***************************************************************************)
(* Questions about a path.  What a filesystem itself answers is inside.    *)
(***************************************************************************)
Virtual == {<<"dev">>, <<"sys">>, <<"proc">>}
AboveAMount(p) == \E s \in Active : vfs_path_is_parent(p, mounts[s].path)

vfs_exists(p, inside) ==
    \/ p = <<>> \/ AboveAMount(p) \/ p \in Virtual
    \/ vfs_resolve_mount(p) # NONE /\ inside

vfs_is_directory(p, inside) ==
    \/ p = <<>> \/ AboveAMount(p) \/ p \in Virtual
    \/ vfs_resolve_mount(p) # NONE /\ inside

\* The names a directory shows on its first page, with those of the filesystem
\* itself.
vfs_list_directory(p, inside) ==
    inside \cup {mounts[s].path[Len(p) + 1] :
                    s \in {u \in Active : mounts[u].path # p
                                       /\ vfs_path_is_parent(p, mounts[u].path)}}
           \cup (IF p = <<>> THEN {v[1] : v \in Virtual} ELSE {})

\* Whether vfs_delete goes on to the filesystem.
MayDelete(p) == p # <<>> /\ p # <<"dev">> /\ \A s \in Active : mounts[s].path # p

(***************************************************************************)
(* vfs_open.  A directory is opened by another branch, which does not mind *)
(* a filesystem that is gone or refuses.                                   *)
(***************************************************************************)
Resolves(t, p, kind) ==
    LET s == vfs_resolve_mount(p)
    IN  /\ thread[t] = Idle
        /\ kind = "file" => ~vfs_is_directory(p, FALSE)
        /\ kind = "path" => MayDelete(p)
        /\ kind # "dir" => s # NONE
        /\ thread' = [thread EXCEPT ![t] = [at |-> "resolved", kind |-> kind, slot |-> s]]
        /\ UNCHANGED <<disks, freed, ids, mounts, volumes, open_files, served, panicked>>

OpenAllocates(t) ==
    LET r == thread[t]
        f == [owner |-> t, slot |-> r.slot, disk |-> NONE, handle |-> NONE, returned |-> FALSE]
    IN  /\ r.at = "resolved" /\ r.kind # "path"
        /\ \A g \in open_files : g.owner # t
        /\ IF r.kind = "file" /\ ~mounts[r.slot].active
           THEN panicked' = TRUE /\ UNCHANGED <<open_files, thread>>
           ELSE /\ open_files' = open_files \cup {f}
                /\ thread' = [thread EXCEPT ![t] = [r EXCEPT !.at = "allocated"]]
                /\ UNCHANGED panicked
        /\ UNCHANGED <<disks, freed, ids, mounts, volumes, served>>

\* ops->open, which may refuse.
OpenCalls(t, accepts) ==
    LET r == thread[t]
        f == CHOOSE g \in open_files : g.owner = t
        m == mounts[r.slot]
        opened == [f EXCEPT !.handle = m.fs, !.returned = TRUE]
        bare   == [f EXCEPT !.returned = TRUE]
    IN  /\ r.at = "allocated"
        /\ IF r.slot = NONE \/ ~m.active
           THEN /\ ~accepts
                /\ IF r.kind = "dir"
                   THEN /\ open_files' = (open_files \ {f}) \cup {bare}
                        /\ thread' = [thread EXCEPT ![t] = Idle]
                        /\ UNCHANGED panicked
                   ELSE panicked' = TRUE /\ UNCHANGED <<open_files, thread>>
                /\ UNCHANGED served
           ELSE /\ served' = Right(m.fs, NONE)
                /\ open_files' = (open_files \ {f}) \cup
                       (IF accepts THEN {opened} ELSE IF r.kind = "dir" THEN {bare} ELSE {})
                /\ thread' = [thread EXCEPT ![t] = Idle]
                /\ UNCHANGED panicked
        /\ UNCHANGED <<disks, freed, ids, mounts, volumes>>

\* mkdir, rmdir, unlink, rename, chmod, get_info ...: resolved under the lock,
\* then the operations table is followed with the lock released.
PathCalls(t) ==
    LET r == thread[t]
    IN  /\ r.at = "resolved" /\ r.kind = "path"
        /\ IF mounts[r.slot].active
           THEN /\ served' = Right(mounts[r.slot].fs, NONE)
                /\ thread' = [thread EXCEPT ![t] = Idle]
                /\ UNCHANGED panicked
           ELSE panicked' = TRUE /\ UNCHANGED <<served, thread>>
        /\ UNCHANGED <<disks, freed, ids, mounts, volumes, open_files>>

(***************************************************************************)
(* Open files.                                                             *)
(***************************************************************************)
VFS_FILE_INVALID(f) == f.disk = NONE /\ (f.slot = NONE \/ ~mounts[f.slot].active)

\* read, write, seek, ioctl, poll, position and size of an ordinary file.
vfs_read(f) ==
    /\ f.returned /\ f.disk = NONE
    /\ ~VFS_FILE_INVALID(f)
    /\ served' = Right(mounts[f.slot].fs, f.handle)
    /\ UNCHANGED <<disks, freed, ids, mounts, volumes, open_files, thread, panicked>>

vfs_close(f) ==
    /\ f.returned
    /\ IF f.disk = NONE /\ f.slot # NONE /\ ~mounts[f.slot].active
       THEN panicked' = TRUE /\ UNCHANGED <<open_files, served>>
       ELSE /\ open_files' = open_files \ {f}
            /\ served' = (f.disk = NONE /\ f.slot # NONE /\ f.handle # NONE
                               => Right(mounts[f.slot].fs, f.handle))
            /\ UNCHANGED panicked
    /\ UNCHANGED <<disks, freed, ids, mounts, volumes, thread>>

\* /dev/sda and its partitions: the file keeps the Disk itself.
dev_disk_open(t, name) ==
    /\ thread[t] = Idle /\ disk_get_by_name(name) # NONE
    /\ \A g \in open_files : g.owner # t
    /\ open_files' = open_files \cup
           {[owner |-> t, slot |-> NONE, disk |-> disk_get_by_name(name),
             handle |-> NONE, returned |-> TRUE]}
    /\ UNCHANGED <<disks, freed, ids, mounts, volumes, thread, served, panicked>>

dev_disk_read(f) ==
    /\ f.disk # NONE
    /\ served' = Right([disk |-> f.disk, number |-> 0], NONE)
    /\ UNCHANGED <<disks, freed, ids, mounts, volumes, open_files, thread, panicked>>

dev_disk_ioctl(f, table) ==
    /\ disks # <<>> /\ f.disk = disks[1].id
    /\ disk_rescan(table)

----------------------------------------------------------------------------
\* One whole disk is registered, with no partitions yet; the root is tmpfs
\* (init_rootfs: the variable that names a root disk is NULL again when the
\* disk is about to be mounted, so the root stays tmpfs).
Init ==
    /\ disks = <<[id |-> 1, name |-> Whole, parent |-> NONE]>>
    /\ freed = {}
    /\ ids = 1
    /\ mounts = [s \in Slots |-> IF s = 1
                   THEN [active |-> TRUE, path |-> <<>>, device |-> <<"tmpfs">>, fs |-> RAM]
                   ELSE Inactive]
    /\ volumes = 0
    /\ open_files = {}
    /\ thread = [t \in Threads |-> Idle]
    /\ served = TRUE
    /\ panicked = FALSE

DeviceNames == {<<"sda", Digit[i]>> : i \in 1..2}

Next ==
    /\ ~panicked
    /\ \/ \E p \in MountPaths : handle_sys_mount_tmpfs(p)
       \/ \E p \in MountPaths, n \in DeviceNames : handle_sys_mount(p, n)
       \/ \E x \in MountPaths \cup DeviceNames : handle_sys_umount2(x)
       \/ \E t \in Threads, p \in Paths, k \in {"file", "dir", "path"} : Resolves(t, p, k)
       \/ \E t \in Threads : OpenAllocates(t)
       \/ \E t \in Threads, a \in BOOLEAN : OpenCalls(t, a)
       \/ \E t \in Threads : PathCalls(t)
       \/ \E f \in open_files : vfs_read(f)
       \/ \E f \in open_files : vfs_close(f)
       \/ \E t \in Threads, n \in DeviceNames \cup {Whole} : dev_disk_open(t, n)
       \/ \E f \in open_files : dev_disk_read(f)
       \/ \E f \in open_files, tb \in Tables : dev_disk_ioctl(f, tb)

Spec == Init /\ [][Next]_vars

----------------------------------------------------------------------------
(***************************************************************************)
(* Properties.                                                             *)
(***************************************************************************)

\* However opens, closes, mounts, unmounts and rescans interleave, a
\* filesystem is only handed handles it gave out itself, and no call reaches a
\* volume or a device file whose Disk was freed by disk_remove_partitions.
CallsServed == served

\* Every path goes to the innermost mount above it, and every mount point can
\* be reached: its parent lists it, and each directory on the way is one.
PathsRouted ==
    /\ \A p \in Paths \cup MountPaths :
          \A s \in Active : IsPrefix(mounts[s].path, p) =>
              /\ vfs_resolve_mount(p) # NONE
              /\ IsPrefix(mounts[s].path, mounts[vfs_resolve_mount(p)].path)
    /\ \A s \in Active : \A n \in 0..(Len(mounts[s].path) - 1) :
          LET dir == SubSeq(mounts[s].path, 1, n)
          IN  /\ mounts[s].path[n + 1] \in vfs_list_directory(dir, {})
              /\ vfs_is_directory(dir, FALSE) /\ vfs_exists(dir, FALSE)
============================================================================
