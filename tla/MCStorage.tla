----------------------------- MODULE MCStorage -----------------------------
(* What stores files.  A behaviour is one of a FAT32 volume (Fat32), of a    *)
(* tmpfs (Tmpfs), of the page cache of a file (PageCache), of the mount      *)
(* table with the disks below it (Vfs), of a disk's device file              *)
(* (BlockDevice), of shared memory (Shm), of the paths of a process          *)
(* (VfsPath) or of the ids it opens files with (Credentials); the variables  *)
(* of the others rest.                                                       *)
EXTENDS Integers, Sequences

CONSTANT NONE

VARIABLES part,
    fat, clusters, last, fat_handle, todo, running, fat_expected, damaged, fat_exact, crashes,
    fat_ops,
    inode, children, handle, expected, exact, ops,
    page_tree, dirty_tag, page, lru, g_dirty_pages_count, i_rwsem, at, calls,
    disks, freed, ids, mounts, volumes, open_files, thread, served, panicked,
    medium, position, io, requests, told,
    segment, shm_list, file, mappings, alive,
    cwd, place,
    u, g, groups, elevated, ret, dropped

MCFiles ==
    {[uid |-> 0, gid |-> 1, setuid |-> TRUE, setgid |-> FALSE, nosuid |-> FALSE, group |-> TRUE,
      other |-> FALSE],
     [uid |-> 1, gid |-> 2, setuid |-> TRUE, setgid |-> TRUE, nosuid |-> FALSE, group |-> FALSE,
      other |-> TRUE],
     [uid |-> 0, gid |-> 0, setuid |-> TRUE, setgid |-> TRUE, nosuid |-> TRUE, group |-> FALSE,
      other |-> TRUE]}

\* Four clusters for two files and a directory; a file of two clusters; a seek
\* past the end; one crash.
Fat == INSTANCE Fat32
    WITH FAT_ENTRIES <- 6, CLUSTER_SIZE <- 2, Files <- {"A", "B"}, Dirs <- {"D"}, LongNames <- {},
         Handles <- {1}, Modes <- {"r", "a", "w"}, Lens <- {1, 3}, Offsets <- {1, 2, 9},
         MAXSIZE <- 4, MAXCRASHES <- 1, MAXOPS <- 5, Careful <- TRUE,
         handle <- fat_handle, expected <- fat_expected, exact <- fat_exact, ops <- fat_ops

\* A name below a directory that may also be a file; files of two pages.
Tmp == INSTANCE Tmpfs
    WITH Inodes <- {1, 2, 3}, Paths <- {<<"a">>, <<"b">>, <<"a", "b">>}, Handles <- {1, 2},
         Modes <- {"r", "w", "a"}, PAGE <- 2, Lens <- {1, 3}, Offsets <- {0, 3}, MAXSIZE <- 4,
         MAXOPS <- 5, Careful <- TRUE

\* Three threads and more frames than pages, so that a thread may come late with
\* the page it has read; gangs of one page, so that truncation takes rounds.
Cache == INSTANCE PageCache
    WITH Threads <- {1, 2, 3}, Indexes <- {1, 2}, Pages <- {11, 12, 13}, GANG <- 1,
         Starts <- {<<1, FALSE>>, <<2, TRUE>>}, MAXCALLS <- 3

\* A mount below another, a table of two mounts, and a partition table that
\* changes its kind.
Mounts == INSTANCE Vfs
    WITH Slots <- {1, 2}, Paths <- {<<"m">>, <<"m", "x">>}, MountPaths <- {<<"m">>, <<"m", "n">>},
         Threads <- {1, 2}, MAX_DISKS <- 4, Tables <- {<<"gpt", 1>>, <<"mbr", 1>>},
         MAXDISKS <- 4, MAXVOLUMES <- 2, Careful <- TRUE

\* A partition and a disk that do not overlap; requests inside a sector, across
\* two, of several chunks, and past the end.
Device == INSTANCE BlockDevice
    WITH Threads <- {1, 2}, SECTOR <- 2, CHUNK <- 2, SECTORS <- 5,
         Disk <- <<[start |-> 1, total |-> 3], [start |-> 0, total |-> 1]>>,
         Offsets <- {1, 2, 3, 9}, Sizes <- {1, 2, 5, 7}, Misalignments <- {0, 1}, MAXREQUESTS <- 2

\* A name used again after it was unlinked, a table of one mapping, segments
\* of one page.
Memory == INSTANCE Shm
    WITH Segments <- {1, 2}, Names <- {"x"}, Handles <- {1, 2}, Procs <- {1, 2}, SHM_MAX_PAGES <- 1,
         PAGE <- 1, MAX_MAPPINGS <- 1, Lens <- {1, 2}, Offsets <- {0}, MAXREFS <- 3

\* Every path of at most four characters out of '/', '.' and one letter.
Names == INSTANCE VfsPath
    WITH VFS_MAX_PATH <- 11, Arguments <- UNION {[1..n -> {"/", ".", "a"}] : n \in 0..4}

\* Root and two users; a program of root's for its group, one for everybody, and
\* one on a volume where setuid does not count.
Owner == INSTANCE Credentials
    WITH Ids <- {0, 1, 2}, Files <- MCFiles, NGROUPS_MAX <- 1, KEEP <- NONE

fat32_vars == <<fat, clusters, last, fat_handle, todo, running, fat_expected, damaged,
                fat_exact, crashes, fat_ops>>
tmpfs_vars == <<inode, children, handle, expected, exact, ops>>
pages_vars == <<page_tree, dirty_tag, page, lru, g_dirty_pages_count, i_rwsem, at, calls>>
vfs_vars == <<disks, freed, ids, mounts, volumes, open_files, thread, served, panicked>>
device_vars == <<medium, position, io, requests, told>>
shm_vars == <<segment, shm_list, file, mappings, alive>>
paths_vars == <<cwd, place>>
ids_vars == <<u, g, groups, elevated, ret, dropped>>

fat32_rests ==
    /\ fat = NONE /\ clusters = NONE /\ last = NONE /\ fat_handle = NONE /\ todo = NONE
    /\ running = NONE /\ fat_expected = NONE /\ damaged = NONE /\ fat_exact = NONE
    /\ crashes = NONE /\ fat_ops = NONE
tmpfs_rests ==
    /\ inode = NONE /\ children = NONE /\ handle = NONE /\ expected = NONE
    /\ exact = NONE /\ ops = NONE
pages_rests ==
    /\ page_tree = NONE /\ dirty_tag = NONE /\ page = NONE /\ lru = NONE
    /\ g_dirty_pages_count = NONE /\ i_rwsem = NONE /\ at = NONE /\ calls = NONE
vfs_rests ==
    /\ disks = NONE /\ freed = NONE /\ ids = NONE /\ mounts = NONE /\ volumes = NONE
    /\ open_files = NONE /\ thread = NONE /\ served = NONE /\ panicked = NONE
device_rests ==
    /\ medium = NONE /\ position = NONE /\ io = NONE /\ requests = NONE /\ told = NONE
shm_rests ==
    /\ segment = NONE /\ shm_list = NONE /\ file = NONE /\ mappings = NONE
    /\ alive = NONE
paths_rests ==
    /\ cwd = NONE /\ place = NONE
ids_rests ==
    /\ u = NONE /\ g = NONE /\ groups = NONE /\ elevated = NONE /\ ret = NONE
    /\ dropped = NONE

Init ==
    \/ /\ part = "fat32" /\ Fat!Init
       /\ tmpfs_rests /\ pages_rests /\ vfs_rests /\ device_rests /\ shm_rests
       /\ paths_rests /\ ids_rests
    \/ /\ part = "tmpfs" /\ Tmp!Init
       /\ fat32_rests /\ pages_rests /\ vfs_rests /\ device_rests /\ shm_rests
       /\ paths_rests /\ ids_rests
    \/ /\ part = "pages" /\ Cache!Init
       /\ fat32_rests /\ tmpfs_rests /\ vfs_rests /\ device_rests /\ shm_rests
       /\ paths_rests /\ ids_rests
    \/ /\ part = "vfs" /\ Mounts!Init
       /\ fat32_rests /\ tmpfs_rests /\ pages_rests /\ device_rests /\ shm_rests
       /\ paths_rests /\ ids_rests
    \/ /\ part = "device" /\ Device!Init
       /\ fat32_rests /\ tmpfs_rests /\ pages_rests /\ vfs_rests /\ shm_rests
       /\ paths_rests /\ ids_rests
    \/ /\ part = "shm" /\ Memory!Init
       /\ fat32_rests /\ tmpfs_rests /\ pages_rests /\ vfs_rests /\ device_rests
       /\ paths_rests /\ ids_rests
    \/ /\ part = "paths" /\ Names!Init
       /\ fat32_rests /\ tmpfs_rests /\ pages_rests /\ vfs_rests /\ device_rests
       /\ shm_rests /\ ids_rests
    \/ /\ part = "ids" /\ Owner!Init
       /\ fat32_rests /\ tmpfs_rests /\ pages_rests /\ vfs_rests /\ device_rests
       /\ shm_rests /\ paths_rests

Next ==
    /\ UNCHANGED part
    /\ \/ /\ part = "fat32" /\ Fat!Next
          /\ UNCHANGED <<tmpfs_vars, pages_vars, vfs_vars, device_vars, shm_vars,
                       paths_vars, ids_vars>>
       \/ /\ part = "tmpfs" /\ Tmp!Next
          /\ UNCHANGED <<fat32_vars, pages_vars, vfs_vars, device_vars, shm_vars,
                       paths_vars, ids_vars>>
       \/ /\ part = "pages" /\ Cache!Next
          /\ UNCHANGED <<fat32_vars, tmpfs_vars, vfs_vars, device_vars, shm_vars,
                       paths_vars, ids_vars>>
       \/ /\ part = "vfs" /\ Mounts!Next
          /\ UNCHANGED <<fat32_vars, tmpfs_vars, pages_vars, device_vars, shm_vars,
                       paths_vars, ids_vars>>
       \/ /\ part = "device" /\ Device!Next
          /\ UNCHANGED <<fat32_vars, tmpfs_vars, pages_vars, vfs_vars, shm_vars,
                       paths_vars, ids_vars>>
       \/ /\ part = "shm" /\ Memory!Next
          /\ UNCHANGED <<fat32_vars, tmpfs_vars, pages_vars, vfs_vars, device_vars,
                       paths_vars, ids_vars>>
       \/ /\ part = "paths" /\ Names!Next
          /\ UNCHANGED <<fat32_vars, tmpfs_vars, pages_vars, vfs_vars, device_vars,
                       shm_vars, ids_vars>>
       \/ /\ part = "ids" /\ Owner!Next
          /\ UNCHANGED <<fat32_vars, tmpfs_vars, pages_vars, vfs_vars, device_vars,
                       shm_vars, paths_vars>>

vars == <<part, fat32_vars, tmpfs_vars, pages_vars, vfs_vars, device_vars, shm_vars,
          paths_vars, ids_vars>>

Spec == Init /\ [][Next]_vars

----------------------------------------------------------------------------
\* Fat32: every file and directory is on the disk as its clients left it, while
\* an operation on another path is half done and after a crash in the middle of
\* one, and reads return what was written.
FilesKept == part = "fat32" => Fat!FilesKept /\ Fat!ReadsExact

\* Tmpfs and Shm: the tree is the one the calls describe, reads return what was
\* written, and a shared segment lives exactly as long as its name, its files
\* and its mappings.
TreeKept ==
    /\ part = "tmpfs" => Tmp!TreeKept
    /\ part = "shm" => Memory!SegmentsKept

\* PageCache: no page is freed while it is used, none stays behind, and the
\* write-back finds exactly the pages that are dirty.
PagesKept == part = "pages" => Cache!PagesAccounted /\ Cache!DirtyTagged

\* Vfs: no call reaches a filesystem or a disk that is gone, and each path goes
\* to the innermost mount above it.
CallsServed == part = "vfs" => Mounts!CallsServed /\ Mounts!PathsRouted

\* BlockDevice: a request moves exactly its own bytes and tells how many.
RequestsContained ==
    /\ [][part = "device" => Device!WriteContained]_vars
    /\ [](part = "device" => Device!AnswersRight)

\* VfsPath: one directory has one spelling, along any walk.
PathsCanonical == part = "paths" => Names!PathsCanonical

\* Credentials: a process gains no id but one it already held or a file gave it,
\* and root that is given up with setuid does not come back.
IdsKept == [][part = "ids" => Owner!IdsHeld /\ Owner!DroppedForGood']_vars
=============================================================================
