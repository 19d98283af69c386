-------------------------------- MODULE Shm --------------------------------
(***************************************************************************)
(* Shared memory segments (fs/shm.c, fs/dev/dev_shm.c): opened as          *)
(* /dev/shm/<name>, grown by write and mmap, mapped, inherited by fork and *)
(* unlinked.  Everything is under shm_lock; a step is one call.            *)
(***************************************************************************)
EXTENDS Integers, Sequences, SequencesExt, FiniteSets

CONSTANTS
    Segments,         \* shm_segment_t structures
    Names, Handles, Procs,
    SHM_MAX_PAGES, PAGE,
    MAX_MAPPINGS,     \* entries of proc->shm_mappings (64)
    Lens, Offsets,    \* arguments of mmap, write and seek
    MAXREFS,          \* bound: references to a segment
    NONE

VARIABLES
    segment,          \* id -> [name, page_count, size, ref_count, lost], or NONE;
                      \* lost: references of mappings that went unrecorded
    shm_list,         \* the segments that can be found, the newest first
    file,             \* open files: [proc, seg, position], or NONE
    mappings,         \* proc -> [seg, pages, kept]: kept when shm_mappings had room
    alive             \* running processes

vars == <<segment, shm_list, file, mappings, alive>>

Lesser(a, b) == IF a < b THEN a ELSE b
Pages(len) == (len + PAGE - 1) \div PAGE
Linked(name) == {i \in DOMAIN shm_list : segment[shm_list[i]].name = name}

(***************************************************************************)
(* shm.c, on the state s = [segment, shm_list].                            *)
(***************************************************************************)
Now == [segment |-> segment, shm_list |-> shm_list]

shm_ref(s, g) == [s EXCEPT !.segment[g].ref_count = @ + 1]

shm_unref(s, g) ==
    IF s.segment[g].ref_count > 1 THEN [s EXCEPT !.segment[g].ref_count = @ - 1]
    ELSE [segment |-> [s.segment EXCEPT ![g] = NONE],
          shm_list |-> SelectSeq(s.shm_list, LAMBDA x : x # g)]

\* Mutant: a segment that exists is opened without a reference.
CreatedOnce(name) ==
    IF Linked(name) # {} THEN [s |-> Now, g |-> shm_list[CHOOSE i \in Linked(name) : TRUE]]
    ELSE LET g == CHOOSE x \in Segments : segment[x] = NONE
         IN  [s |-> [segment |-> [segment EXCEPT ![g] = [name |-> name, page_count |-> 0,
                                                         size |-> 0, ref_count |-> 1, lost |-> 0]],
                     shm_list |-> <<g>> \o shm_list], g |-> g]

\* Found, or made with two references: one of the list, one of the caller.
shm_get_or_create(name) ==
    IF Linked(name) # {}
    THEN LET g == shm_list[CHOOSE i \in Linked(name) : \A j \in Linked(name) : i <= j]
         IN  [s |-> shm_ref(Now, g), g |-> g]
    ELSE LET g == CHOOSE x \in Segments : segment[x] = NONE
         IN  [s |-> [segment |-> [segment EXCEPT ![g] = [name |-> name, page_count |-> 0,
                                                         size |-> 0, ref_count |-> 2, lost |-> 0]],
                     shm_list |-> <<g>> \o shm_list], g |-> g]

\* Grown, or as before: with too many pages, or when the pages run out (those
\* already allocated are given back).
shm_allocate(s, g, len, memory) ==
    IF Pages(len) > SHM_MAX_PAGES \/ (Pages(len) > s.segment[g].page_count /\ ~memory) THEN s
    ELSE [s EXCEPT !.segment[g].page_count = IF Pages(len) > @ THEN Pages(len) ELSE @,
                   !.segment[g].size = IF Pages(len) * PAGE > @ THEN Pages(len) * PAGE ELSE @]

Becomes(s) == segment' = s.segment /\ shm_list' = s.shm_list

(***************************************************************************)
(* Calls of processes.                                                     *)
(***************************************************************************)
dev_shm_open(h, p, name) ==
    LET r == shm_get_or_create(name)
    IN  /\ p \in alive /\ file[h] = NONE
        /\ Linked(name) = {} => \E x \in Segments : segment[x] = NONE
        /\ \A i \in Linked(name) : segment[shm_list[i]].ref_count < MAXREFS
        /\ Becomes(r.s)
        /\ file' = [file EXCEPT ![h] = [proc |-> p, seg |-> r.g, position |-> 0]]
        /\ UNCHANGED <<mappings, alive>>

dev_shm_close(h) ==
    /\ file[h] # NONE
    /\ Becomes(shm_unref(Now, file[h].seg))
    /\ file' = [file EXCEPT ![h] = NONE]
    /\ UNCHANGED <<mappings, alive>>

dev_shm_read(h, n) ==
    LET g == segment[file[h].seg]
    IN  /\ file[h] # NONE
        /\ g.page_count > 0 /\ file[h].position < g.size
        /\ file' = [file EXCEPT ![h].position = @ + Lesser(n, g.size - @)]
        /\ UNCHANGED <<segment, shm_list, mappings, alive>>

dev_shm_write(h, n, memory) ==
    LET g   == file[h].seg
        pos == file[h].position
        s   == IF pos + n > segment[g].size THEN shm_allocate(Now, g, pos + n, memory) ELSE Now
    IN  /\ file[h] # NONE
        /\ Becomes(s)
        /\ file' = IF pos + n <= s.segment[g].size
                   THEN [file EXCEPT ![h].position = @ + n] ELSE file   \* -1: not grown
        /\ UNCHANGED <<mappings, alive>>

dev_shm_seek(h, to) ==
    /\ file[h] # NONE
    /\ file' = [file EXCEPT ![h].position = Lesser(to, segment[file[h].seg].size)]
    /\ UNCHANGED <<segment, shm_list, mappings, alive>>

\* Mutant: unlink frees the segment at once.
UnlinksAndFrees(name) ==
    /\ Linked(name) # {}
    /\ LET g == shm_list[CHOOSE i \in Linked(name) : \A j \in Linked(name) : i <= j]
       IN  Becomes([segment |-> [segment EXCEPT ![g] = NONE],
                    shm_list |-> SelectSeq(shm_list, LAMBDA x : x # g)])
    /\ UNCHANGED <<file, mappings, alive>>

\* unlink of /dev/shm/<name>: the list's reference goes.
shm_unlink(name) ==
    /\ Linked(name) # {}
    /\ LET g == shm_list[CHOOSE i \in Linked(name) : \A j \in Linked(name) : i <= j]
       IN  Becomes(shm_unref([Now EXCEPT !.shm_list = SelectSeq(@, LAMBDA x : x # g)], g))
    /\ UNCHANGED <<file, mappings, alive>>

\* Mutant: a mapping takes no reference.
MapsUnreferenced(h, len, memory) ==
    LET g == file[h].seg
        p == file[h].proc
        s == shm_allocate(Now, g, len, memory)
    IN  /\ file[h] # NONE
        /\ s.segment[g].page_count >= Pages(len)
        /\ Len(mappings[p]) < MAX_MAPPINGS
        /\ Becomes(s)
        /\ mappings' = [mappings EXCEPT ![p] =
               Append(@, [seg |-> g, pages |-> Pages(len), kept |-> TRUE])]
        /\ UNCHANGED <<file, alive>>

\* mmap of the file.  When shm_mappings is full the mapping is made all the
\* same, and the reference taken for it is never given back.
handle_sys_mmap(h, len, memory) ==
    LET g == file[h].seg
        p == file[h].proc
        s == shm_allocate(Now, g, len, memory)
        kept == Cardinality({i \in DOMAIN mappings[p] : mappings[p][i].kept}) < MAX_MAPPINGS
    IN  /\ file[h] # NONE
        /\ s.segment[g].page_count >= Pages(len)
        /\ s.segment[g].ref_count < MAXREFS
        /\ Becomes([shm_ref(s, g) EXCEPT !.segment[g].lost = IF kept THEN @ ELSE @ + 1])
        /\ mappings' = [mappings EXCEPT ![p] =
               Append(@, [seg |-> g, pages |-> Pages(len), kept |-> kept])]
        /\ UNCHANGED <<file, alive>>

\* munmap of a whole mapping.
handle_sys_munmap(p, i) ==
    LET m == mappings[p][i]
    IN  /\ p \in alive
        /\ Becomes(IF m.kept THEN shm_unref(Now, m.seg) ELSE Now)
        /\ mappings' = [mappings EXCEPT ![p] = RemoveAt(@, i)]
        /\ UNCHANGED <<file, alive>>

Kept(p) == SelectSeq(mappings[p], LAMBDA m : m.kept)

\* fork: the child has the recorded mappings, with a reference for each.
process_fork(p, c) ==
    /\ p \in alive /\ c \notin alive
    /\ \A g \in Segments : segment[g] # NONE =>
          segment[g].ref_count + Len(mappings[p]) <= MAXREFS
    /\ alive' = alive \cup {c}
    /\ mappings' = [mappings EXCEPT ![c] = Kept(p)]
    /\ Becomes(FoldLeft(LAMBDA s, m : shm_ref(s, m.seg), Now, Kept(p)))
    /\ UNCHANGED file

\* exit: the recorded mappings are released, the files closed.
process_exits(p) ==
    LET fs == SetToSeq({h \in Handles : file[h] # NONE /\ file[h].proc = p})
        s1 == FoldLeft(LAMBDA s, m : shm_unref(s, m.seg), Now, Kept(p))
    IN  /\ p \in alive
        /\ alive' = alive \ {p}
        /\ Becomes(FoldLeft(LAMBDA s, h : shm_unref(s, file[h].seg), s1, fs))
        /\ file' = [h \in Handles |-> IF h \in ToSet(fs) THEN NONE ELSE file[h]]
        /\ mappings' = [mappings EXCEPT ![p] = <<>>]

----------------------------------------------------------------------------
Init ==
    /\ segment = [g \in Segments |-> NONE]
    /\ shm_list = <<>>
    /\ file = [h \in Handles |-> NONE]
    /\ mappings = [p \in Procs |-> <<>>]
    /\ alive = {CHOOSE p \in Procs : TRUE}

Next ==
    \/ \E h \in Handles, p \in Procs, n \in Names : dev_shm_open(h, p, n)
    \/ \E h \in Handles : dev_shm_close(h)
    \/ \E h \in Handles, n \in Lens : dev_shm_read(h, n)
    \/ \E h \in Handles, n \in Lens, m \in BOOLEAN : dev_shm_write(h, n, m)
    \/ \E h \in Handles, to \in Offsets : dev_shm_seek(h, to)
    \/ \E n \in Names : shm_unlink(n)
    \/ \E h \in Handles, n \in Lens, m \in BOOLEAN : handle_sys_mmap(h, n, m)
    \/ \E p \in Procs : \E i \in DOMAIN mappings[p] : handle_sys_munmap(p, i)
    \/ \E p, c \in Procs : process_fork(p, c)
    \/ \E p \in Procs : process_exits(p)

Spec == Init /\ [][Next]_vars

----------------------------------------------------------------------------
Users(g) ==
    Cardinality({h \in Handles : file[h] # NONE /\ file[h].seg = g})
    + Cardinality(UNION {{<<p, i>> : i \in {j \in DOMAIN mappings[p] :
                             mappings[p][j].kept /\ mappings[p][j].seg = g}} : p \in Procs})

\* A segment outlives its name, the process that made it and each of its
\* users: what is listed, open or mapped is never freed, has its pages as far
\* as it is mapped or its size tells, and what nobody uses is freed (unless a
\* mapping went unrecorded, whose reference stays).  A name leads to one segment.
SegmentsKept ==
    /\ \A h \in Handles : file[h] # NONE => segment[file[h].seg] # NONE
    /\ \A p \in Procs : \A i \in DOMAIN mappings[p] :
          /\ segment[mappings[p][i].seg] # NONE
          /\ mappings[p][i].pages <= segment[mappings[p][i].seg].page_count
    /\ \A i, j \in DOMAIN shm_list :
          /\ segment[shm_list[i]] # NONE
          /\ segment[shm_list[i]].name = segment[shm_list[j]].name => i = j
    /\ \A g \in Segments : segment[g] # NONE =>
          /\ segment[g].size <= segment[g].page_count * PAGE
          /\ segment[g].page_count <= SHM_MAX_PAGES
          /\ segment[g].ref_count = Users(g) + segment[g].lost
                                  + (IF g \in ToSet(shm_list) THEN 1 ELSE 0)
============================================================================
