-------------------------------- MODULE Slab --------------------------------
(***************************************************************************)
(* One cache of the slab allocator (mem/slab.c): two magazines of objects  *)
(* for each CPU, a depot of full and empty magazines that the CPUs share,  *)
(* and the lists of slabs behind them.                                     *)
(*                                                                         *)
(* The magazines of a CPU are used with interrupts off; the depot and the  *)
(* slab lists have a spinlock each.  A section under a spinlock is one     *)
(* step.                                                                   *)
(***************************************************************************)
EXTENDS Integers, Sequences, FiniteSets, TLC

CONSTANTS
    Cpus,
    THREADS,        \* how many threads use the cache on each CPU
    Slabs,          \* the pages that may become slabs of this cache
    OBJS_PER_SLAB,
    Magazines,
    MAGAZINE_SIZE,
    MAX_EMPTY,      \* how many empty slabs the cache keeps: 4 in the code
    NULL

ASSUME SlabAssumption ==
    /\ THREADS \in Nat
    /\ OBJS_PER_SLAB \in Nat \ {0}
    /\ MAGAZINE_SIZE \in Nat \ {0}
    /\ MAX_EMPTY \in Nat
    /\ NULL \notin Magazines /\ NULL \notin Slabs
    /\ Cardinality(Magazines) >= 2 * Cardinality(Cpus)

\* A thread stays on its CPU while it is in the cache.
Threads == Cpus \X (1..THREADS)
cpu == [t \in Threads |-> t[1]]

Objects == Slabs \X (1..OBJS_PER_SLAB)

Symmetry == Permutations(Cpus) \cup Permutations(Magazines) \cup Permutations(Slabs)

VARIABLES
    loaded,           \* cpu_caches[c].loaded
    previous,         \* cpu_caches[c].previous
    objects,          \* the objects in each magazine
    full_magazines,
    empty_magazines,
    slabs_partial,
    slabs_full,
    slabs_empty,
    empty_slab_count,
    inuse_count,
    free_list,        \* the free objects of each slab
    backed,           \* the slabs whose page is marked PAGE_FLAG_SLAB
    held,             \* the objects that clients have
    pc,
    obj, mag, slab    \* the object, magazine and slab that a thread works on

magazines == <<loaded, previous, objects, full_magazines, empty_magazines>>
slabs == <<slabs_partial, slabs_full, slabs_empty, empty_slab_count, inuse_count, free_list, backed>>
locals == <<pc, obj, mag, slab>>
vars == <<magazines, slabs, held, locals>>

\* Where a thread has interrupts off (irq_save).
IrqsOff == {"alloc_depot", "alloc_put", "free_get", "free_mag"}

\* slab_cache_create_with_ctor: every CPU gets two empty magazines.
Init ==
    /\ \E f \in [Cpus \X {1, 2} -> Magazines] :
         /\ \A x, y \in Cpus \X {1, 2} : f[x] = f[y] => x = y
         /\ loaded = [c \in Cpus |-> f[c, 1]]
         /\ previous = [c \in Cpus |-> f[c, 2]]
    /\ objects = [m \in Magazines |-> <<>>]
    /\ full_magazines = <<>> /\ empty_magazines = <<>>
    /\ slabs_partial = <<>> /\ slabs_full = <<>> /\ slabs_empty = <<>>
    /\ empty_slab_count = 0
    /\ inuse_count = [s \in Slabs |-> 0]
    /\ free_list = [s \in Slabs |-> <<>>]
    /\ backed = {}
    /\ held = {}
    /\ pc = [t \in Threads |-> "idle"]
    /\ obj = [t \in Threads |-> NULL]
    /\ mag = [t \in Threads |-> NULL]
    /\ slab = [t \in Threads |-> NULL]

\* A thread runs unless another one has interrupts off on its CPU.
Runs(t) == \A u \in Threads \ {t} : cpu[u] = cpu[t] => pc[u] \notin IrqsOff

At(t, label) == pc[t] = label /\ Runs(t)
Goto(t, label) == pc' = [pc EXCEPT ![t] = label]

Count(m) == Len(objects[m])
Without(list, s) == SelectSeq(list, LAMBDA x : x # s)

\* The magazines nobody has ever used: mag_alloc takes one, and never gives one back.
Fresh ==
    Magazines \ ({loaded[c] : c \in Cpus} \cup {previous[c] : c \in Cpus} \cup {mag[t] : t \in Threads}
                 \cup {full_magazines[i] : i \in DOMAIN full_magazines}
                 \cup {empty_magazines[i] : i \in DOMAIN empty_magazines})

-----------------------------------------------------------------------------
(* slab_cache_alloc *)

\* Hand the last object of magazine m to the client.
Pop(m) ==
    /\ held' = held \cup {objects[m][Count(m)]}
    /\ objects' = [objects EXCEPT ![m] = SubSeq(@, 1, Count(m) - 1)]

AllocLoaded(t) ==
    LET c == cpu[t] IN
    /\ At(t, "idle")
    /\ loaded[c] # NULL /\ Count(loaded[c]) > 0
    /\ Pop(loaded[c])
    /\ UNCHANGED <<loaded, previous, full_magazines, empty_magazines, slabs, locals>>

\* Neither magazine of the CPU has an object.
LoadedEmpty(c) == ~(loaded[c] # NULL /\ Count(loaded[c]) > 0)
PreviousEmpty(c) == ~(previous[c] # NULL /\ Count(previous[c]) > 0)

AllocPrevious(t) ==
    LET c == cpu[t] IN
    /\ At(t, "idle")
    /\ LoadedEmpty(c) /\ ~PreviousEmpty(c)
    /\ Pop(previous[c])
    /\ loaded' = [loaded EXCEPT ![c] = previous[c]]
    /\ previous' = [previous EXCEPT ![c] = loaded[c]]
    /\ UNCHANGED <<full_magazines, empty_magazines, slabs, locals>>

AllocMiss(t) ==
    LET c == cpu[t] IN
    /\ At(t, "idle")
    /\ LoadedEmpty(c) /\ PreviousEmpty(c)
    /\ Goto(t, "alloc_depot")
    /\ UNCHANGED <<magazines, slabs, held, obj, mag, slab>>

\* mag_depot_get_full
AllocDepot(t) ==
    /\ At(t, "alloc_depot")
    /\ \/ /\ full_magazines # <<>>
          /\ mag' = [mag EXCEPT ![t] = Head(full_magazines)]
          /\ full_magazines' = Tail(full_magazines)
          /\ Goto(t, "alloc_put")
       \/ /\ full_magazines = <<>>
          /\ Goto(t, "alloc_lists")
          /\ UNCHANGED <<mag, full_magazines>>
    /\ UNCHANGED <<loaded, previous, objects, empty_magazines, slabs, held, obj, slab>>

\* mag_depot_put_empty of the loaded magazine, then the full one takes its place.
AllocPut(t) ==
    LET c == cpu[t] IN
    /\ At(t, "alloc_put")
    /\ empty_magazines' = IF loaded[c] # NULL /\ Count(loaded[c]) = 0
                          THEN <<loaded[c]>> \o empty_magazines ELSE empty_magazines
    /\ loaded' = [loaded EXCEPT ![c] = mag[t]]
    /\ Pop(mag[t])
    /\ mag' = [mag EXCEPT ![t] = NULL]
    /\ Goto(t, "idle")
    /\ UNCHANGED <<previous, full_magazines, slabs, obj, slab>>

\* The slab slab_alloc_from_lists takes an object of, when there is one.
Candidate == IF slabs_partial # <<>> THEN Head(slabs_partial)
             ELSE IF slabs_empty # <<>> THEN Head(slabs_empty) ELSE NULL

\* The list order after slab s, whose free list is now free, lost an object.
TakeFrom(s, free, partial) ==
    /\ held' = held \cup {Head(free)}
    /\ free_list' = [free_list EXCEPT ![s] = Tail(free)]
    /\ inuse_count' = [inuse_count EXCEPT ![s] = @ + 1]
    /\ IF inuse_count'[s] = OBJS_PER_SLAB
       THEN /\ slabs_partial' = Without(partial, s)
            /\ slabs_full' = <<s>> \o slabs_full
       ELSE /\ slabs_partial' = partial
            /\ UNCHANGED slabs_full

AllocLists(t) ==
    /\ At(t, "alloc_lists")
    /\ Candidate # NULL
    /\ TakeFrom(Candidate, free_list[Candidate],
                IF slabs_partial # <<>> THEN slabs_partial ELSE <<Candidate>>)
    /\ slabs_empty' = IF slabs_partial # <<>> THEN slabs_empty ELSE Tail(slabs_empty)
    /\ empty_slab_count' = IF slabs_partial # <<>> THEN empty_slab_count ELSE empty_slab_count - 1
    /\ Goto(t, "idle")
    /\ UNCHANGED <<magazines, backed, obj, mag, slab>>

\* slab_create_page: a page of the page allocator becomes a slab whose free
\* list is built from the first object on, each one in front of the last.
NewFreeList(s) == [i \in 1..OBJS_PER_SLAB |-> <<s, OBJS_PER_SLAB + 1 - i>>]

AllocCreate(t) ==
    /\ At(t, "alloc_lists")
    /\ Candidate = NULL
    /\ \E s \in Slabs \ (backed \cup {slab[u] : u \in Threads}) :
         /\ backed' = backed \cup {s}
         /\ held' = held \cup {Head(NewFreeList(s))}
         /\ free_list' = [free_list EXCEPT ![s] = Tail(NewFreeList(s))]
         /\ inuse_count' = [inuse_count EXCEPT ![s] = 1]
         /\ slabs_partial' = IF OBJS_PER_SLAB = 1 THEN <<>> ELSE <<s>>
         /\ slabs_full' = IF OBJS_PER_SLAB = 1 THEN <<s>> \o slabs_full ELSE slabs_full
    /\ Goto(t, "idle")
    /\ UNCHANGED <<magazines, slabs_empty, empty_slab_count, obj, mag, slab>>

\* The page allocator has no page left.
AllocFails(t) ==
    /\ At(t, "alloc_lists")
    /\ Candidate = NULL
    /\ Goto(t, "idle")
    /\ UNCHANGED <<magazines, slabs, held, obj, mag, slab>>

-----------------------------------------------------------------------------
(* slab_cache_free.  The client gives up the object o. *)

LoadedFull(c) == ~(loaded[c] # NULL /\ Count(loaded[c]) < MAGAZINE_SIZE)
PreviousFull(c) == ~(previous[c] # NULL /\ Count(previous[c]) < MAGAZINE_SIZE)

FreeLoaded(t, o) ==
    LET c == cpu[t] IN
    /\ At(t, "idle") /\ o \in held
    /\ ~LoadedFull(c)
    /\ held' = held \ {o}
    /\ objects' = [objects EXCEPT ![loaded[c]] = Append(@, o)]
    /\ UNCHANGED <<loaded, previous, full_magazines, empty_magazines, slabs, locals>>

FreePrevious(t, o) ==
    LET c == cpu[t] IN
    /\ At(t, "idle") /\ o \in held
    /\ LoadedFull(c) /\ ~PreviousFull(c)
    /\ held' = held \ {o}
    /\ objects' = [objects EXCEPT ![previous[c]] = Append(@, o)]
    /\ loaded' = [loaded EXCEPT ![c] = previous[c]]
    /\ previous' = [previous EXCEPT ![c] = loaded[c]]
    /\ UNCHANGED <<full_magazines, empty_magazines, slabs, locals>>

\* Both are full: mag_depot_put_full of the loaded one; without a loaded one
\* the object goes to its slab.
FreeMiss(t, o) ==
    LET c == cpu[t] IN
    /\ At(t, "idle") /\ o \in held
    /\ LoadedFull(c) /\ PreviousFull(c)
    /\ held' = held \ {o}
    /\ obj' = [obj EXCEPT ![t] = o]
    /\ full_magazines' = IF loaded[c] = NULL THEN full_magazines
                         ELSE <<loaded[c]>> \o full_magazines
    /\ Goto(t, IF loaded[c] = NULL THEN "free_lists" ELSE "free_get")
    /\ UNCHANGED <<loaded, previous, objects, empty_magazines, slabs, mag, slab>>

\* The object goes into the empty magazine m, which becomes the loaded one.
PushInto(t, m) ==
    /\ loaded' = [loaded EXCEPT ![cpu[t]] = m]
    /\ objects' = [objects EXCEPT ![m] = Append(@, obj[t])]
    /\ obj' = [obj EXCEPT ![t] = NULL]
    /\ Goto(t, "idle")

\* mag_depot_get_empty
FreeGet(t) ==
    /\ At(t, "free_get")
    /\ \/ /\ empty_magazines # <<>>
          /\ PushInto(t, Head(empty_magazines))
          /\ empty_magazines' = Tail(empty_magazines)
       \/ /\ empty_magazines = <<>>
          /\ Goto(t, "free_mag")
          /\ UNCHANGED <<loaded, objects, obj, empty_magazines>>
    /\ UNCHANGED <<previous, full_magazines, slabs, held, mag, slab>>

\* mag_alloc, which is an allocation of another cache.
FreeMag(t) ==
    /\ At(t, "free_mag")
    /\ \E m \in Fresh : PushInto(t, m)
    /\ UNCHANGED <<previous, full_magazines, empty_magazines, slabs, held, mag, slab>>

\* Mutant: the CPU keeps the magazine it gave to the depot.
FreeNoMag_Keeps(t) ==
    /\ At(t, "free_mag")
    /\ Goto(t, "free_lists")
    /\ UNCHANGED <<magazines, slabs, held, obj, mag, slab>>

\* Mutant: without a magazine the object is dropped.
FreeNoMag_Forgets(t) ==
    /\ At(t, "free_mag")
    /\ loaded' = [loaded EXCEPT ![cpu[t]] = NULL]
    /\ obj' = [obj EXCEPT ![t] = NULL]
    /\ Goto(t, "idle")
    /\ UNCHANGED <<previous, objects, full_magazines, empty_magazines, slabs, held, mag, slab>>

FreeNoMag(t) ==
    /\ At(t, "free_mag")
    /\ loaded' = [loaded EXCEPT ![cpu[t]] = NULL]
    /\ Goto(t, "free_lists")
    /\ UNCHANGED <<previous, objects, full_magazines, empty_magazines, slabs, held, obj, mag, slab>>

-----------------------------------------------------------------------------
(* slab_free_to_lists: o goes back to its slab; the thread goes on at label. *)

KeepEmpty == empty_slab_count < MAX_EMPTY

\* Mutant: a slab that was full is not moved to the partial slabs.
BackToPartial_Stays(s) == slabs_partial

BackToPartial(s) ==
    IF inuse_count[s] = OBJS_PER_SLAB THEN <<s>> \o slabs_partial ELSE slabs_partial

\* Every object of the cache lies on a page that is marked as a slab.
slab_free_to_lists(t, o, label, destroy) ==
    LET s == o[1] IN
    /\ s \in backed
    /\ free_list' = [free_list EXCEPT ![s] = <<o>> \o @]
    /\ inuse_count' = [inuse_count EXCEPT ![s] = @ - 1]
    /\ slabs_full' = IF inuse_count[s] = OBJS_PER_SLAB THEN Without(slabs_full, s) ELSE slabs_full
    /\ \/ /\ inuse_count[s] # 1
          /\ slabs_partial' = BackToPartial(s)
          /\ Goto(t, label)
          /\ UNCHANGED <<slabs_empty, empty_slab_count, slab>>
       \/ /\ inuse_count[s] = 1 /\ KeepEmpty
          /\ slabs_partial' = Without(BackToPartial(s), s)
          /\ slabs_empty' = <<s>> \o slabs_empty
          /\ empty_slab_count' = empty_slab_count + 1
          /\ Goto(t, label)
          /\ UNCHANGED slab
       \/ /\ inuse_count[s] = 1 /\ ~KeepEmpty
          /\ slabs_partial' = Without(BackToPartial(s), s)
          /\ slab' = [slab EXCEPT ![t] = s]
          /\ Goto(t, destroy)
          /\ UNCHANGED <<slabs_empty, empty_slab_count>>
    /\ UNCHANGED backed

\* slab_destroy_page, with no lock held.
slab_destroy_page(t) ==
    /\ backed' = backed \ {slab[t]}
    /\ slab' = [slab EXCEPT ![t] = NULL]
    /\ UNCHANGED <<slabs_partial, slabs_full, slabs_empty, empty_slab_count, inuse_count, free_list>>

FreeLists(t) ==
    /\ At(t, "free_lists")
    /\ slab_free_to_lists(t, obj[t], "idle", "free_destroy")
    /\ obj' = [obj EXCEPT ![t] = NULL]
    /\ UNCHANGED <<magazines, held, mag>>

FreeDestroy(t) ==
    /\ At(t, "free_destroy")
    /\ slab_destroy_page(t)
    /\ Goto(t, "idle")
    /\ UNCHANGED <<magazines, held, obj, mag>>

-----------------------------------------------------------------------------
(* slab_cache_reap *)

Reap(t) ==
    /\ At(t, "idle")
    /\ Goto(t, "reap_get")
    /\ UNCHANGED <<magazines, slabs, held, obj, mag, slab>>

ReapGet(t) ==
    /\ At(t, "reap_get")
    /\ \/ /\ full_magazines # <<>>
          /\ mag' = [mag EXCEPT ![t] = Head(full_magazines)]
          /\ full_magazines' = Tail(full_magazines)
          /\ Goto(t, "reap_objects")
       \/ /\ full_magazines = <<>>
          /\ Goto(t, "reap_slabs")
          /\ UNCHANGED <<mag, full_magazines>>
    /\ UNCHANGED <<loaded, previous, objects, empty_magazines, slabs, held, obj, slab>>

\* The objects of the magazine go back to their slabs one by one.
ReapObject(t) ==
    /\ At(t, "reap_objects")
    /\ Count(mag[t]) > 0
    /\ slab_free_to_lists(t, Head(objects[mag[t]]), "reap_objects", "reap_destroy")
    /\ objects' = [objects EXCEPT ![mag[t]] = Tail(@)]
    /\ UNCHANGED <<loaded, previous, full_magazines, empty_magazines, held, obj, mag>>

ReapDestroy(t) ==
    /\ At(t, "reap_destroy")
    /\ slab_destroy_page(t)
    /\ Goto(t, "reap_objects")
    /\ UNCHANGED <<magazines, held, obj, mag>>

ReapPut(t) ==
    /\ At(t, "reap_objects")
    /\ Count(mag[t]) = 0
    /\ empty_magazines' = <<mag[t]>> \o empty_magazines
    /\ mag' = [mag EXCEPT ![t] = NULL]
    /\ Goto(t, "reap_get")
    /\ UNCHANGED <<loaded, previous, objects, full_magazines, slabs, held, obj, slab>>

ReapSlab(t) ==
    /\ At(t, "reap_slabs")
    /\ slabs_empty # <<>>
    /\ slab' = [slab EXCEPT ![t] = Head(slabs_empty)]
    /\ slabs_empty' = Tail(slabs_empty)
    /\ empty_slab_count' = empty_slab_count - 1
    /\ Goto(t, "reap_slab_destroy")
    /\ UNCHANGED <<magazines, slabs_partial, slabs_full, inuse_count, free_list, backed, held, obj, mag>>

ReapSlabDestroy(t) ==
    /\ At(t, "reap_slab_destroy")
    /\ slab_destroy_page(t)
    /\ Goto(t, "reap_slabs")
    /\ UNCHANGED <<magazines, held, obj, mag>>

ReapDone(t) ==
    /\ At(t, "reap_slabs")
    /\ slabs_empty = <<>>
    /\ Goto(t, "idle")
    /\ UNCHANGED <<magazines, slabs, held, obj, mag, slab>>

-----------------------------------------------------------------------------

slab_cache_alloc(t) ==
    \/ AllocLoaded(t) \/ AllocPrevious(t) \/ AllocMiss(t) \/ AllocDepot(t)
    \/ AllocPut(t) \/ AllocLists(t) \/ AllocCreate(t) \/ AllocFails(t)

slab_cache_free(t) ==
    \/ \E o \in Objects : FreeLoaded(t, o) \/ FreePrevious(t, o) \/ FreeMiss(t, o)
    \/ FreeGet(t) \/ FreeMag(t) \/ FreeNoMag(t) \/ FreeLists(t) \/ FreeDestroy(t)

slab_cache_reap(t) ==
    \/ Reap(t) \/ ReapGet(t) \/ ReapObject(t) \/ ReapDestroy(t) \/ ReapPut(t)
    \/ ReapSlab(t) \/ ReapSlabDestroy(t) \/ ReapDone(t)

Next == \E t \in Threads : slab_cache_alloc(t) \/ slab_cache_free(t) \/ slab_cache_reap(t)

Spec == Init /\ [][Next]_vars

-----------------------------------------------------------------------------
(* Properties. *)

\* How often o appears in the sequence q.
Times(o, q) == Cardinality({i \in DOMAIN q : q[i] = o})

\* An object of a slab is at one place: with its client, in one slot of one
\* magazine, on the free list of its slab, or on its way there.  So no object is
\* handed out twice and none is lost, and a page that was given back has none.
Places(o) ==
    {<<"client">> : x \in {o} \cap held}
    \cup {<<"freed", t>> : t \in {u \in Threads : obj[u] = o}}
    \cup {<<"slot", p>> : p \in {x \in Magazines \X (1..(MAGAZINE_SIZE + 1)) :
                                   x[2] \in DOMAIN objects[x[1]] /\ objects[x[1]][x[2]] = o}}

ObjectAtOnePlace ==
    \A o \in Objects :
       Cardinality(Places(o)) + (IF o[1] \in backed THEN Times(o, free_list[o[1]]) ELSE 0)
          = IF o[1] \in backed THEN 1 ELSE 0

\* A magazine belongs to one CPU, to the depot or to the thread that took it
\* out of the depot, and only once; the full ones have an object to take, so
\* that the count of a magazine never drops below zero.
Slots(m) ==
    {<<"loaded", c>> : c \in {d \in Cpus : loaded[d] = m /\ \A t \in Threads :
                                cpu[t] = d => pc[t] \notin {"free_get", "free_mag"}}}
    \cup {<<"previous", c>> : c \in {d \in Cpus : previous[d] = m}}
    \cup {<<"full", i>> : i \in {j \in DOMAIN full_magazines : full_magazines[j] = m}}
    \cup {<<"empty", i>> : i \in {j \in DOMAIN empty_magazines : empty_magazines[j] = m}}
    \cup {<<"taken", t>> : t \in {u \in Threads : mag[u] = m}}

MagazineOwnedOnce ==
    /\ \A m \in Magazines : Cardinality(Slots(m)) <= 1
    /\ \A i \in DOMAIN full_magazines : Count(full_magazines[i]) > 0
    /\ \A i \in DOMAIN empty_magazines : Count(empty_magazines[i]) = 0

\* A slab is on the list that its objects in use call for, or about to be
\* destroyed: none is forgotten, and none is destroyed with objects in use.
Listed(s) ==
    {<<"partial", i>> : i \in {j \in DOMAIN slabs_partial : slabs_partial[j] = s}}
    \cup {<<"full", i>> : i \in {j \in DOMAIN slabs_full : slabs_full[j] = s}}
    \cup {<<"empty", i>> : i \in {j \in DOMAIN slabs_empty : slabs_empty[j] = s}}
    \cup {<<"destroyed", t>> : t \in {u \in Threads : slab[u] = s}}

SlabsListed ==
    /\ empty_slab_count = Len(slabs_empty)
    /\ \A s \in Slabs : Cardinality(Listed(s)) = IF s \in backed THEN 1 ELSE 0
    /\ \A s \in backed : inuse_count[s] + Len(free_list[s]) = OBJS_PER_SLAB
    /\ \A i \in DOMAIN slabs_partial : inuse_count[slabs_partial[i]] \in 1..(OBJS_PER_SLAB - 1)
    /\ \A i \in DOMAIN slabs_full : inuse_count[slabs_full[i]] = OBJS_PER_SLAB
    /\ \A i \in DOMAIN slabs_empty : inuse_count[slabs_empty[i]] = 0
    /\ \A t \in Threads : slab[t] # NULL => inuse_count[slab[t]] = 0

\* An object is at one place and a magazine has one owner, whatever the CPUs
\* exchange with the depot, and every slab is on the list its objects call for.
ObjectsOwned == ObjectAtOnePlace /\ MagazineOwnedOnce /\ SlabsListed
=============================================================================
