------------------------------- MODULE Kmalloc -------------------------------
(***************************************************************************)
(* The general heap on top of the slab caches (mem/slab.c): kmalloc,       *)
(* kcalloc, krealloc and kfree as one client sees them.  A small request   *)
(* goes to the first cache whose objects are large enough, a large one to  *)
(* the page allocator.  And where the objects of a slab lie in its page:   *)
(* the size of a cache's objects, how many fit, where the slab's own       *)
(* header goes, and the colour, an offset that differs from one slab to    *)
(* the next.                                                               *)
(***************************************************************************)
EXTENDS Integers, Sequences

CONSTANTS
    kmalloc_sizes,   \* the object sizes of the caches, ascending
    PMM_PAGE_SIZE,
    PMM_MAX_ORDER,
    SIZE_MAX,        \* the largest size_t: sizes wrap around above it
    Sizes,           \* the sizes that clients ask for
    Counts,          \* the counts they give to kcalloc
    ObjSizes,        \* the object sizes that caches are created for
    Alignments,
    SIZEOF_SLAB,     \* sizeof(slab_t), 80 on x86_64
    SLAB_MIN_ALIGN,
    NULL

SLAB_LIMIT == kmalloc_sizes[Len(kmalloc_sizes)]

VARIABLES
    block,    \* the bytes of the client's block, NULL when it has none
    asked,    \* how many bytes the client asked for
    owed,     \* how many bytes of its data the client counts on
    intact,   \* how many bytes of its data are in the block
    cache     \* a cache and the colours of its slabs

heap == <<block, asked, owed, intact>>

Init == block = NULL /\ asked = 0 /\ owed = 0 /\ intact = 0

Smaller(a, b) == IF a < b THEN a ELSE b
Larger(a, b) == IF a > b THEN a ELSE b

-----------------------------------------------------------------------------

\* pages_to_order: the smallest order whose block has that many pages.
pages_to_order(count) ==
    IF count > 2^(PMM_MAX_ORDER - 1) THEN PMM_MAX_ORDER
    ELSE CHOOSE k \in 0..(PMM_MAX_ORDER - 1) :
            2^k >= count /\ \A j \in 0..(k - 1) : 2^j < count

\* The first cache whose objects are large enough.
ClassOf(size) == CHOOSE i \in DOMAIN kmalloc_sizes :
    kmalloc_sizes[i] >= size /\ \A j \in 1..(i - 1) : kmalloc_sizes[j] < size

PageCount(size) == ((size + PMM_PAGE_SIZE - 1) % (SIZE_MAX + 1)) \div PMM_PAGE_SIZE

\* kmalloc_aligned: how large the block for a request is, NULL when it fails.
kmalloc_aligned(size, alignment) ==
    IF size = 0 THEN NULL
    ELSE IF size <= SLAB_LIMIT /\ alignment <= 64 THEN kmalloc_sizes[ClassOf(size)]
    ELSE LET order == pages_to_order(PageCount(size))
         IN IF order >= PMM_MAX_ORDER THEN NULL ELSE 2^order * PMM_PAGE_SIZE

\* The cache or the page allocator may also have nothing left.
Allocated(size, alignment) == {kmalloc_aligned(size, alignment), NULL}

-----------------------------------------------------------------------------

kmalloc(size, alignment) ==
    /\ block = NULL
    /\ block' \in Allocated(size, alignment)
    /\ asked' = IF block' = NULL THEN 0 ELSE size
    /\ owed' = asked'
    /\ intact' = asked'

kcalloc(n, size) ==
    /\ block = NULL
    /\ IF n # 0 /\ size > SIZE_MAX \div n
       THEN block' = NULL
       ELSE block' \in Allocated((n * size) % (SIZE_MAX + 1), 1)
    /\ asked' = IF block' = NULL THEN 0 ELSE n * size
    /\ owed' = asked'
    /\ intact' = asked'

kfree ==
    /\ block # NULL
    /\ block' = NULL
    /\ asked' = 0 /\ owed' = 0 /\ intact' = 0

\* krealloc keeps the block when it is large enough and not more than twice
\* as large, and otherwise moves what fits into a new one.
StaysPut(new_size) == block >= new_size /\ block <= (new_size * 2) % (SIZE_MAX + 1)

\* Mutant: the old size is taken for half of what it is.
Copied_Half(new_size) == Smaller(block \div 2, new_size)

Copied(new_size) == Smaller(block, new_size)

krealloc(new_size) ==
    /\ block # NULL /\ new_size # 0
    /\ \/ /\ StaysPut(new_size)
          /\ asked' = new_size
          /\ owed' = Smaller(owed, new_size)
          /\ intact' = Smaller(intact, new_size)
          /\ UNCHANGED block
       \/ /\ ~StaysPut(new_size)
          /\ kmalloc_aligned(new_size, 1) # NULL
          /\ block' = kmalloc_aligned(new_size, 1)
          /\ asked' = new_size
          /\ owed' = Smaller(owed, new_size)
          /\ intact' = Smaller(intact, Copied(new_size))
       \/ /\ ~StaysPut(new_size)   \* it fails, and the old block stays
          /\ UNCHANGED heap

\* The page count of the request wrapped around, and the block is too small for it.
\* A client that moves it with krealloc has then written where no block is.
Wrapped == asked > SIZE_MAX - (PMM_PAGE_SIZE - 1)

Next ==
    \/ \E size \in Sizes, alignment \in {1, 64, PMM_PAGE_SIZE} : kmalloc(size, alignment)
    \/ \E n \in Counts, size \in Sizes : kcalloc(n, size)
    \/ ~Wrapped /\ \E size \in Sizes : krealloc(size)
    \/ kfree

Spec == Init /\ [][Next]_heap

-----------------------------------------------------------------------------
(* slab_cache_create_with_ctor *)

align_up(val, a) == IF a <= 1 THEN val ELSE ((val + a - 1) \div a) * a

SIZEOF_POINTER == 8
COLOR_ALIGN == 64

obj_size == cache.obj_size
off_slab == obj_size >= 1024

\* sizeof(slab_t) and, for objects with a constructor, an index for each of n.
HeaderBytes(n) == align_up(SIZEOF_SLAB + (IF cache.ctor THEN 2 * n ELSE 0), 16)

\* What is left of the page for objects and colours.
Slack == IF off_slab THEN PMM_PAGE_SIZE
         ELSE PMM_PAGE_SIZE - HeaderBytes(PMM_PAGE_SIZE \div obj_size)

\* Mutant: the objects of a coloured slab may use the bytes of the colour too.
objs_per_slab_Greedy == PMM_PAGE_SIZE \div obj_size

color_max == Slack % obj_size
objs_per_slab == (Slack - color_max) \div obj_size

CacheInit ==
    \E size \in ObjSizes, alignment \in Alignments, ctor \in BOOLEAN :
       LET align == Larger(alignment, SLAB_MIN_ALIGN) IN
       cache = [obj_size |-> Larger(align_up(size, align), SIZEOF_POINTER), ctor |-> ctor,
                color_next |-> 0, color_offset |-> 0]

slab_create_page ==
    cache' = [cache EXCEPT
       !.color_offset = cache.color_next,
       !.color_next = IF color_max >= COLOR_ALIGN THEN (@ + COLOR_ALIGN) % (color_max + 1) ELSE @]

CacheSpec == CacheInit /\ [][slab_create_page]_cache

-----------------------------------------------------------------------------
(* Properties. *)

\* The block is as large as what was asked for, at every boundary between two
\* caches, between caches and pages and between two orders, and when the
\* product of kcalloc does not fit a size_t; but for the requests of the last page
\* below SIZE_MAX, whose page count wraps around to that of an empty one.
BlockLargeEnough == block # NULL /\ ~Wrapped => block >= asked

\* Through any sequence of krealloc, up and down, the client finds its data as
\* far as no size in between cut it off.
ContentsKept == ~Wrapped => intact >= owed

ObjectAt(i) == cache.color_offset + i * obj_size

\* Where the header of a slab that keeps it in its own page begins.
HeaderAt == IF off_slab THEN PMM_PAGE_SIZE ELSE PMM_PAGE_SIZE - HeaderBytes(objs_per_slab)

\* Whatever its colour, a slab has at least one object, and the last one ends
\* before the header, so that no client ever writes over it.
ObjectsFit ==
    /\ objs_per_slab >= 1
    /\ cache.color_offset \in 0..color_max
    /\ ObjectAt(objs_per_slab) <= HeaderAt
=============================================================================
