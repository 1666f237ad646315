-------------------------------- MODULE Pool --------------------------------
(***************************************************************************)
(* The allocator of a VM (src/core/pool.c): requests of at most            *)
(* SmallRequest bytes come from pools of one size class carved out of      *)
(* arenas the host provides, larger ones from the host itself.             *)
(*                                                                         *)
(* A pool is <<arena, slot>>.  The addresses of the blocks of a pool are   *)
(* abstracted to counts: `ref` blocks are handed out, `free` blocks are on *)
(* its free chain and the bytes from `next` on were never carved.  The     *)
(* `live` and `large` variables are the callers' side: what they hold and  *)
(* may give back.                                                          *)
(***************************************************************************)
EXTENDS Integers, Sequences, FiniteSets, SequencesExt, Functions

CONSTANTS
    Alignment,      \* TINYPY_INTERNAL_ALIGNMENT
    SmallRequest,   \* TINYPY_INTERNAL_POOL_SMALL_REQUEST
    PoolSize,       \* TINYPY_INTERNAL_POOL_SIZE
    PoolHeader,     \* the rounded size of tinypy_pool_t
    ArenaPools,     \* pools of an arena whose memory is aligned to a pool
    InitialArenas,  \* TINYPY_INTERNAL_POOL_INITIAL_ARENAS
    TableEntry,     \* sizeof(tinypy_pool_arena_t)
    TransientSize,  \* the block size of the compiler arena
    TransientLimit, \* TINYPY_INTERNAL_POOL_TRANSIENT_CACHE_LIMIT
    VmSize,         \* sizeof(tinypy_vm_t)
    Budgets,        \* the max_heap_bytes a host may configure; 0 is none
    Sizes,          \* the sizes callers ask for, with each budget
    LostPools,      \* pools an arena may lose to the alignment of its memory
    HostRefuses,    \* the budgets with which the host may refuse memory
    MaxArenas,      \* bound: entries of the arena table that are used
    MaxLive         \* bound: blocks the callers hold at once

\* A pool holds two blocks of every class, and an arena keeps two pools even
\* when its memory is misaligned: what the sizes of pool.h amount to.
ASSUME PoolAssumption ==
    /\ {Alignment, PoolSize, PoolHeader, ArenaPools, InitialArenas, TableEntry,
        TransientSize, VmSize, MaxArenas, MaxLive} \subseteq Nat \ {0}
    /\ SmallRequest \in Nat /\ SmallRequest % Alignment = 0
    /\ PoolSize - PoolHeader >= 2 * SmallRequest
    /\ ArenaPools >= 3
    /\ TransientSize > SmallRequest /\ TransientLimit \in Nat
    /\ LostPools \subseteq {0, 1} /\ HostRefuses \subseteq Budgets
    /\ 0 \in Budgets /\ Budgets \subseteq Nat /\ Sizes \in [Budgets -> SUBSET (Nat \ {0})]
    /\ IsFiniteSet(UNION Range(Sizes))

VARIABLES
    al,       \* vm->pool_allocator and the heap accounting of the VM
    phase,    \* where the VM is in its life
    live,     \* small blocks the callers hold, per pool
    large     \* direct blocks the callers hold, per size

vars == <<al, phase, live, large>>

ArenaSize  == ArenaPools * PoolSize
ClassCount == SmallRequest \div Alignment
Classes    == 1 .. ClassCount
Arenas     == 1 .. MaxArenas
Pools      == Arenas \X (1 .. ArenaPools)
LargeSizes == {r \in UNION Range(Sizes) : r > SmallRequest} \cup {TransientSize}
NoPool     == <<0, 0>>
DummyClass == 0                    \* TINYPY_INTERNAL_POOL_DUMMY_SIZE_CLASS

SizeClass(size) == ((size - 1) \div Alignment) + 1
BlockSize(c)    == c * Alignment

UnusedArena == [free |-> 0, total |-> 0, kept |-> 0, freePools |-> <<>>, bump |-> 1]
RawPool     == [ref |-> 0, class |-> DummyClass, free |-> 0, next |-> 0]

\* An allocator without arenas.
Emptied(bytes, refused, maxHeap) ==
    [arena  |-> [a \in Arenas |-> UnusedArena],
     pool   |-> [p \in Pools |-> RawPool],
     used   |-> [c \in Classes |-> <<>>],
     kept   |-> [c \in Classes |-> NoPool],
     unused |-> <<>>, usable |-> <<>>, table |-> 0, active |-> 0, cachedBytes |-> 0,
     bytes  |-> bytes, refused |-> refused, maxHeap |-> maxHeap]

PoolInitialize == Emptied(VmSize, FALSE, 0)

-----------------------------------------------------------------------------
(* The host memory and the arena table.                                    *)

\* The budget test every checked request makes before it grows the heap.
Fits(h, growth) == h.maxHeap = 0 \/ (h.bytes <= h.maxHeap /\ growth <= h.maxHeap - h.bytes)

\* mutant: the growth is compared with the whole budget
HostOutcomes_GrowthUnchecked(h, growth, checked) ==
    IF checked /\ h.maxHeap # 0 /\ growth > h.maxHeap THEN {<<h, FALSE>>}
    ELSE {<<[h EXCEPT !.bytes = @ + growth], TRUE>>}
         \cup {<<[g EXCEPT !.refused = TRUE], FALSE>> : g \in {x \in {h} : h.maxHeap \in HostRefuses}}

\* The outcomes of asking the host for memory, or of having it resize what it
\* gave: the allocator and whether the request was met.
HostOutcomes(h, growth, checked) ==
    IF checked /\ growth > 0 /\ ~Fits(h, growth) THEN {<<h, FALSE>>}
    ELSE {<<[h EXCEPT !.bytes = @ + growth], TRUE>>}
         \cup {<<[g EXCEPT !.refused = TRUE], FALSE>> : g \in {x \in {h} : h.maxHeap \in HostRefuses}}

TableGrowth(h) == ((IF h.table # 0 THEN 2 * h.table ELSE InitialArenas) - h.table)

GrowArenaTable(h, checked) ==
    {IF r[2] THEN <<[r[1] EXCEPT !.unused = [i \in 1 .. TableGrowth(h) |-> h.table + i],
                                 !.table  = @ + TableGrowth(h)], TRUE>>
             ELSE r : r \in HostOutcomes(h, TableGrowth(h) * TableEntry, checked)}

\* mutant: the growth of the table is left to its own check
ArenaGrowth_NoTable(h) == ArenaSize

ArenaGrowth(h) == ArenaSize + (IF h.unused # <<>> THEN 0 ELSE TableGrowth(h) * TableEntry)

\* A new arena takes the first unused entry and becomes the only usable one.
LinkArena(h, total) ==
    LET b == Head(h.unused)
    IN  [h EXCEPT !.unused = Tail(@), !.usable = <<b>>, !.active = @ + 1,
                  !.arena[b] = [UnusedArena EXCEPT !.free = total, !.total = total]]

\* The memory of an arena may be misaligned, which costs it a pool.
ArenaOutcomes(h, checked) ==
    UNION {IF r[2] THEN {<<LinkArena(r[1], ArenaPools - lost), TRUE>> : lost \in LostPools} ELSE {r}
             : r \in HostOutcomes(h, ArenaSize, checked)}

\* The outcomes of a request for a new arena: the table grows first when it has
\* no unused entry.
NewArena(h, checked) ==
    IF checked /\ ~Fits(h, ArenaGrowth(h)) THEN {<<h, FALSE>>}
    ELSE IF h.unused # <<>> THEN ArenaOutcomes(h, checked)
    ELSE UNION {IF t[2] THEN ArenaOutcomes(t[1], checked) ELSE {t} : t \in GrowArenaTable(h, checked)}

-----------------------------------------------------------------------------
(* Pools and arenas given back.                                            *)

\* The list without a node that is linked on it.
Unlinked(s, e) == RemoveAt(s, CHOOSE i \in DOMAIN s : s[i] = e)

LinkUsedFront(h, p) == [h EXCEPT !.used[h.pool[p].class] = <<p>> \o @]
UnlinkUsed(h, p)    == [h EXCEPT !.used[h.pool[p].class] = Unlinked(@, p)]

ReleaseArena(h, a) ==
    [h EXCEPT !.usable = Unlinked(@, a),
              !.unused = <<a>> \o @,
              !.arena[a] = UnusedArena,
              !.pool   = [p \in Pools |-> IF p[1] = a THEN RawPool ELSE @[p]],
              !.active = @ - 1,
              !.bytes  = @ - ArenaSize]

\* mutant: compares the count the arena had before its pool came back
SlideUsableArena_Stale(h, a) ==
    LET s    == h.usable
        at   == CHOOSE i \in DOMAIN s : s[i] = a
        last == CHOOSE i \in at .. Len(s) :
                    /\ \A j \in at + 1 .. i : h.arena[s[j]].free < h.arena[a].free - 1
                    /\ i < Len(s) => h.arena[s[i + 1]].free >= h.arena[a].free - 1
    IN  [h EXCEPT !.usable = SubSeq(s, 1, at - 1) \o SubSeq(s, at + 1, last)
                             \o <<a>> \o SubSeq(s, last + 1, Len(s))]

\* The arena moves past the arenas behind it that have fewer free pools.
SlideUsableArena(h, a) ==
    LET s    == h.usable
        at   == CHOOSE i \in DOMAIN s : s[i] = a
        last == CHOOSE i \in at .. Len(s) :
                    /\ \A j \in at + 1 .. i : h.arena[s[j]].free < h.arena[a].free
                    /\ i < Len(s) => h.arena[s[i + 1]].free >= h.arena[a].free
    IN  [h EXCEPT !.usable = SubSeq(s, 1, at - 1) \o SubSeq(s, at + 1, last)
                             \o <<a>> \o SubSeq(s, last + 1, Len(s))]

HasNext(h, a) == a \in Range(h.usable) /\ Last(h.usable) # a

\* mutant: the arena is not told of the pool
ReleasePool_UnlinkOnly(h, p) == [UnlinkUsed(h, p) EXCEPT !.arena[p[1]].kept = @ - 1]

\* mutant: a wholly free arena is retained whatever is behind it
ReleasePool_Retains(h, p) ==
    LET a == p[1]
        g == [UnlinkUsed(h, p) EXCEPT !.arena[a].freePools = <<p>> \o @,
                                      !.arena[a].free = @ + 1]
    IN  IF g.arena[a].free = g.arena[a].total /\ h.maxHeap # 0 THEN ReleaseArena(g, a)
        ELSE IF g.arena[a].free = 1 THEN [g EXCEPT !.usable = <<a>> \o @]
        ELSE SlideUsableArena(g, a)

ReleasePool(h, p) ==
    LET a == p[1]
        g == [UnlinkUsed(h, p) EXCEPT !.arena[a].freePools = <<p>> \o @,
                                      !.arena[a].free = @ + 1]
    IN  IF g.arena[a].free = g.arena[a].total /\ (HasNext(g, a) \/ h.maxHeap # 0)
          THEN ReleaseArena(g, a)
        ELSE IF g.arena[a].free = 1
          THEN [g EXCEPT !.usable = <<a>> \o @]
        ELSE SlideUsableArena(g, a)

\* mutant: the dropped pool is returned though it is in use again
DropKeptPool_InUse(h, c) ==
    LET p == h.kept[c]
    IN  ReleasePool([h EXCEPT !.kept[c] = NoPool, !.arena[p[1]].kept = @ - 1], p)

DropKeptPool(h, c) ==
    LET p == h.kept[c]
        g == [h EXCEPT !.kept[c] = NoPool, !.arena[p[1]].kept = @ - 1]
    IN  IF h.pool[p].ref = 0 THEN ReleasePool(g, p) ELSE g

DropIfIn(h, arenas, c) ==
    IF h.kept[c] # NoPool /\ h.kept[c][1] \in arenas THEN DropKeptPool(h, c) ELSE h

\* The loops over the size classes that drop the kept pools of some arenas:
\* after[c] is the allocator once class c was looked at.
DropKeptPools(h, arenas) ==
    LET after[c \in 0 .. ClassCount] == IF c = 0 THEN h ELSE DropIfIn(after[c - 1], arenas, c)
    IN  after[ClassCount]

\* mutant: the kept pools of the arena are not reconsidered
EmptyPool_KeepsArena(h, p) ==
    LET c    == h.pool[p].class
        k    == h.kept[c]
        keep == h.maxHeap = 0 /\ (k = NoPool \/ h.pool[k].ref # 0)
    IN  IF keep
          THEN [(IF k # NoPool THEN DropKeptPool(h, c) ELSE h)
                   EXCEPT !.kept[c] = p, !.arena[p[1]].kept = @ + 1]
          ELSE ReleasePool(h, p)

\* mutant: the former kept pool of the class is forgotten, not dropped
EmptyPool_Overwrites(h, p) ==
    LET c    == h.pool[p].class
        k    == h.kept[c]
        g    == IF h.maxHeap = 0
                  THEN [h EXCEPT !.kept[c] = p, !.arena[p[1]].kept = @ + 1]
                  ELSE ReleasePool(h, p)
        a    == g.arena[p[1]]
    IN  IF a.kept = 0 \/ a.free + a.kept # a.total THEN g
        ELSE DropKeptPools(g, {p[1]})

EmptyPool(h, p) ==
    LET c    == h.pool[p].class
        k    == h.kept[c]
        keep == h.maxHeap = 0 /\ (k = NoPool \/ h.pool[k].ref # 0)
        g    == IF keep
                  THEN [(IF k # NoPool THEN DropKeptPool(h, c) ELSE h)
                           EXCEPT !.kept[c] = p, !.arena[p[1]].kept = @ + 1]
                  ELSE ReleasePool(h, p)
        a    == g.arena[p[1]]
    IN  IF a.kept = 0 \/ a.free + a.kept # a.total THEN g
        ELSE DropKeptPools(g, {p[1]})

ReleaseIfFree(h, a) == IF h.arena[a].free = h.arena[a].total THEN ReleaseArena(h, a) ELSE h

\* The loop over the usable arenas that gives the wholly free ones back.
ReleaseFreeArenas(h) ==
    LET after[i \in 0 .. Len(h.usable)] == IF i = 0 THEN h ELSE ReleaseIfFree(after[i - 1], h.usable[i])
    IN  after[Len(h.usable)]

\* mutant: the transient allocations stay counted
Trim_CacheCounted(h) == ReleaseFreeArenas(DropKeptPools([h EXCEPT !.cachedBytes = 0], Arenas))

Trim(h) ==
    LET uncached == [h EXCEPT !.bytes = @ - h.cachedBytes, !.cachedBytes = 0]
    IN  ReleaseFreeArenas(DropKeptPools(uncached, Arenas))

-----------------------------------------------------------------------------
(* Small blocks.                                                           *)

\* mutant: a pool is unlinked before its last bytes are carved
TakeFromUsed_NoCarve(h, p) ==
    LET g == [h EXCEPT !.pool[p] = [@ EXCEPT !.ref = @ + 1, !.free = @ - 1]]
    IN  IF g.pool[p].free = 0 /\ g.pool[p].ref > 2 THEN UnlinkUsed(g, p) ELSE g

\* A block of the first used pool of its class, which is unlinked once full.
TakeFromUsed(h, p) ==
    LET q  == h.pool[p]
        bs == BlockSize(q.class)
        carve == q.free = 1 /\ q.next <= PoolSize - bs
        g  == [h EXCEPT !.pool[p] = [q EXCEPT !.ref  = @ + 1,
                                              !.free = IF carve THEN 1 ELSE @ - 1,
                                              !.next = IF carve THEN @ + bs ELSE @]]
    IN  IF g.pool[p].free = 0 THEN UnlinkUsed(g, p) ELSE g

\* A pool of the first usable arena: a returned one before an untouched one.
FirstPool(h) ==
    LET a == Head(h.usable)
    IN  IF h.arena[a].freePools # <<>> THEN Head(h.arena[a].freePools) ELSE <<a, h.arena[a].bump>>

TakeFromArena(h, c) ==
    LET a == Head(h.usable)
        x == h.arena[a]
        recycled == x.freePools # <<>>
        p == FirstPool(h)
        q == h.pool[p]
        g == [h EXCEPT !.arena[a] = [x EXCEPT !.free = @ - 1,
                                              !.freePools = IF recycled THEN Tail(@) ELSE @,
                                              !.bump = IF recycled THEN @ ELSE @ + 1],
                       !.usable = IF x.free = 1 THEN Tail(@) ELSE @,
                       !.pool[p] = IF q.class = c
                                     THEN [q EXCEPT !.ref = 1, !.free = @ - 1]
                                     ELSE [ref |-> 1, class |-> c, free |-> 1,
                                           next |-> PoolHeader + 2 * BlockSize(c)]]
    IN  LinkUsedFront(g, p)

\* mutant: a new arena is taken whenever the first usable one holds no
\* returned pool
SmallOutcomes_EagerArena(h, c, checked) ==
    IF h.used[c] # <<>> THEN {<<TakeFromUsed(h, Head(h.used[c])), Head(h.used[c])>>}
    ELSE LET hasFree == h.usable # <<>> /\ h.arena[Head(h.usable)].freePools # <<>>
             arenas  == IF hasFree THEN {<<h, TRUE>>} ELSE NewArena(h, checked)
         IN  {IF r[2] THEN <<TakeFromArena(r[1], c), FirstPool(r[1])>> ELSE <<r[1], NoPool>> : r \in arenas}

\* The outcomes of a small request: the allocator and the pool of the block,
\* NoPool when the request is refused.
SmallOutcomes(h, c, checked) ==
    IF h.used[c] # <<>> THEN {<<TakeFromUsed(h, Head(h.used[c])), Head(h.used[c])>>}
    ELSE LET arenas == IF h.usable # <<>> THEN {<<h, TRUE>>} ELSE NewArena(h, checked)
         IN  {IF r[2] THEN <<TakeFromArena(r[1], c), FirstPool(r[1])>> ELSE <<r[1], NoPool>> : r \in arenas}

FreeSmall(h, p) ==
    LET q == h.pool[p]
        g == [h EXCEPT !.pool[p] = [q EXCEPT !.ref = @ - 1, !.free = @ + 1]]
    IN  IF q.free = 0 THEN LinkUsedFront(g, p)
        ELSE IF q.ref # 1 \/ h.kept[q.class] = p THEN g
        ELSE EmptyPool(g, p)

-----------------------------------------------------------------------------
(* The operations of pool.h, with what the callers hold before and after.  *)

Running == phase \in {"bootstrap", "live"}

Held == FoldFunction(+, 0, live) + FoldFunction(+, 0, large)

NeedsArena(size) == size <= SmallRequest /\ al.used[SizeClass(size)] = <<>> /\ al.usable = <<>>

\* The entry of the arena table the next arena takes.
NextArena == IF al.unused # <<>> THEN Head(al.unused) ELSE al.table + 1

\* The bounds: the callers hold fewer than MaxLive blocks, and a request that
\* needs a new arena is made only while one of the first MaxArenas entries of
\* the table is next.
WithinBounds(size) ==
    /\ Held < MaxLive
    /\ NeedsArena(size) => NextArena \in Arenas

Allocate(size, checked) ==
    /\ Running
    /\ WithinBounds(size)
    /\ IF size <= SmallRequest
         THEN \E r \in SmallOutcomes(al, SizeClass(size), checked) :
                /\ al' = r[1]
                /\ live' = IF r[2] = NoPool THEN live ELSE [live EXCEPT ![r[2]] = @ + 1]
                /\ UNCHANGED large
         ELSE \E r \in HostOutcomes(al, size, checked) :
                /\ al' = r[1]
                /\ large' = IF r[2] THEN [large EXCEPT ![size] = @ + 1] ELSE large
                /\ UNCHANGED live
    /\ UNCHANGED phase

DeallocateSmall(p) ==
    /\ phase # "finalized" /\ live[p] > 0
    /\ al' = FreeSmall(al, p)
    /\ live' = [live EXCEPT ![p] = @ - 1]
    /\ UNCHANGED <<phase, large>>

DeallocateLarge(size) ==
    /\ phase # "finalized" /\ large[size] > 0
    /\ al' = [al EXCEPT !.bytes = @ - size]
    /\ large' = [large EXCEPT ![size] = @ - 1]
    /\ UNCHANGED <<phase, live>>

\* A small block stays in place while the new size uses more than three
\* quarters of it; otherwise the new block is taken before the old one is
\* given back, so a refused request leaves the caller its block.
InPlace(p, size) ==
    LET bs == BlockSize(al.pool[p].class) IN size <= bs /\ size > bs - (bs \div 4)

ReallocateSmall(p, size, checked) ==
    /\ Running /\ live[p] > 0 /\ ~InPlace(p, size)
    /\ WithinBounds(size)
    /\ IF size <= SmallRequest
         THEN \E r \in SmallOutcomes(al, SizeClass(size), checked) :
                IF r[2] = NoPool
                  THEN al' = r[1] /\ UNCHANGED <<live, large>>
                  ELSE /\ al' = FreeSmall(r[1], p)
                       /\ live' = [[live EXCEPT ![r[2]] = @ + 1] EXCEPT ![p] = @ - 1]
                       /\ UNCHANGED large
         ELSE \E r \in HostOutcomes(al, size, checked) :
                IF r[2]
                  THEN /\ al' = FreeSmall(r[1], p)
                       /\ live' = [live EXCEPT ![p] = @ - 1]
                       /\ large' = [large EXCEPT ![size] = @ + 1]
                  ELSE al' = r[1] /\ UNCHANGED <<live, large>>
    /\ UNCHANGED phase

\* The host resizes a direct block; only growth is tested against the budget.
ReallocateLarge(old, size, checked) ==
    /\ Running /\ large[old] > 0 /\ size # old
    /\ WithinBounds(size)
    /\ IF size <= SmallRequest
         THEN \E r \in SmallOutcomes(al, SizeClass(size), checked) :
                IF r[2] = NoPool
                  THEN al' = r[1] /\ UNCHANGED <<live, large>>
                  ELSE /\ al' = [r[1] EXCEPT !.bytes = @ - old]
                       /\ live' = [live EXCEPT ![r[2]] = @ + 1]
                       /\ large' = [large EXCEPT ![old] = @ - 1]
         ELSE \E r \in HostOutcomes(al, size - old, checked) :
                /\ al' = r[1]
                /\ large' = IF r[2] THEN [large EXCEPT ![old] = @ - 1, ![size] = @ + 1] ELSE large
                /\ UNCHANGED live
    /\ UNCHANGED phase

TransientTake ==
    /\ Running /\ al.cachedBytes > 0
    /\ al' = [al EXCEPT !.cachedBytes = @ - TransientSize]
    /\ large' = [large EXCEPT ![TransientSize] = @ + 1]
    /\ UNCHANGED <<phase, live>>

\* Refused by the cache, the block is deallocated: DeallocateLarge.
TransientPut ==
    /\ phase # "finalized" /\ large[TransientSize] > 0
    /\ al.maxHeap = 0 /\ TransientSize <= TransientLimit - al.cachedBytes
    /\ al' = [al EXCEPT !.cachedBytes = @ + TransientSize]
    /\ large' = [large EXCEPT ![TransientSize] = @ - 1]
    /\ UNCHANGED <<phase, live>>

\* The end of tinypy_vm_create: the bootstrap ran without the budget and must
\* fit it as a whole.
FinishCreate(budget) ==
    /\ phase = "bootstrap"
    /\ IF al.refused \/ (budget # 0 /\ al.bytes > budget)
         THEN phase' = "destroying" /\ UNCHANGED al
         ELSE /\ phase' = "live"
              /\ al' = LET h == [al EXCEPT !.maxHeap = budget]
                       IN  IF budget # 0 THEN Trim(h) ELSE h
    /\ UNCHANGED <<live, large>>

Destroy ==
    /\ phase = "live"
    /\ phase' = "destroying"
    /\ UNCHANGED <<al, live, large>>

\* tinypy_internal_pool_finalize, once the objects of the VM are destroyed.
Finalize ==
    /\ phase = "destroying"
    /\ \A p \in Pools : live[p] = 0
    /\ \A size \in LargeSizes : large[size] = 0
    /\ LET h == Trim(al)
       IN  al' = Emptied(h.bytes - h.table * TableEntry, h.refused, h.maxHeap)
    /\ phase' = "finalized"
    /\ UNCHANGED <<live, large>>

-----------------------------------------------------------------------------
Init ==
    /\ al = PoolInitialize
    /\ phase = "bootstrap"
    /\ live = [p \in Pools |-> 0]
    /\ large = [s \in LargeSizes |-> 0]

Requests == Sizes[al.maxHeap]

Next ==
    \/ \E size \in Requests, checked \in BOOLEAN : Allocate(size, checked)
    \/ \E p \in Pools : DeallocateSmall(p)
    \/ \E size \in LargeSizes : DeallocateLarge(size)
    \/ \E p \in Pools, size \in Requests, checked \in BOOLEAN : ReallocateSmall(p, size, checked)
    \/ \E old \in LargeSizes, size \in Requests, checked \in BOOLEAN : ReallocateLarge(old, size, checked)
    \/ TransientTake
    \/ TransientPut
    \/ \E budget \in Budgets : FinishCreate(budget)
    \/ Destroy
    \/ Finalize

Spec == Init /\ [][Next]_vars

-----------------------------------------------------------------------------
(* Properties.                                                             *)

ArenaRecord == [free : 0 .. ArenaPools, total : 0 .. ArenaPools, kept : 0 .. ArenaPools,
                freePools : Seq(Pools), bump : 1 .. ArenaPools + 1]
PoolRecord  == [ref : Nat, class : Classes \cup {DummyClass}, free : Nat, next : 0 .. PoolSize]

\* The type invariant of the allocator and of what its callers hold.
TypeOk ==
    /\ al.arena \in [Arenas -> ArenaRecord] /\ al.pool \in [Pools -> PoolRecord]
    /\ al.used \in [Classes -> Seq(Pools)]
    /\ al.kept \in [Classes -> Pools \cup {NoPool}]
    /\ al.unused \in Seq(Nat \ {0}) /\ al.usable \in Seq(Arenas)
    /\ {al.table, al.active, al.cachedBytes, al.bytes, al.maxHeap} \subseteq Nat
    /\ al.refused \in BOOLEAN
    /\ phase \in {"bootstrap", "live", "destroying", "finalized"}
    /\ live \in [Pools -> Nat] /\ large \in [LargeSizes -> Nat]

ActiveArenas   == {a \in Arenas : al.arena[a].total > 0}
FreeArenas     == {a \in ActiveArenas : al.arena[a].free = al.arena[a].total}
ArenaSlots(a)  == {<<a, i>> : i \in 1 .. al.arena[a].total}
Untouched(a)   == {p \in ArenaSlots(a) : p[2] >= al.arena[a].bump}
Returned(a)    == Range(al.arena[a].freePools)
Linked(a)      == {p \in ArenaSlots(a) : \E c \in Classes : p \in Range(al.used[c])}
Full(a)        == {p \in ArenaSlots(a) \ (Untouched(a) \cup Returned(a)) : al.pool[p].free = 0}

\* A pool of an arena is in exactly one place: never carved, returned to its
\* arena, linked on the used pools of its class and of no other, or full and
\* on no list; so deallocate, which finds a pool by the address of a block
\* alone, may trust the links of that pool.
PoolsInOnePlace ==
    /\ \A c \in Classes : IsInjective(al.used[c]) /\ \A p \in Range(al.used[c]) :
          /\ al.pool[p].class = c /\ al.pool[p].free > 0 /\ p[1] \in ActiveArenas
    /\ \A a \in ActiveArenas :
          /\ IsInjective(al.arena[a].freePools)
          /\ ArenaSlots(a) = Untouched(a) \cup Returned(a) \cup Linked(a) \cup Full(a)
          /\ (Untouched(a) \cup Returned(a)) \cap Linked(a) = {}
          /\ Untouched(a) \cap Returned(a) = {}
          /\ al.arena[a].free = Cardinality(Untouched(a)) + Cardinality(Returned(a))

\* The blocks a pool counts as handed out are exactly those callers hold, and
\* the rest of the pool can still be handed out: no block of a pool that was
\* returned, dropped, recycled or whose arena went back is in a caller's hands.
BlocksHeldAreCounted ==
    \A p \in Pools :
        /\ al.pool[p].ref = live[p]
        /\ live[p] > 0 => /\ p \notin Untouched(p[1]) \cup Returned(p[1]) /\ p[1] \in ActiveArenas
                          /\ (al.pool[p].next - PoolHeader) \div BlockSize(al.pool[p].class)
                                = al.pool[p].ref + al.pool[p].free

\* usable_arenas lists exactly the arenas with a free pool, the fullest first,
\* which empties the emptier ones so that they can go back to the host.
UsableArenasOrdered ==
    /\ IsInjective(al.usable)
    /\ Range(al.usable) = {a \in ActiveArenas : al.arena[a].free > 0}
    /\ \A i, j \in DOMAIN al.usable : i < j => al.arena[al.usable[i]].free <= al.arena[al.usable[j]].free

\* Of the arenas without a used pool at most the last usable one is retained,
\* and none under a heap budget.
OneFreeArena ==
    /\ Cardinality(FreeArenas) <= IF al.maxHeap = 0 THEN 1 ELSE 0
    /\ \A a \in FreeArenas : Last(al.usable) = a

\* kept_pool_count of an arena counts its kept pools, a class has no empty
\* pool but its kept one, and under a heap budget no pool is kept.
KeptPoolsCounted ==
    /\ \A a \in ActiveArenas :
          al.arena[a].kept = Cardinality({c \in Classes : al.kept[c] # NoPool /\ al.kept[c][1] = a})
    /\ \A c \in Classes : \A p \in Range(al.used[c]) : al.pool[p].ref = 0 => al.kept[c] = p
    /\ \A c \in Classes : al.kept[c] # NoPool =>
          al.maxHeap = 0 /\ al.kept[c][1] \in ActiveArenas /\ al.pool[al.kept[c]].class = c

\* Kept pools stay only while their arena holds a used pool that is not kept,
\* so keeping one never keeps an arena from the host.
KeptPoolsHoldNoArena ==
    \A a \in ActiveArenas : al.arena[a].kept > 0 => al.arena[a].free + al.arena[a].kept < al.arena[a].total

\* allocated_bytes is the VM, the arena table, the arenas, the direct blocks
\* callers hold and the cached transient ones; after pool_finalize the VM only.
BytesExact ==
    /\ al.active = Cardinality(ActiveArenas)
    /\ al.bytes = VmSize + al.table * TableEntry + al.active * ArenaSize + al.cachedBytes
                  + FoldFunctionOnSet(+, 0, [s \in LargeSizes |-> s * large[s]], LargeSizes)
    /\ phase = "finalized" => al.bytes = VmSize

\* A checked request never takes the heap past the budget.
CheckedStaysInBudget ==
    [][\A size \in Requests :
          al.maxHeap # 0 /\ Allocate(size, TRUE) /\ al'.bytes > al.bytes => al'.bytes <= al.maxHeap]_vars

\* A checked request the budget refuses takes nothing: it does not leave a
\* grown arena table behind.
RefusalTakesNothing ==
    [][\A size \in Requests :
          al.maxHeap # 0 /\ Allocate(size, TRUE) /\ UNCHANGED <<live, large>> /\ ~al'.refused => al' = al]_vars

\* The arena table moves in memory only while neither list of arenas points
\* into it.
TableMovesUnreferenced ==
    [][al'.table > al.table => al.usable = <<>> /\ al.unused = <<>>]_vars
=============================================================================
