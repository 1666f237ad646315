---------------------------- MODULE Pool_lemmas ----------------------------
(***************************************************************************)
(* The inductive invariant of the allocator, as a predicate on one heap h, *)
(* and what the operators of Pool do to a heap that satisfies it.          *)
(***************************************************************************)
EXTENDS Pool, Collections

ArenaShape == [free : Int, total : 0 .. ArenaPools, kept : Int, freePools : Seq(Pools), bump : Nat \ {0}]
PoolShape  == [ref : Int, class : Classes \cup {DummyClass}, free : Int, next : Int]

\* What a heap looks like, whatever the numbers in it amount to.
Heaps ==
    [arena : [Arenas -> ArenaShape], pool : [Pools -> PoolShape],
     used : [Classes -> Seq(Pools)], kept : [Classes -> Pools \cup {NoPool}],
     unused : Seq(Nat \ {0}), usable : Seq(Arenas), table : Nat, active : Int,
     cachedBytes : Int, bytes : Int, refused : BOOLEAN, maxHeap : Budgets]

Active(h)    == {a \in Arenas : h.arena[a].total > 0}
Carved(h, p) == p[2] < h.arena[p[1]].bump
InUse(h, p)  == Carved(h, p) /\ p \notin Range(h.arena[p[1]].freePools)
KeptBy(h, a) == {c \in Classes : h.kept[c] # NoPool /\ h.kept[c][1] = a}

\* The pools of an arena are carved in order, returned at most once and
\* counted, and so are the kept ones.
ArenaOk(h, a) ==
    LET x == h.arena[a]
    IN  /\ x.total \in {0, ArenaPools - 1, ArenaPools} /\ x.bump <= x.total + 1
        /\ x.free = x.total - (x.bump - 1) + Len(x.freePools)
        /\ IsInjective(x.freePools)
        /\ \A p \in Range(x.freePools) : p[1] = a /\ p[2] < x.bump
        /\ x.kept = Cardinality(KeptBy(h, a))

\* A carved pool has a class and its blocks fill the part that was carved of
\* it; a returned one has none of them out.
PoolOk(h, p) ==
    LET q == h.pool[p]
    IN  IF Carved(h, p)
          THEN /\ q.class \in Classes /\ q.ref \in Nat /\ q.free \in Nat /\ q.ref + q.free >= 2
               /\ q.next = PoolHeader + (q.ref + q.free) * BlockSize(q.class)
               /\ q.next <= PoolSize
               /\ ~InUse(h, p) => q.ref = 0
          ELSE q = RawPool

\* The used list of a class holds the pools in use of that class with a free
\* block, and a kept pool is in use.
UsedOk(h, c) ==
    /\ IsInjective(h.used[c])
    /\ \A p \in Pools : p \in Range(h.used[c]) <=> InUse(h, p) /\ h.pool[p].class = c /\ h.pool[p].free > 0
KeptOk(h, c) == h.kept[c] # NoPool => InUse(h, h.kept[c]) /\ h.pool[h.kept[c]].class = c

\* An entry of the arena table is active or unused.
TableOk(h) ==
    /\ IsInjective(h.unused) /\ Range(h.unused) = (1 .. h.table) \ Active(h)
    /\ Active(h) \subseteq 1 .. h.table
    /\ h.active = Cardinality(Active(h))

Core(h) ==
    /\ \A a \in Arenas : ArenaOk(h, a)
    /\ \A p \in Pools : PoolOk(h, p)
    /\ \A c \in Classes : UsedOk(h, c)
    /\ \A c \in Classes : KeptOk(h, c)
    /\ TableOk(h)

\* The arenas with a free pool, but those of X, are listed, the fullest first.
Listed(h, X) == IsInjective(h.usable) /\ Range(h.usable) = {a \in Arenas \ X : h.arena[a].free > 0}
Sorted(h, X) ==
    \A i, j \in DOMAIN h.usable :
        i < j /\ h.usable[i] \notin X /\ h.usable[j] \notin X
            => h.arena[h.usable[i]].free <= h.arena[h.usable[j]].free
UsableOk(h) == Listed(h, {}) /\ Sorted(h, {})

FreeArena(h, a) == h.arena[a].total > 0 /\ h.arena[a].free = h.arena[a].total

\* Only the last usable arena, or one of X, may be wholly free.
FreeLast(h, X) == \A a \in Arenas \ X : FreeArena(h, a) => Last(h.usable) = a
OneFree(h)     == FreeLast(h, {})

Good(h) == h \in Heaps /\ Core(h) /\ UsableOk(h) /\ OneFree(h)

\* The used pools of a class without a block out are its kept one and those
\* of X.
EmptyKept(h, X) == \A c \in Classes : \A p \in Range(h.used[c]) : h.pool[p].ref = 0 => h.kept[c] = p \/ p \in X

\* Kept pools keep no arena, those of W aside, from the host.
Hold(h, W) == \A a \in Arenas \ W : h.arena[a].kept > 0 => h.arena[a].free + h.arena[a].kept < h.arena[a].total

\* Under a heap budget nothing is kept, but perhaps an arena of X.
Frugal(h, X) ==
    h.maxHeap # 0 => /\ \A c \in Classes : h.kept[c] = NoPool
                     /\ \A a \in Arenas \ X : ~FreeArena(h, a)

\* What holds of the allocator between two requests.
Settled(h) == Good(h) /\ EmptyKept(h, {}) /\ Hold(h, {}) /\ Frugal(h, {})

\* The bytes of the heap that are neither the table, an arena nor cached.
Rest(h) == h.bytes - h.table * TableEntry - h.active * ArenaSize - h.cachedBytes

\* What giving back pools and arenas leaves alone.
Kin(g, h) ==
    /\ g.table = h.table /\ g.cachedBytes = h.cachedBytes /\ g.refused = h.refused /\ g.maxHeap = h.maxHeap
    /\ Rest(g) = Rest(h)
    /\ \A p \in Pools : g.pool[p].ref = h.pool[p].ref

-----------------------------------------------------------------------------
(* The geometry.                                                           *)

\* The assumption on the constants, with the sizes that follow from it.
LEMMA Sizing ==
  /\ Alignment \in Nat \ {0} /\ PoolSize \in Nat \ {0} /\ PoolHeader \in Nat \ {0}
  /\ ArenaPools \in Nat /\ ArenaPools >= 3 /\ InitialArenas \in Nat \ {0} /\ TableEntry \in Nat \ {0}
  /\ TransientSize \in Nat \ {0} /\ VmSize \in Nat \ {0} /\ MaxArenas \in Nat \ {0} /\ MaxLive \in Nat \ {0}
  /\ SmallRequest \in Nat /\ TransientSize > SmallRequest /\ TransientLimit \in Nat
  /\ LostPools \subseteq {0, 1} /\ 0 \in Budgets /\ Budgets \subseteq Nat
  /\ ArenaSize \in Nat \ {0} /\ ClassCount \in Nat
  <1>1. ArenaSize \in Nat \ {0}
    BY PoolAssumption DEF ArenaSize
  <1>2. ClassCount \in Nat
    BY PoolAssumption DEF ClassCount
  <1> QED BY <1>1, <1>2, PoolAssumption

\* A small request has a class, and two blocks of every class fit a pool.
LEMMA Blocks ==
  /\ \A c \in Classes : c \in Nat \ {0} /\ BlockSize(c) \in Nat \ {0} /\ 2 * BlockSize(c) <= PoolSize - PoolHeader
  /\ \A size \in Nat \ {0} : size <= SmallRequest => SizeClass(size) \in Classes
  /\ DummyClass \notin Classes
  <1>1. Alignment \in Nat \ {0} /\ SmallRequest \in Nat /\ SmallRequest % Alignment = 0
    BY PoolAssumption
  <1>2. ClassCount * Alignment = SmallRequest
    BY <1>1 DEF ClassCount
  <1>3. ASSUME NEW c \in Classes
        PROVE  c \in Nat \ {0} /\ BlockSize(c) \in Nat \ {0} /\ 2 * BlockSize(c) <= PoolSize - PoolHeader
    <2>1. c \in Nat \ {0} /\ c <= ClassCount /\ ClassCount \in Nat
      BY Sizing DEF Classes
    <2>2. BlockSize(c) \in Nat \ {0}
      BY <2>1, <1>1 DEF BlockSize
    <2>3. BlockSize(c) <= SmallRequest
      BY <2>1, <1>1, <1>2 DEF BlockSize
    <2>4. PoolSize - PoolHeader >= 2 * SmallRequest
      BY PoolAssumption
    <2> QED BY <2>1, <2>2, <2>3, <2>4, <1>1, Sizing
  <1>4. ASSUME NEW size \in Nat \ {0}, size <= SmallRequest PROVE SizeClass(size) \in Classes
    <2> DEFINE d == (size - 1) \div Alignment
    <2>1. d \in Nat /\ d * Alignment <= size - 1
      BY <1>1
    <2>2. ClassCount \in Nat
      BY Sizing
    <2>3. d < ClassCount
      <3> HIDE DEF d
      <3>1. SUFFICES ASSUME d >= ClassCount PROVE FALSE
        BY <2>1, <2>2
      <3>2. d * Alignment >= ClassCount * Alignment
        BY <3>1, <2>1, <2>2, <1>1
      <3> QED BY <3>2, <2>1, <2>2, <1>1, <1>2, <1>4
    <2> QED BY <2>1, <2>2, <2>3 DEF SizeClass, Classes
  <1>5. DummyClass \notin Classes
    BY Sizing DEF DummyClass, Classes
  <1> QED BY <1>3, <1>4, <1>5

\* A pool is an arena and a slot of it.
LEMMA Places ==
  /\ NoPool \notin Pools
  /\ \A p \in Pools : p = <<p[1], p[2]>> /\ p[1] \in Arenas /\ p[2] \in 1 .. ArenaPools
  /\ \A a \in Arenas : \A i \in 1 .. ArenaPools : <<a, i>> \in Pools
  BY Sizing DEF NoPool, Pools, Arenas

\* The fields of an arena have their types.
LEMMA ArenaTypes ==
  ASSUME NEW h \in Heaps, NEW a \in Arenas
  PROVE  /\ h.arena[a].free \in Int /\ h.arena[a].total \in 0 .. ArenaPools /\ h.arena[a].kept \in Int
         /\ h.arena[a].freePools \in Seq(Pools) /\ h.arena[a].bump \in Nat \ {0}
  <1>1. h.arena[a] \in ArenaShape
    BY DEF Heaps
  <1> QED BY <1>1 DEF ArenaShape

\* The fields of a pool have their types.
LEMMA PoolTypes ==
  ASSUME NEW h \in Heaps, NEW p \in Pools
  PROVE  /\ h.pool[p].ref \in Int /\ h.pool[p].class \in Classes \cup {DummyClass}
         /\ h.pool[p].free \in Int /\ h.pool[p].next \in Int
  <1>1. h.pool[p] \in PoolShape
    BY DEF Heaps
  <1> QED BY <1>1 DEF PoolShape

-----------------------------------------------------------------------------
(* Counting the pools of an arena.                                         *)

\* The carved pools of an arena.
Slots(h, a) == {<<a, i>> : i \in 1 .. h.arena[a].bump - 1}

\* An arena has as many carved slots as it was bumped.
LEMMA SlotsCount ==
  ASSUME NEW h \in Heaps, NEW a \in Arenas
  PROVE  IsFiniteSet(Slots(h, a)) /\ Cardinality(Slots(h, a)) = h.arena[a].bump - 1
  <1> DEFINE n == h.arena[a].bump - 1
             s == [i \in 1 .. n |-> <<a, i>>]
             S == {a} \X Nat
  <1>1. n \in Nat
    BY DEF Heaps, ArenaShape
  <1> HIDE DEF n
  <1>2. s \in Seq(S) /\ Len(s) = n /\ DOMAIN s = 1 .. n
    BY <1>1
  <1>3. IsInjective(s)
    BY DEF IsInjective
  <1>4. Range(s) = Slots(h, a)
    BY DEF Range, Slots, n
  <1> HIDE DEF s, S
  <1> QED BY <1>2, <1>3, <1>4, LengthCounts DEF n

\* Pools in use and returned pools share the carved part of their arena.
LEMMA Crowd ==
  ASSUME NEW h \in Heaps, NEW a \in Arenas, ArenaOk(h, a), NEW X \in SUBSET Pools,
         \A p \in X : p[1] = a /\ InUse(h, p)
  PROVE  /\ IsFiniteSet(X) /\ Cardinality(X) \in Nat
         /\ Cardinality(X) + Len(h.arena[a].freePools) <= h.arena[a].bump - 1
         /\ Cardinality(X) + h.arena[a].free <= h.arena[a].total
  <1> DEFINE s == h.arena[a].freePools
             Y == Range(s)
             n == h.arena[a].bump - 1
  <1>1. /\ s \in Seq(Pools) /\ IsInjective(s) /\ n \in Nat
        /\ h.arena[a].free = h.arena[a].total - n + Len(s)
        /\ h.arena[a].total \in Nat /\ \A p \in Y : p[1] = a /\ p[2] < h.arena[a].bump
    BY Sizing, SMTT(20) DEF Heaps, ArenaShape, ArenaOk
  <1>2. Y \subseteq Pools /\ Len(s) \in Nat
    <2> HIDE DEF s
    <2> QED BY <1>1, RangeElements
  <1>3. IsFiniteSet(Y) /\ Cardinality(Y) = Len(s)
    <2> HIDE DEF s
    <2> QED BY <1>1, LengthCounts
  <1>4. IsFiniteSet(Slots(h, a)) /\ Cardinality(Slots(h, a)) = n
    BY SlotsCount
  <1>5. \A p \in X \cup Y : p \in Slots(h, a)
    <2> SUFFICES ASSUME NEW p \in X \cup Y PROVE p \in Slots(h, a)
      OBVIOUS
    <2>1. p \in Pools /\ p[1] = a /\ p[2] < h.arena[a].bump /\ h.arena[a].bump \in Nat
      BY <1>1, <1>2 DEF InUse, Carved, Heaps, ArenaShape
    <2>2. p = <<a, p[2]>> /\ p[2] \in 1 .. h.arena[a].bump - 1
      BY <2>1, Places, Sizing
    <2> QED BY <2>2 DEF Slots
  <1>6. X \cap Y = {}
    BY DEF InUse
  <1> HIDE DEF s, Y, n
  <1>7. X \cup Y \in SUBSET Slots(h, a) /\ X \in SUBSET Slots(h, a)
    BY <1>5
  <1>8. IsFiniteSet(X \cup Y) /\ Cardinality(X \cup Y) <= n /\ IsFiniteSet(X)
    BY <1>4, <1>7, FS_Subset
  <1>9. Cardinality(X \cup Y) = Cardinality(X) + Cardinality(Y) - Cardinality({})
    BY <1>3, <1>6, <1>8, FS_Union
  <1>10. Cardinality({}) = 0 /\ Cardinality(X) \in Nat
    BY <1>8, FS_EmptySet, FS_CardinalityType
  <1>11. Cardinality(X) + Len(s) <= n
    BY <1>1, <1>2, <1>3, <1>8, <1>9, <1>10
  <1>12. Cardinality(X) + h.arena[a].free <= h.arena[a].total
    BY <1>1, <1>2, <1>10, <1>11
  <1> QED BY <1>8, <1>10, <1>11, <1>12 DEF s, n

\* The classes whose kept pool is in an arena are as many as these pools.
LEMMA KeptPoolsOf ==
  ASSUME NEW h \in Heaps, NEW a \in Arenas, \A c \in Classes : KeptOk(h, c)
  PROVE  LET X == {h.kept[c] : c \in KeptBy(h, a)}
         IN  /\ X \in SUBSET Pools /\ \A p \in X : p[1] = a /\ InUse(h, p)
             /\ IsFiniteSet(KeptBy(h, a)) /\ Cardinality(KeptBy(h, a)) \in Nat
             /\ IsFiniteSet(X) /\ Cardinality(X) = Cardinality(KeptBy(h, a))
  <1> DEFINE K == KeptBy(h, a)
             X == {h.kept[c] : c \in K}
             f == [c \in K |-> h.kept[c]]
  <1>1. K \subseteq Classes /\ \A c \in K : h.kept[c] \in Pools /\ h.kept[c][1] = a /\ h.kept[c] # NoPool
    BY DEF KeptBy, Heaps
  <1>2. IsFiniteSet(K) /\ Cardinality(K) \in Nat
    <2>1. IsFiniteSet(Classes)
      BY Sizing, FS_Interval DEF Classes
    <2> HIDE DEF K
    <2>2. IsFiniteSet(K)
      BY <1>1, <2>1, FS_Subset
    <2> QED BY <2>2, FS_CardinalityType
  <1>3. \A c \in K : InUse(h, h.kept[c]) /\ h.pool[h.kept[c]].class = c
    BY <1>1 DEF KeptOk
  <1> HIDE DEF K
  <1>4. f \in Bijection(K, X)
    <2>1. f \in [K -> X]
      OBVIOUS
    <2>2. \A c, d \in K : f[c] = f[d] => c = d
      BY <1>3
    <2>3. \A x \in X : \E c \in K : f[c] = x
      OBVIOUS
    <2> HIDE DEF f, X
    <2>4. f \in Injection(K, X)
      BY <2>1, <2>2, Zenon DEF Injection, IsInjective
    <2>5. f \in Surjection(K, X)
      BY <2>1, <2>3 DEF Surjection
    <2> QED BY <2>4, <2>5 DEF Bijection
  <1>5. IsFiniteSet(X) /\ Cardinality(X) = Cardinality(K)
    <2> HIDE DEF X, f
    <2>1. ExistsBijection(K, X)
      BY <1>4 DEF ExistsBijection
    <2> QED BY <2>1, <1>2, FS_Bijection
  <1>6. X \in SUBSET Pools /\ \A p \in X : p[1] = a /\ InUse(h, p)
    BY <1>1, <1>3
  <1> QED BY <1>2, <1>5, <1>6 DEF K

\* Free and kept pools fit their arena, with a pool in use that is not kept.
LEMMA KeptCrowd ==
  ASSUME NEW h \in Heaps, NEW a \in Arenas, ArenaOk(h, a), \A c \in Classes : KeptOk(h, c)
  PROVE  /\ h.arena[a].kept \in Nat /\ h.arena[a].free + h.arena[a].kept <= h.arena[a].total
         /\ \A p \in Pools : p[1] = a /\ InUse(h, p) /\ (\A c \in Classes : h.kept[c] # p)
               => h.arena[a].free + h.arena[a].kept < h.arena[a].total
  <1> DEFINE X == {h.kept[c] : c \in KeptBy(h, a)}
  <1>1. /\ X \in SUBSET Pools /\ \A p \in X : p[1] = a /\ InUse(h, p)
        /\ IsFiniteSet(X) /\ Cardinality(X) = h.arena[a].kept /\ Cardinality(X) \in Nat
    BY KeptPoolsOf DEF ArenaOk
  <1>2. h.arena[a].free \in Int /\ h.arena[a].total \in Int
    BY Sizing DEF Heaps, ArenaShape
  <1>3. \A p : (\A c \in Classes : h.kept[c] # p) => p \notin X
    BY DEF KeptBy
  <1> HIDE DEF X
  <1>4. h.arena[a].free + h.arena[a].kept <= h.arena[a].total
    <2>1. Cardinality(X) + h.arena[a].free <= h.arena[a].total
      BY <1>1, Crowd
    <2> QED BY <2>1, <1>1, <1>2
  <1>5. ASSUME NEW p \in Pools, p[1] = a, InUse(h, p), \A c \in Classes : h.kept[c] # p
        PROVE  h.arena[a].free + h.arena[a].kept < h.arena[a].total
    <2> DEFINE Y == X \cup {p}
    <2>1. p \notin X
      BY <1>3, <1>5
    <2>2. Cardinality(Y) = Cardinality(X) + 1
      BY <2>1, <1>1, FS_AddElement
    <2>3. Y \in SUBSET Pools /\ \A q \in Y : q[1] = a /\ InUse(h, q)
      BY <1>1, <1>5
    <2> HIDE DEF Y
    <2>4. Cardinality(Y) + h.arena[a].free <= h.arena[a].total
      BY <2>3, Crowd
    <2> QED BY <2>2, <2>4, <1>1, <1>2
  <1> QED BY <1>1, <1>4, <1>5

\* A wholly free arena has no pool in use and none that is kept.
LEMMA FreeArenaEmpty ==
  ASSUME NEW h \in Heaps, NEW a \in Arenas, ArenaOk(h, a), \A c \in Classes : KeptOk(h, c),
         h.arena[a].free = h.arena[a].total
  PROVE  /\ \A p \in Pools : p[1] = a => ~InUse(h, p)
         /\ h.arena[a].kept = 0 /\ KeptBy(h, a) = {}
  <1>1. h.arena[a].total \in Int /\ h.arena[a].kept \in Nat
    BY KeptCrowd, Sizing DEF Heaps, ArenaShape
  <1>2. ASSUME NEW p \in Pools, p[1] = a, InUse(h, p) PROVE FALSE
    <2> DEFINE X == {p}
    <2>1. X \in SUBSET Pools /\ \A q \in X : q[1] = a /\ InUse(h, q)
      BY <1>2
    <2>2. Cardinality(X) = 1
      BY FS_Singleton
    <2> HIDE DEF X
    <2>3. Cardinality(X) + h.arena[a].free <= h.arena[a].total
      BY <2>1, Crowd
    <2> QED BY <2>2, <2>3, <1>1
  <1>3. h.arena[a].kept = 0
    <2>1. h.arena[a].free + h.arena[a].kept <= h.arena[a].total
      BY KeptCrowd
    <2> QED BY <2>1, <1>1
  <1>4. KeptBy(h, a) = {}
    BY <1>2 DEF KeptBy, KeptOk, Heaps
  <1> QED BY <1>2, <1>3, <1>4

\* An arena without a pool in use is wholly free.
LEMMA AllBack ==
  ASSUME NEW h \in Heaps, NEW a \in Arenas, ArenaOk(h, a),
         \A p \in Pools : p[1] = a => ~InUse(h, p)
  PROVE  h.arena[a].free = h.arena[a].total
  <1> DEFINE s == h.arena[a].freePools
             n == h.arena[a].bump - 1
  <1>1. /\ s \in Seq(Pools) /\ IsInjective(s) /\ n \in Nat /\ n <= h.arena[a].total
        /\ h.arena[a].free = h.arena[a].total - n + Len(s) /\ h.arena[a].total \in 0 .. ArenaPools
    <2>1. /\ s \in Seq(Pools) /\ h.arena[a].bump \in Nat \ {0} /\ h.arena[a].total \in 0 .. ArenaPools
          /\ h.arena[a].total \in Nat
      BY Sizing, ArenaTypes
    <2>2. /\ h.arena[a].bump <= h.arena[a].total + 1 /\ IsInjective(s)
          /\ h.arena[a].free = h.arena[a].total - n + Len(s)
      BY DEF ArenaOk
    <2> QED BY <2>1, <2>2
  <1>2. IsFiniteSet(Slots(h, a)) /\ Cardinality(Slots(h, a)) = n
    BY SlotsCount
  <1>3. IsFiniteSet(Range(s)) /\ Cardinality(Range(s)) = Len(s) /\ Len(s) \in Nat
    <2> HIDE DEF s
    <2> QED BY <1>1, LengthCounts, RangeElements
  <1>4. Slots(h, a) \in SUBSET Range(s)
    <2> SUFFICES ASSUME NEW i \in 1 .. n PROVE <<a, i>> \in Range(s)
      BY DEF Slots
    <2>1. i \in 1 .. ArenaPools /\ i < h.arena[a].bump
      BY <1>1, ArenaTypes, Sizing, SMTT(20)
    <2>2. <<a, i>> \in Pools /\ <<a, i>>[1] = a /\ <<a, i>>[2] = i
      BY <2>1, Places
    <2> QED BY <2>1, <2>2 DEF InUse, Carved
  <1>5. n <= Len(s)
    <2> HIDE DEF s, n
    <2> QED BY <1>2, <1>3, <1>4, FS_Subset
  <1>6. Len(s) <= n
    <2>1. {} \in SUBSET Pools /\ \A p \in {} : p[1] = a /\ InUse(h, p)
      OBVIOUS
    <2>2. Cardinality({}) + Len(s) <= n
      BY <2>1, Crowd
    <2>3. Cardinality({}) = 0
      BY FS_EmptySet
    <2> QED BY <2>2, <2>3, <1>1, <1>3
  <1> QED BY <1>1, <1>3, <1>5, <1>6, SMTT(20)

-----------------------------------------------------------------------------
(* A pool that goes back to its arena.                                     *)

\* The pool is off its used list and on the list of its arena; whether the
\* arena goes back, becomes usable or moves is left.
PutBack(h, p) ==
    [UnlinkUsed(h, p) EXCEPT !.arena[p[1]].freePools = <<p>> \o @, !.arena[p[1]].free = @ + 1]

\* A pool that may go back: in use, without a block out and not kept.
MayGoBack(h, p) ==
    /\ p \in Pools /\ InUse(h, p) /\ h.pool[p].ref = 0
    /\ \A c \in Classes : h.kept[c] # p

\* A pool that may go back is linked, for it has free blocks.
LEMMA MayGoBackLinked ==
  ASSUME NEW h \in Heaps, Core(h), NEW p, MayGoBack(h, p)
  PROVE  /\ p \in Pools /\ p[1] \in Arenas /\ Carved(h, p) /\ p \notin Range(h.arena[p[1]].freePools)
         /\ h.pool[p].class \in Classes /\ p \in Range(h.used[h.pool[p].class])
         /\ IsInjective(h.used[h.pool[p].class])
         /\ \A c \in Classes : p \in Range(h.used[c]) => c = h.pool[p].class
  <1>1. p \in Pools /\ p[1] \in Arenas /\ InUse(h, p) /\ Carved(h, p) /\ p \notin Range(h.arena[p[1]].freePools)
    BY Places DEF MayGoBack, InUse
  <1>2. /\ h.pool[p].class \in Classes /\ h.pool[p].ref \in Nat /\ h.pool[p].free \in Nat
        /\ h.pool[p].ref + h.pool[p].free >= 2
    BY <1>1 DEF Core, PoolOk
  <1>3. h.pool[p].free > 0
    BY <1>2 DEF MayGoBack
  <1> QED BY <1>1, <1>2, <1>3 DEF Core, UsedOk

\* t is the list s with the node e taken off.
Without(t, s, e) ==
    \E k \in 1 .. Len(s) :
        /\ s[k] = e
        /\ \A i \in 1 .. Len(s) - 1 : t[i] = IF i < k THEN s[i] ELSE s[i + 1]

\* A list without one of its nodes.
LEMMA UnlinkedList ==
  ASSUME NEW S, NEW s \in Seq(S), IsInjective(s), NEW e, e \in Range(s)
  PROVE  /\ Unlinked(s, e) \in Seq(S) /\ Range(Unlinked(s, e)) = Range(s) \ {e}
         /\ IsInjective(Unlinked(s, e)) /\ Len(Unlinked(s, e)) = Len(s) - 1
         /\ Without(Unlinked(s, e), s, e)
  <1> DEFINE k == CHOOSE i \in DOMAIN s : s[i] = e
             t == RemoveAt(s, k)
  <1>1. /\ k \in 1 .. Len(s) /\ s[k] = e /\ t \in Seq(S) /\ Len(t) = Len(s) - 1
        /\ \A i \in 1 .. Len(s) - 1 : t[i] = IF i < k THEN s[i] ELSE s[i + 1]
        /\ Range(t) = Range(s) \ {e} /\ IsInjective(t)
    BY TakenOff
  <1>2. Unlinked(s, e) = t
    BY DEF Unlinked
  <1> HIDE DEF k, t
  <1>3. Without(t, s, e)
    BY <1>1 DEF Without
  <1> QED BY <1>1, <1>2, <1>3

\* Putting a pool back changes its used list and its arena only.
LEMMA PutBackFields ==
  ASSUME NEW h \in Heaps, NEW p \in Pools, h.pool[p].class \in Classes,
         p \in Range(h.used[h.pool[p].class]), IsInjective(h.used[h.pool[p].class])
  PROVE  LET g == PutBack(h, p)
             a == p[1]
             c == h.pool[p].class
         IN  /\ g \in Heaps
             /\ g.pool = h.pool /\ g.kept = h.kept /\ g.unused = h.unused /\ g.usable = h.usable
             /\ g.table = h.table /\ g.active = h.active /\ g.cachedBytes = h.cachedBytes
             /\ g.bytes = h.bytes /\ g.refused = h.refused /\ g.maxHeap = h.maxHeap
             /\ \A b \in Arenas : b # a => g.arena[b] = h.arena[b]
             /\ g.arena[a].free = h.arena[a].free + 1 /\ g.arena[a].total = h.arena[a].total
             /\ g.arena[a].kept = h.arena[a].kept /\ g.arena[a].bump = h.arena[a].bump
             /\ g.arena[a].freePools = <<p>> \o h.arena[a].freePools
             /\ \A d \in Classes : d # c => g.used[d] = h.used[d]
             /\ Range(g.used[c]) = Range(h.used[c]) \ {p} /\ IsInjective(g.used[c])
  <1> DEFINE a == p[1]
             c == h.pool[p].class
             u == Unlinked(h.used[c], p)
             s == <<p>> \o h.arena[a].freePools
             r == [h.arena[a] EXCEPT !.freePools = s, !.free = @ + 1]
             g == PutBack(h, p)
  <1>1. a \in Arenas /\ h.arena[a] \in ArenaShape
    BY Places DEF Heaps
  <1>2. u \in Seq(Pools) /\ Range(u) = Range(h.used[c]) \ {p} /\ IsInjective(u)
    <2>1. h.used[c] \in Seq(Pools)
      BY DEF Heaps
    <2> QED BY <2>1, UnlinkedList
  <1>3. s \in Seq(Pools)
    BY <1>1, LinkedFront, ArenaTypes
  <1>4. /\ r \in ArenaShape /\ r.free = h.arena[a].free + 1 /\ r.total = h.arena[a].total
        /\ r.kept = h.arena[a].kept /\ r.bump = h.arena[a].bump /\ r.freePools = s
    <2> DEFINE x == h.arena[a]
               n == x.free + 1
    <2>1. x \in ArenaShape /\ n \in Int
      BY <1>1 DEF ArenaShape
    <2> HIDE DEF s, x, a, n
    <2>2. LET y == [x EXCEPT !.freePools = s, !.free = n]
          IN  /\ y \in ArenaShape /\ y.free = n /\ y.total = x.total
              /\ y.kept = x.kept /\ y.bump = x.bump /\ y.freePools = s
      BY <2>1, <1>3 DEF ArenaShape
    <2> QED BY <2>2 DEF x, n
  <1>5. g = [h EXCEPT !.used = [@ EXCEPT ![c] = u], !.arena = [@ EXCEPT ![a] = r]]
    BY <1>1, ZenonT(30) DEF PutBack, UnlinkUsed, Heaps, ArenaShape
  <1> HIDE DEF u, s, r, g, a, c
  <1>6. c \in Classes
    BY DEF c
  <1>7. /\ g \in Heaps
        /\ g.pool = h.pool /\ g.kept = h.kept /\ g.unused = h.unused /\ g.usable = h.usable
        /\ g.table = h.table /\ g.active = h.active /\ g.cachedBytes = h.cachedBytes
        /\ g.bytes = h.bytes /\ g.refused = h.refused /\ g.maxHeap = h.maxHeap
        /\ g.used = [h.used EXCEPT ![c] = u] /\ g.arena = [h.arena EXCEPT ![a] = r]
    BY <1>1, <1>2, <1>4, <1>5, <1>6 DEF Heaps
  <1>8. /\ g.arena[a] = r /\ \A b \in Arenas : b # a => g.arena[b] = h.arena[b]
        /\ g.used[c] = u /\ \A d \in Classes : d # c => g.used[d] = h.used[d]
    BY <1>1, <1>6, <1>7 DEF Heaps
  <1> QED BY <1>2, <1>4, <1>7, <1>8 DEF g, a, c, s

\* Putting a pool back keeps every list and count consistent.
LEMMA PutBackKeepsCore ==
  ASSUME NEW h \in Heaps, Core(h), NEW p, MayGoBack(h, p)
  PROVE  LET g == PutBack(h, p)
             a == p[1]
         IN  /\ g \in Heaps /\ Core(g) /\ Kin(g, h)
             /\ g.kept = h.kept /\ g.usable = h.usable /\ g.pool = h.pool
             /\ \A b \in Arenas : b # a => g.arena[b] = h.arena[b]
             /\ g.arena[a].free = h.arena[a].free + 1 /\ g.arena[a].total = h.arena[a].total
             /\ g.arena[a].kept = h.arena[a].kept
             /\ h.arena[a].free + h.arena[a].kept < h.arena[a].total
             /\ \A d \in Classes : Range(g.used[d]) = Range(h.used[d]) \ {p}
             /\ \A b \in Arenas : g.arena[b].total = h.arena[b].total
  <1> DEFINE a == p[1]
             c == h.pool[p].class
             g == PutBack(h, p)
  <1>1. /\ p \in Pools /\ a \in Arenas /\ Carved(h, p) /\ p \notin Range(h.arena[a].freePools)
        /\ c \in Classes /\ p \in Range(h.used[c]) /\ IsInjective(h.used[c])
        /\ \A d \in Classes : p \in Range(h.used[d]) => d = c
    BY MayGoBackLinked
  <1>2. /\ g \in Heaps
        /\ g.pool = h.pool /\ g.kept = h.kept /\ g.unused = h.unused /\ g.usable = h.usable
        /\ g.table = h.table /\ g.active = h.active /\ g.cachedBytes = h.cachedBytes
        /\ g.bytes = h.bytes /\ g.refused = h.refused /\ g.maxHeap = h.maxHeap
    BY <1>1, PutBackFields, ZenonT(30)
  <1>3. /\ \A b \in Arenas : b # a => g.arena[b] = h.arena[b]
        /\ g.arena[a].free = h.arena[a].free + 1 /\ g.arena[a].total = h.arena[a].total
        /\ g.arena[a].kept = h.arena[a].kept /\ g.arena[a].bump = h.arena[a].bump
        /\ g.arena[a].freePools = <<p>> \o h.arena[a].freePools
    BY <1>1, PutBackFields, ZenonT(30)
  <1>4. /\ \A d \in Classes : d # c => g.used[d] = h.used[d]
        /\ Range(g.used[c]) = Range(h.used[c]) \ {p} /\ IsInjective(g.used[c])
    BY <1>1, PutBackFields
  <1> HIDE DEF g, c, a
  <1>5. /\ Range(g.arena[a].freePools) = Range(h.arena[a].freePools) \cup {p}
        /\ IsInjective(g.arena[a].freePools)
        /\ Len(g.arena[a].freePools) = Len(h.arena[a].freePools) + 1
    <2>1. h.arena[a].freePools \in Seq(Pools) /\ IsInjective(h.arena[a].freePools)
      BY <1>1, ArenaTypes DEF Core, ArenaOk
    <2> QED BY <2>1, <1>1, <1>3, LinkedFront
  <1>6. \A q \in Pools : (Carved(g, q) <=> Carved(h, q)) /\ (InUse(g, q) <=> InUse(h, q) /\ q # p)
    <2> SUFFICES ASSUME NEW q \in Pools
                 PROVE  (Carved(g, q) <=> Carved(h, q)) /\ (InUse(g, q) <=> InUse(h, q) /\ q # p)
      OBVIOUS
    <2>1. q[1] \in Arenas
      BY Places
    <2>2. CASE q[1] = a
      BY <2>2, <1>3, <1>5 DEF Carved, InUse
    <2>3. CASE q[1] # a
      BY <2>1, <2>3, <1>3 DEF Carved, InUse, a
    <2> QED BY <2>2, <2>3
  <1>7. \A b \in Arenas : KeptBy(g, b) = KeptBy(h, b)
    BY <1>2 DEF KeptBy
  <1>8. \A b \in Arenas : g.arena[b].total = h.arena[b].total
    BY <1>3
  <1>9. ASSUME NEW b \in Arenas PROVE ArenaOk(g, b)
    <2>1. ArenaOk(h, b)
      BY DEF Core
    <2>2. CASE b # a
      BY <2>1, <2>2, <1>3, <1>7 DEF ArenaOk
    <2>3. CASE b = a
      <3>1. h.arena[a].bump \in Nat /\ h.arena[a].free \in Int /\ h.arena[a].total \in Int
            /\ Len(h.arena[a].freePools) \in Nat
        BY <1>1, ArenaTypes, Sizing
      <3>2. g.arena[a].free = g.arena[a].total - (g.arena[a].bump - 1) + Len(g.arena[a].freePools)
        <4>1. h.arena[a].free = h.arena[a].total - (h.arena[a].bump - 1) + Len(h.arena[a].freePools)
          BY <2>1, <2>3 DEF ArenaOk
        <4>2. /\ g.arena[a].free = h.arena[a].free + 1 /\ g.arena[a].total = h.arena[a].total
              /\ g.arena[a].bump = h.arena[a].bump
              /\ Len(g.arena[a].freePools) = Len(h.arena[a].freePools) + 1
          BY <1>3, <1>5
        <4> DEFINE f == h.arena[a].free
                   t == h.arena[a].total
                   n == h.arena[a].bump
                   l == Len(h.arena[a].freePools)
        <4>3. f \in Int /\ t \in Int /\ n \in Int /\ l \in Int /\ f = t - (n - 1) + l
          BY <4>1, <3>1
        <4> HIDE DEF f, t, n, l
        <4>4. f + 1 = t - (n - 1) + (l + 1)
          BY <4>3
        <4> QED BY <4>2, <4>4 DEF f, t, n, l
      <3>3. \A q \in Range(g.arena[a].freePools) : q[1] = a /\ q[2] < g.arena[a].bump
        BY <2>1, <2>3, <1>1, <1>3, <1>5 DEF ArenaOk, Carved, a
      <3>4. g.arena[a].kept = Cardinality(KeptBy(g, a))
        BY <2>1, <2>3, <1>3, <1>7 DEF ArenaOk
      <3>5. g.arena[a].total \in {0, ArenaPools - 1, ArenaPools} /\ g.arena[a].bump <= g.arena[a].total + 1
        BY <2>1, <2>3, <1>3 DEF ArenaOk
      <3> QED BY <2>3, <3>2, <3>3, <3>4, <3>5, <1>5 DEF ArenaOk
    <2> QED BY <2>2, <2>3
  <1>10. ASSUME NEW q \in Pools PROVE PoolOk(g, q)
    <2>1. PoolOk(h, q) /\ h.pool[p].ref = 0
      BY DEF Core, MayGoBack
    <2> QED BY <2>1, <1>2, <1>6 DEF PoolOk
  <1>11. ASSUME NEW d \in Classes PROVE UsedOk(g, d) /\ Range(g.used[d]) = Range(h.used[d]) \ {p}
    <2>1. UsedOk(h, d)
      BY DEF Core
    <2>2. IsInjective(g.used[d]) /\ Range(g.used[d]) = Range(h.used[d]) \ {p}
      BY <2>1, <1>1, <1>4 DEF UsedOk
    <2> QED BY <2>1, <2>2, <1>2, <1>6 DEF UsedOk
  <1>12. ASSUME NEW d \in Classes PROVE KeptOk(g, d)
    <2>1. KeptOk(h, d) /\ h.kept[d] # p
      BY DEF Core, MayGoBack
    <2>2. h.kept[d] # NoPool => h.kept[d] \in Pools
      BY DEF Heaps
    <2> QED BY <2>1, <2>2, <1>2, <1>6 DEF KeptOk
  <1>13. TableOk(g)
    <2>1. Active(g) = Active(h)
      BY <1>8 DEF Active
    <2> QED BY <2>1, <1>2 DEF Core, TableOk
  <1>14. Kin(g, h)
    BY <1>2 DEF Kin, Rest
  <1>15. h.arena[a].free + h.arena[a].kept < h.arena[a].total
    <2>1. ArenaOk(h, a) /\ \A d \in Classes : KeptOk(h, d)
      BY <1>1 DEF Core
    <2>2. InUse(h, p) /\ p[1] = a /\ \A d \in Classes : h.kept[d] # p
      BY DEF MayGoBack, a
    <2> QED BY <2>1, <2>2, <1>1, KeptCrowd
  <1>16. Core(g)
    BY <1>9, <1>10, <1>11, <1>12, <1>13 DEF Core
  <1> QED BY <1>2, <1>3, <1>8, <1>11, <1>14, <1>15, <1>16 DEF g, a

-----------------------------------------------------------------------------
(* An arena that goes back to the host.                                    *)

\* Releasing an arena clears it and its pools and frees its entry.
LEMMA ReleaseArenaFields ==
  ASSUME NEW h \in Heaps, NEW a \in Arenas, a \in Range(h.usable), IsInjective(h.usable)
  PROVE  LET g == ReleaseArena(h, a)
         IN  /\ g \in Heaps
             /\ g.used = h.used /\ g.kept = h.kept /\ g.table = h.table
             /\ g.cachedBytes = h.cachedBytes /\ g.refused = h.refused /\ g.maxHeap = h.maxHeap
             /\ g.active = h.active - 1 /\ g.bytes = h.bytes - ArenaSize
             /\ g.usable = Unlinked(h.usable, a)
             /\ g.unused = <<a>> \o h.unused
             /\ g.arena[a] = UnusedArena
             /\ \A b \in Arenas : b # a => g.arena[b] = h.arena[b]
             /\ g.pool = [p \in Pools |-> IF p[1] = a THEN RawPool ELSE h.pool[p]]
  <1> DEFINE g == ReleaseArena(h, a)
             u == Unlinked(h.usable, a)
             s == <<a>> \o h.unused
             n == h.active - 1
             b == h.bytes - ArenaSize
             P == [p \in Pools |-> IF p[1] = a THEN RawPool ELSE h.pool[p]]
  <1>1. u \in Seq(Arenas)
    <2>1. h.usable \in Seq(Arenas)
      BY DEF Heaps
    <2> QED BY <2>1, UnlinkedList
  <1>2. s \in Seq(Nat \ {0})
    <2>1. h.unused \in Seq(Nat \ {0}) /\ a \in Nat \ {0}
      BY Sizing DEF Heaps, Arenas
    <2> QED BY <2>1, LinkedFront
  <1>3. n \in Int /\ b \in Int
    BY Sizing DEF Heaps
  <1>4. UnusedArena \in ArenaShape
    <2>1. 0 \in 0 .. ArenaPools /\ <<>> \in Seq(Pools) /\ 1 \in Nat \ {0}
      BY Sizing
    <2> QED BY <2>1 DEF ArenaShape, UnusedArena
  <1>5. RawPool \in PoolShape
    BY DEF PoolShape, RawPool
  <1>6. P \in [Pools -> PoolShape]
    BY <1>5 DEF Heaps
  <1>7. g = [h EXCEPT !.usable = u, !.unused = s, !.arena = [@ EXCEPT ![a] = UnusedArena],
                      !.pool = P, !.active = n, !.bytes = b]
    BY DEF ReleaseArena, Heaps
  <1> HIDE DEF g, u, s, n, b, P
  <1>9. /\ g \in Heaps
        /\ g.used = h.used /\ g.kept = h.kept /\ g.table = h.table
        /\ g.cachedBytes = h.cachedBytes /\ g.refused = h.refused /\ g.maxHeap = h.maxHeap
        /\ g.active = n /\ g.bytes = b /\ g.usable = u /\ g.unused = s /\ g.pool = P
        /\ g.arena = [h.arena EXCEPT ![a] = UnusedArena]
    BY <1>1, <1>2, <1>3, <1>4, <1>6, <1>7 DEF Heaps
  <1>10. g.arena[a] = UnusedArena /\ \A c \in Arenas : c # a => g.arena[c] = h.arena[c]
    BY <1>9 DEF Heaps
  <1> QED BY <1>9, <1>10 DEF g, u, s, n, b, P

\* Releasing a wholly free arena keeps every list and count consistent.
LEMMA ReleaseArenaKeepsCore ==
  ASSUME NEW h \in Heaps, Core(h), NEW a \in Arenas, FreeArena(h, a),
         a \in Range(h.usable), IsInjective(h.usable)
  PROVE  LET g == ReleaseArena(h, a)
         IN  /\ g \in Heaps /\ Core(g) /\ Kin(g, h)
             /\ g.kept = h.kept /\ g.used = h.used /\ g.usable = Unlinked(h.usable, a)
             /\ g.arena[a] = UnusedArena /\ h.arena[a].kept = 0
             /\ \A b \in Arenas : b # a => g.arena[b] = h.arena[b]
             /\ \A p \in Pools : p[1] # a => g.pool[p] = h.pool[p]
  <1> DEFINE g == ReleaseArena(h, a)
  <1>1. /\ g \in Heaps
        /\ g.used = h.used /\ g.kept = h.kept /\ g.table = h.table
        /\ g.cachedBytes = h.cachedBytes /\ g.refused = h.refused /\ g.maxHeap = h.maxHeap
        /\ g.active = h.active - 1 /\ g.bytes = h.bytes - ArenaSize
        /\ g.usable = Unlinked(h.usable, a) /\ g.unused = <<a>> \o h.unused
    BY ReleaseArenaFields
  <1>2. /\ g.arena[a] = UnusedArena
        /\ \A b \in Arenas : b # a => g.arena[b] = h.arena[b]
        /\ \A p \in Pools : g.pool[p] = IF p[1] = a THEN RawPool ELSE h.pool[p]
    <2>1. g.arena[a] = UnusedArena
      BY ReleaseArenaFields
    <2>2. \A b \in Arenas : b # a => g.arena[b] = h.arena[b]
      BY ReleaseArenaFields
    <2>3. g.pool = [p \in Pools |-> IF p[1] = a THEN RawPool ELSE h.pool[p]]
      BY ReleaseArenaFields
    <2> HIDE DEF g
    <2> QED BY <2>1, <2>2, <2>3
  <1> HIDE DEF g
  <1>3. /\ \A p \in Pools : p[1] = a => ~InUse(h, p)
        /\ h.arena[a].kept = 0 /\ KeptBy(h, a) = {}
    BY FreeArenaEmpty DEF Core, FreeArena
  <1>4. \A p \in Pools : p[1] # a => (Carved(g, p) <=> Carved(h, p)) /\ (InUse(g, p) <=> InUse(h, p))
    BY <1>2, Places DEF Carved, InUse
  <1>5. \A p \in Pools : p[1] = a => ~Carved(g, p) /\ ~InUse(g, p)
    BY <1>2, Places DEF Carved, InUse, UnusedArena
  <1>6. \A p \in Pools : p[1] = a => h.pool[p].ref = 0
    <2> SUFFICES ASSUME NEW p \in Pools, p[1] = a PROVE h.pool[p].ref = 0
      OBVIOUS
    <2>1. PoolOk(h, p) /\ ~InUse(h, p)
      BY <1>3 DEF Core
    <2> QED BY <2>1 DEF PoolOk, RawPool
  <1>7. \A b \in Arenas : KeptBy(g, b) = KeptBy(h, b)
    BY <1>1 DEF KeptBy
  <1>8. ASSUME NEW b \in Arenas PROVE ArenaOk(g, b)
    <2>1. CASE b # a
      BY <2>1, <1>2, <1>7 DEF ArenaOk, Core
    <2>2. CASE b = a
      <3>1. Cardinality(KeptBy(g, b)) = 0
        BY <2>2, <1>3, <1>7, FS_EmptySet
      <3>2. /\ g.arena[b].total = 0 /\ g.arena[b].bump = 1 /\ g.arena[b].free = 0
            /\ g.arena[b].freePools = <<>> /\ g.arena[b].kept = 0
        BY <2>2, <1>2 DEF UnusedArena
      <3>3. IsInjective(<<>>) /\ Range(<<>>) = {} /\ Len(<<>>) = 0
        BY DEF IsInjective, Range
      <3> QED BY <3>1, <3>2, <3>3 DEF ArenaOk
    <2> QED BY <2>1, <2>2
  <1>9. ASSUME NEW p \in Pools PROVE PoolOk(g, p)
    BY <1>2, <1>4, <1>5 DEF PoolOk, Core
  <1>10. ASSUME NEW c \in Classes PROVE UsedOk(g, c)
    <2>1. UsedOk(h, c)
      BY DEF Core
    <2>2. ASSUME NEW p \in Pools
          PROVE  p \in Range(g.used[c]) <=> InUse(g, p) /\ g.pool[p].class = c /\ g.pool[p].free > 0
      <3>1. CASE p[1] = a
        BY <3>1, <2>1, <1>1, <1>3, <1>5 DEF UsedOk
      <3>2. CASE p[1] # a
        BY <3>2, <2>1, <1>1, <1>2, <1>4 DEF UsedOk
      <3> QED BY <3>1, <3>2
    <2> QED BY <2>1, <2>2, <1>1 DEF UsedOk
  <1>11. ASSUME NEW c \in Classes PROVE KeptOk(g, c)
    <2>1. KeptOk(h, c)
      BY DEF Core
    <2>2. h.kept[c] # NoPool => h.kept[c] \in Pools /\ h.kept[c][1] # a
      BY <2>1, <1>3 DEF Heaps, KeptOk
    <2> QED BY <2>1, <2>2, <1>1, <1>2, <1>4 DEF KeptOk
  <1>12. TableOk(g)
    <2>1. TableOk(h)
      BY DEF Core
    <2>2. Active(g) = Active(h) \ {a} /\ a \in Active(h)
      BY <1>2 DEF Active, FreeArena, UnusedArena
    <2>3. a \in 1 .. h.table /\ a \notin Range(h.unused)
      BY <2>1, <2>2 DEF TableOk
    <2>4. IsInjective(g.unused) /\ Range(g.unused) = Range(h.unused) \cup {a}
      <3>1. h.unused \in Seq(Nat \ {0}) /\ a \in Nat \ {0}
        BY Sizing DEF Heaps, Arenas
      <3> QED BY <3>1, <2>1, <2>3, <1>1, LinkedFront DEF TableOk
    <2>5. Cardinality(Active(g)) = Cardinality(Active(h)) - 1
      <3>1. IsFiniteSet(Active(h))
        <4>1. IsFiniteSet(Arenas) /\ Active(h) \in SUBSET Arenas
          BY Sizing, FS_Interval DEF Arenas, Active
        <4> QED BY <4>1, FS_Subset
      <3> QED BY <3>1, <2>2, FS_RemoveElement
    <2> QED BY <2>1, <2>2, <2>3, <2>4, <2>5, <1>1 DEF TableOk
  <1>13. Kin(g, h)
    <2>1. Rest(g) = Rest(h)
      <3> DEFINE n == h.active
                 b == h.bytes
                 s == ArenaSize
                 t == h.table * TableEntry
                 d == h.cachedBytes
      <3>1. n \in Int /\ b \in Int /\ s \in Int /\ t \in Int /\ d \in Int
        BY Sizing DEF Heaps
      <3> HIDE DEF n, b, s, t, d
      <3>2. (n - 1) * s = n * s - s /\ n * s \in Int
        BY <3>1
      <3>3. (b - s) - t - (n - 1) * s - d = b - t - n * s - d
        BY <3>1, <3>2
      <3> QED BY <3>3, <1>1 DEF Rest, n, b, s, t, d
    <2>2. \A p \in Pools : g.pool[p].ref = h.pool[p].ref
      BY <1>2, <1>6 DEF RawPool
    <2> QED BY <2>1, <2>2, <1>1 DEF Kin
  <1>14. Core(g)
    BY <1>8, <1>9, <1>10, <1>11, <1>12 DEF Core
  <1> QED BY <1>1, <1>2, <1>3, <1>13, <1>14 DEF g

-----------------------------------------------------------------------------
(* The list of usable arenas.                                              *)

\* A heap that differs from another one in its usable list only.
OnlyUsable(g, h) ==
    /\ g.arena = h.arena /\ g.pool = h.pool /\ g.used = h.used /\ g.kept = h.kept
    /\ g.unused = h.unused /\ g.table = h.table /\ g.active = h.active
    /\ g.cachedBytes = h.cachedBytes /\ g.bytes = h.bytes /\ g.refused = h.refused
    /\ g.maxHeap = h.maxHeap

\* What does not depend on the order of the usable arenas stays.
LEMMA OnlyUsableKeeps ==
  ASSUME NEW g, NEW h, OnlyUsable(g, h)
  PROVE  /\ Kin(g, h) /\ (Core(h) => Core(g))
  <1>1. Kin(g, h)
    BY DEF Kin, Rest, OnlyUsable
  <1>2. ASSUME Core(h) PROVE Core(g)
    <2>1. \A p : (Carved(g, p) <=> Carved(h, p)) /\ (InUse(g, p) <=> InUse(h, p))
      BY DEF Carved, InUse, OnlyUsable
    <2>2. \A a : KeptBy(g, a) = KeptBy(h, a)
      BY DEF KeptBy, OnlyUsable
    <2>3. Active(g) = Active(h)
      BY DEF Active, OnlyUsable
    <2>4. \A a \in Arenas : ArenaOk(g, a)
      BY <1>2, <2>2 DEF Core, ArenaOk, OnlyUsable
    <2>5. \A p \in Pools : PoolOk(g, p)
      BY <1>2, <2>1 DEF Core, PoolOk, OnlyUsable
    <2>6. \A c \in Classes : UsedOk(g, c) /\ KeptOk(g, c)
      BY <1>2, <2>1 DEF Core, UsedOk, KeptOk, OnlyUsable
    <2>7. TableOk(g)
      BY <1>2, <2>3 DEF Core, TableOk, OnlyUsable
    <2> QED BY <2>4, <2>5, <2>6, <2>7 DEF Core
  <1> QED BY <1>1, <1>2

\* Replacing the usable list changes nothing else.
LEMMA UsablePut ==
  ASSUME NEW h \in Heaps, NEW s \in Seq(Arenas)
  PROVE  LET g == [h EXCEPT !.usable = s]
         IN  g \in Heaps /\ g.usable = s /\ OnlyUsable(g, h)
  BY DEF Heaps, OnlyUsable

\* Where the slide ends.
LEMMA SlideStops ==
  ASSUME NEW n \in Nat, NEW k \in 1 .. n, NEW f \in [1 .. n -> Int], NEW v \in Int
  PROVE  LET m == CHOOSE i \in k .. n : /\ \A j \in k + 1 .. i : f[j] < v
                                        /\ i < n => f[i + 1] >= v
         IN  /\ m \in k .. n /\ \A j \in k + 1 .. m : f[j] < v
             /\ m < n => f[m + 1] >= v
  <1> DEFINE Stop(i) == /\ \A j \in k + 1 .. i : f[j] < v
                        /\ i < n => f[i + 1] >= v
             T == {i \in k .. n : i = n \/ f[i + 1] >= v}
  <1>1. T \subseteq Nat /\ T # {}
    <2>1. n \in T
      OBVIOUS
    <2> QED BY <2>1
  <1>2. PICK x \in T : \A y \in T : x <= y
    <2> HIDE DEF T
    <2> QED BY <1>1, LeastElement
  <1>3. \A j \in k + 1 .. x : f[j] < v
    <2> SUFFICES ASSUME NEW j \in k + 1 .. x PROVE f[j] < v
      OBVIOUS
    <2>1. j - 1 \notin T /\ j - 1 \in k .. n /\ j - 1 # n /\ j \in 1 .. n
      BY <1>2
    <2>2. ~ (f[(j - 1) + 1] >= v)
      BY <2>1
    <2>3. (j - 1) + 1 = j /\ f[j] \in Int
      BY <2>1
    <2> QED BY <2>2, <2>3
  <1>4. x \in k .. n /\ Stop(x)
    BY <1>2, <1>3
  <1> QED BY <1>4

\* Sliding an arena changes the usable list only.
LEMMA SlideFields ==
  ASSUME NEW h \in Heaps, NEW a \in Arenas, a \in Range(h.usable), IsInjective(h.usable)
  PROVE  LET g == SlideUsableArena(h, a)
             s == h.usable
         IN  /\ g \in Heaps /\ OnlyUsable(g, h)
             /\ Range(g.usable) = Range(s) /\ IsInjective(g.usable) /\ Len(g.usable) = Len(s)
             /\ \E k \in 1 .. Len(s) : \E m \in k .. Len(s) :
                   /\ s[k] = a
                   /\ \A j \in k + 1 .. m : h.arena[s[j]].free < h.arena[a].free
                   /\ m < Len(s) => h.arena[s[m + 1]].free >= h.arena[a].free
                   /\ \A i \in 1 .. Len(s) : g.usable[i] =
                         IF i < k \/ i > m THEN s[i] ELSE IF i = m THEN a ELSE s[i + 1]
  <1> DEFINE s == h.usable
             n == Len(s)
             k == CHOOSE i \in DOMAIN s : s[i] = a
             f == [i \in 1 .. n |-> h.arena[s[i]].free]
             v == h.arena[a].free
             m == CHOOSE i \in k .. n : /\ \A j \in k + 1 .. i : h.arena[s[j]].free < v
                                        /\ i < n => h.arena[s[i + 1]].free >= v
             t == SubSeq(s, 1, k - 1) \o SubSeq(s, k + 1, m) \o <<a>> \o SubSeq(s, m + 1, n)
             g == SlideUsableArena(h, a)
  <1>1. s \in Seq(Arenas) /\ n \in Nat /\ \A i \in 1 .. n : s[i] \in Arenas
    BY DEF Heaps
  <1>2. k \in 1 .. n /\ s[k] = a
    <2>1. \E i \in DOMAIN s : s[i] = a
      BY DEF Range
    <2> QED BY <2>1, <1>1
  <1>3. f \in [1 .. n -> Int] /\ v \in Int
    BY <1>1, ArenaTypes
  <1>4. g = [h EXCEPT !.usable = t]
    BY DEF SlideUsableArena
  <1> HIDE DEF k, g
  <1>5. /\ m \in k .. n /\ \A j \in k + 1 .. m : h.arena[s[j]].free < v
        /\ m < n => h.arena[s[m + 1]].free >= v
    <2>1. ASSUME NEW i \in k .. n
          PROVE  (/\ \A j \in k + 1 .. i : h.arena[s[j]].free < v
                  /\ i < n => h.arena[s[i + 1]].free >= v)
                 <=> (/\ \A j \in k + 1 .. i : f[j] < v
                      /\ i < n => f[i + 1] >= v)
      <3>1. \A j \in k + 1 .. i : f[j] = h.arena[s[j]].free
        BY <1>1, <1>2
      <3>2. i < n => f[i + 1] = h.arena[s[i + 1]].free
        BY <1>1, <1>2
      <3> HIDE DEF f
      <3> QED BY <3>1, <3>2
    <2> HIDE DEF s, n, v, f
    <2>2. \E i \in k .. n : /\ \A j \in k + 1 .. i : f[j] < v
                            /\ i < n => f[i + 1] >= v
      <3>1. n \in Nat /\ k \in 1 .. n
        BY <1>1, <1>2
      <3> QED BY <3>1, <1>3, SlideStops
    <2>3. \E i \in k .. n : /\ \A j \in k + 1 .. i : h.arena[s[j]].free < v
                            /\ i < n => h.arena[s[i + 1]].free >= v
      BY <2>1, <2>2
    <2> QED BY <2>3
  <1> HIDE DEF m
  <1>6. /\ t \in Seq(Arenas) /\ Len(t) = n
        /\ \A i \in 1 .. n : t[i] = IF i < k \/ i > m THEN s[i] ELSE IF i = m THEN a ELSE s[i + 1]
        /\ Range(t) = Range(s) /\ IsInjective(t)
    <2> DEFINE u == SubSeq(s, 1, k - 1) \o SubSeq(s, k + 1, m) \o <<s[k]>> \o SubSeq(s, m + 1, Len(s))
    <2>1. IsInjective(s) /\ m \in k .. Len(s) /\ k \in 1 .. Len(s)
      BY <1>2, <1>5
    <2>2. t = u
      BY <1>2
    <2> HIDE DEF s, t
    <2>3. /\ u \in Seq(Arenas) /\ Len(u) = Len(s)
          /\ \A i \in 1 .. Len(s) : u[i] = IF i < k \/ i > m THEN s[i] ELSE IF i = m THEN s[k] ELSE s[i + 1]
          /\ Range(u) = Range(s) /\ (IsInjective(s) => IsInjective(u))
      BY <1>1, <2>1, MovedBehind
    <2> HIDE DEF u
    <2> QED BY <1>2, <2>1, <2>2, <2>3
  <1> HIDE DEF t
  <1>7. g \in Heaps /\ g.usable = t /\ OnlyUsable(g, h)
    BY <1>4, <1>6, UsablePut
  <1> QED BY <1>2, <1>5, <1>6, <1>7 DEF g

\* The usable list, place by place.
LEMMA ListedPlaces ==
  ASSUME NEW h \in Heaps
  PROVE  /\ h.usable \in Seq(Arenas) /\ Len(h.usable) \in Nat /\ DOMAIN h.usable = 1 .. Len(h.usable)
         /\ \A i \in 1 .. Len(h.usable) : h.usable[i] \in Range(h.usable)
         /\ \A b \in Range(h.usable) : \E i \in 1 .. Len(h.usable) : h.usable[i] = b
         /\ IsInjective(h.usable) =>
               \A i, j \in 1 .. Len(h.usable) : h.usable[i] = h.usable[j] => i = j
  <1>1. h.usable \in Seq(Arenas)
    BY DEF Heaps
  <1>2. /\ Len(h.usable) \in Nat /\ DOMAIN h.usable = 1 .. Len(h.usable)
        /\ \A x : x \in Range(h.usable) <=> \E i \in 1 .. Len(h.usable) : h.usable[i] = x
    BY <1>1, RangeElements
  <1> QED BY <1>1, <1>2 DEF IsInjective

\* The list without an arena that went back to the host.
LEMMA ListWithout ==
  ASSUME NEW h \in Heaps, NEW a \in Arenas, a \in Range(h.usable),
         Listed(h, {}), Sorted(h, {a}), FreeLast(h, {a}),
         NEW g \in Heaps, g.usable = Unlinked(h.usable, a), g.arena[a] = UnusedArena,
         \A b \in Arenas : b # a => g.arena[b] = h.arena[b]
  PROVE  UsableOk(g) /\ OneFree(g)
  <1> DEFINE s == h.usable
             t == g.usable
             n == Len(s)
  <1>1. /\ s \in Seq(Arenas) /\ n \in Nat /\ DOMAIN s = 1 .. n
        /\ \A i \in 1 .. n : s[i] \in Range(s)
        /\ \A i, j \in 1 .. n : s[i] = s[j] => i = j
        /\ IsInjective(s)
    BY ListedPlaces DEF Listed
  <1>2. /\ t \in Seq(Arenas) /\ Range(t) = Range(s) \ {a} /\ IsInjective(t) /\ Len(t) = n - 1
        /\ \E k \in 1 .. n : /\ s[k] = a
                             /\ \A i \in 1 .. n - 1 : t[i] = IF i < k THEN s[i] ELSE s[i + 1]
    <2> DEFINE u == Unlinked(s, a)
    <2>1. /\ u \in Seq(Arenas) /\ Range(u) = Range(s) \ {a}
          /\ IsInjective(u) /\ Len(u) = Len(s) - 1
      BY <1>1, UnlinkedList
    <2>2. Without(u, s, a)
      BY <1>1, UnlinkedList
    <2>3. t = u
      OBVIOUS
    <2> HIDE DEF u, t, s
    <2> QED BY <2>1, <2>2, <2>3 DEF Without
  <1>3. PICK k \in 1 .. n : /\ s[k] = a
                            /\ \A i \in 1 .. n - 1 : t[i] = IF i < k THEN s[i] ELSE s[i + 1]
    BY <1>2
  <1>4. DOMAIN t = 1 .. n - 1 /\ Len(t) = n - 1
    BY <1>2, ListedPlaces
  <1>5. Listed(g, {})
    <2>1. Range(s) = {b \in Arenas : h.arena[b].free > 0}
      BY DEF Listed
    <2>2. g.arena[a].free = 0
      BY DEF UnusedArena
    <2>3. Range(t) = {b \in Arenas : g.arena[b].free > 0}
      BY <2>1, <2>2, <1>2
    <2> QED BY <2>3, <1>2 DEF Listed
  <1> DEFINE at(i) == IF i < k THEN i ELSE i + 1
  <1>6. \A i \in 1 .. n - 1 : /\ at(i) \in 1 .. n /\ t[i] = s[at(i)] /\ t[i] # a
                              /\ t[i] \in Arenas
    <2> SUFFICES ASSUME NEW i \in 1 .. n - 1
                 PROVE  at(i) \in 1 .. n /\ t[i] = s[at(i)] /\ t[i] # a /\ t[i] \in Arenas
      OBVIOUS
    <2>1. at(i) \in 1 .. n /\ at(i) # k /\ t[i] = s[at(i)]
      BY <1>1, <1>3
    <2>2. s[at(i)] # s[k]
      <3> HIDE DEF at
      <3> QED BY <2>1, <1>1
    <2>3. t[i] \in Arenas
      BY <1>2
    <2> QED BY <2>1, <2>2, <2>3, <1>3
  <1>7. \A i, j \in 1 .. n - 1 : i < j => at(i) < at(j)
    BY <1>1
  <1> HIDE DEF at
  <1>8. Sorted(g, {})
    <2> SUFFICES ASSUME NEW i \in 1 .. n - 1, NEW j \in 1 .. n - 1, i < j
                 PROVE  g.arena[t[i]].free <= g.arena[t[j]].free
      BY <1>4 DEF Sorted
    <2>1. h.arena[s[at(i)]].free <= h.arena[s[at(j)]].free
      <3>1. at(i) \in DOMAIN s /\ at(j) \in DOMAIN s /\ at(i) < at(j) /\ s[at(i)] # a /\ s[at(j)] # a
        BY <1>1, <1>6, <1>7
      <3> QED BY <3>1 DEF Sorted
    <2>2. g.arena[t[i]] = h.arena[s[at(i)]] /\ g.arena[t[j]] = h.arena[s[at(j)]]
      BY <1>6
    <2> QED BY <2>1, <2>2
  <1>9. OneFree(g)
    <2> SUFFICES ASSUME NEW b \in Arenas, FreeArena(g, b) PROVE t[Len(t)] = b
      BY DEF OneFree, FreeLast, Last
    <2>1. b # a
      BY DEF FreeArena, UnusedArena
    <2>2. FreeArena(h, b)
      BY <2>1 DEF FreeArena
    <2>3. s[n] = b
      BY <2>1, <2>2 DEF FreeLast, Last
    <2>4. k # n /\ n - 1 \in 1 .. n - 1
      BY <2>1, <2>3, <1>1, <1>3
    <2>5. t[n - 1] = s[(n - 1) + 1]
      BY <2>4, <1>1, <1>3
    <2>6. (n - 1) + 1 = n
      BY <1>1
    <2> QED BY <2>3, <2>5, <2>6, <1>4
  <1> QED BY <1>5, <1>8, <1>9 DEF UsableOk

\* The list with an arena that has its first free pool.
LEMMA ListWithFirst ==
  ASSUME NEW h \in Heaps, NEW a \in Arenas, h.arena[a].free = 1, h.arena[a].total # 1,
         Listed(h, {a}), Sorted(h, {a}), FreeLast(h, {a})
  PROVE  LET g == [h EXCEPT !.usable = <<a>> \o @]
         IN  g \in Heaps /\ OnlyUsable(g, h) /\ UsableOk(g) /\ OneFree(g)
  <1> DEFINE s == h.usable
             t == <<a>> \o s
             n == Len(s)
             g == [h EXCEPT !.usable = t]
  <1>1. /\ s \in Seq(Arenas) /\ n \in Nat /\ DOMAIN s = 1 .. n
        /\ \A i \in 1 .. n : s[i] \in Range(s)
        /\ \A b \in Range(s) : \E i \in 1 .. n : s[i] = b
        /\ \A b \in Arenas : b \in Range(s) <=> b # a /\ h.arena[b].free > 0
        /\ Range(s) \subseteq Arenas
        /\ IsInjective(s)
    BY ListedPlaces DEF Listed
  <1>2. /\ t \in Seq(Arenas) /\ Len(t) = n + 1 /\ t[1] = a
        /\ \A i \in 2 .. n + 1 : t[i] = s[i - 1]
        /\ Range(t) = Range(s) \cup {a} /\ IsInjective(t)
    <2> HIDE DEF s
    <2> QED BY <1>1, LinkedFront
  <1> HIDE DEF t
  <1>3. g \in Heaps /\ g.usable = t /\ OnlyUsable(g, h)
    BY <1>2, UsablePut
  <1> HIDE DEF g
  <1>4. g.arena = h.arena /\ DOMAIN t = 1 .. n + 1
    BY <1>2, <1>3, ListedPlaces DEF OnlyUsable
  <1>5. Listed(g, {})
    BY <1>1, <1>2, <1>3, <1>4 DEF Listed
  <1>6. \A i \in 2 .. n + 1 : i - 1 \in 1 .. n /\ t[i] = s[i - 1] /\ t[i] # a /\ t[i] \in Arenas /\ h.arena[t[i]].free > 0
    BY <1>1, <1>2
  <1>7. Sorted(g, {})
    <2> SUFFICES ASSUME NEW i \in 1 .. n + 1, NEW j \in 1 .. n + 1, i < j
                 PROVE  h.arena[t[i]].free <= h.arena[t[j]].free
      BY <1>3, <1>4 DEF Sorted
    <2>1. j \in 2 .. n + 1
      OBVIOUS
    <2>2. CASE i = 1
      <3>1. h.arena[t[j]].free \in Int /\ h.arena[t[j]].free > 0
        BY <2>1, <1>6, ArenaTypes
      <3>2. h.arena[t[i]].free = 1
        BY <2>2, <1>2
      <3> QED BY <3>1, <3>2
    <2>3. CASE i # 1
      <3>1. /\ i - 1 \in DOMAIN s /\ j - 1 \in DOMAIN s /\ i - 1 < j - 1
            /\ s[i - 1] # a /\ s[j - 1] # a /\ t[i] = s[i - 1] /\ t[j] = s[j - 1]
        BY <2>1, <2>3, <1>1, <1>6
      <3> QED BY <3>1 DEF Sorted
    <2> QED BY <2>2, <2>3
  <1>8. OneFree(g)
    <2> SUFFICES ASSUME NEW b \in Arenas, FreeArena(h, b) PROVE t[n + 1] = b
      BY <1>2, <1>3, <1>4 DEF OneFree, FreeLast, Last, FreeArena
    <2>1. b # a
      BY DEF FreeArena
    <2>2. s[n] = b
      BY <2>1 DEF FreeLast, Last
    <2>3. b \in Range(s)
      BY <2>1, <1>1 DEF FreeArena
    <2>4. n # 0 /\ n + 1 \in 2 .. n + 1
      BY <2>3, <1>1
    <2>5. t[n + 1] = s[(n + 1) - 1]
      BY <2>4, <1>2
    <2>6. (n + 1) - 1 = n
      BY <1>1
    <2> QED BY <2>2, <2>5, <2>6
  <1> QED BY <1>3, <1>5, <1>7, <1>8 DEF UsableOk, g, t

\* The list with an arena that moved past the emptier ones behind it.
LEMMA ListSlid ==
  ASSUME NEW h \in Heaps, NEW a \in Arenas, a \in Range(h.usable),
         Listed(h, {}), Sorted(h, {a}), FreeLast(h, {a}),
         FreeArena(h, a) => Last(h.usable) = a,
         \A i, j \in DOMAIN h.usable : i < j /\ h.usable[j] = a => h.arena[h.usable[i]].free <= h.arena[a].free,
         \A b \in Arenas : /\ h.arena[b].total \in {0, ArenaPools - 1, ArenaPools}
                           /\ h.arena[b].free <= h.arena[b].total
  PROVE  LET g == SlideUsableArena(h, a)
         IN  g \in Heaps /\ OnlyUsable(g, h) /\ UsableOk(g) /\ OneFree(g)
  <1> DEFINE s == h.usable
             n == Len(s)
             g == SlideUsableArena(h, a)
             t == g.usable
             f == [i \in 1 .. n |-> h.arena[s[i]].free]
             v == h.arena[a].free
  <1>1. /\ s \in Seq(Arenas) /\ n \in Nat /\ DOMAIN s = 1 .. n
        /\ \A i \in 1 .. n : s[i] \in Range(s) /\ s[i] \in Arenas
        /\ \A i, j \in 1 .. n : s[i] = s[j] => i = j
        /\ IsInjective(s)
    <2>1. s \in Seq(Arenas) /\ n \in Nat
      BY DEF Heaps
    <2> QED BY <2>1, ListedPlaces DEF Listed
  <1>2. /\ g \in Heaps /\ OnlyUsable(g, h)
        /\ Range(t) = Range(s) /\ IsInjective(t) /\ Len(t) = n
        /\ \E k \in 1 .. n : \E m \in k .. n :
              /\ s[k] = a
              /\ \A j \in k + 1 .. m : h.arena[s[j]].free < v
              /\ m < n => h.arena[s[m + 1]].free >= v
              /\ \A i \in 1 .. n : t[i] = IF i < k \/ i > m THEN s[i] ELSE IF i = m THEN a ELSE s[i + 1]
    BY <1>1, SlideFields, ZenonT(30)
  <1> HIDE DEF g
  <1>3. PICK k \in 1 .. n : \E m \in k .. n :
              /\ s[k] = a
              /\ \A j \in k + 1 .. m : h.arena[s[j]].free < v
              /\ m < n => h.arena[s[m + 1]].free >= v
              /\ \A i \in 1 .. n : t[i] = IF i < k \/ i > m THEN s[i] ELSE IF i = m THEN a ELSE s[i + 1]
    BY <1>2
  <1>4. PICK m \in k .. n :
              /\ s[k] = a
              /\ \A j \in k + 1 .. m : h.arena[s[j]].free < v
              /\ m < n => h.arena[s[m + 1]].free >= v
              /\ \A i \in 1 .. n : t[i] = IF i < k \/ i > m THEN s[i] ELSE IF i = m THEN a ELSE s[i + 1]
    BY <1>3
  <1>5. DOMAIN t = 1 .. n /\ t \in Seq(Arenas) /\ g.arena = h.arena
    BY <1>2, ListedPlaces DEF OnlyUsable
  <1>6. f \in [1 .. n -> Int] /\ v \in Int /\ f[k] = v
    BY <1>1, <1>4, ArenaTypes
  <1>7. /\ \A i, j \in 1 .. n : i < j /\ i # k /\ j # k => f[i] <= f[j]
        /\ \A i \in 1 .. n : i < k => f[i] <= v
        /\ \A j \in k + 1 .. m : f[j] < v
        /\ m < n => f[m + 1] >= v
    <2>1. \A i \in 1 .. n : i # k => s[i] # a
      BY <1>1, <1>4
    <2>2. ASSUME NEW i \in 1 .. n, NEW j \in 1 .. n, i < j, i # k, j # k
          PROVE  f[i] <= f[j]
      BY <2>1, <2>2, <1>1 DEF Sorted
    <2>3. ASSUME NEW i \in 1 .. n, i < k PROVE f[i] <= v
      BY <2>3, <1>1, <1>4
    <2>4. \A j \in k + 1 .. m : f[j] < v
      BY <1>4
    <2>5. m < n => f[m + 1] >= v
      BY <1>4
    <2> QED BY <2>2, <2>3, <2>4, <2>5
  <1> DEFINE from(i) == IF i < k \/ i > m THEN i ELSE IF i = m THEN k ELSE i + 1
  <1>8. \A i \in 1 .. n : from(i) \in 1 .. n /\ t[i] = s[from(i)] /\ h.arena[t[i]].free = f[from(i)]
    <2> SUFFICES ASSUME NEW i \in 1 .. n
                 PROVE  from(i) \in 1 .. n /\ t[i] = s[from(i)] /\ h.arena[t[i]].free = f[from(i)]
      OBVIOUS
    <2>1. from(i) \in 1 .. n /\ t[i] = s[from(i)]
      BY <1>1, <1>4
    <2> HIDE DEF from
    <2> QED BY <2>1
  <1> HIDE DEF f, v
  <1>9. ASSUME NEW i \in 1 .. n, NEW j \in 1 .. n, i < j
        PROVE  f[from(i)] <= f[from(j)]
    <2> HIDE DEF n, s
    <2>0. n \in Nat
      BY <1>1
    <2>1. \A x \in 1 .. n : x > m => f[x] >= v
      <3> SUFFICES ASSUME NEW x \in 1 .. n, x > m PROVE f[x] >= v
        OBVIOUS
      <3>1. m + 1 \in 1 .. n /\ f[m + 1] >= v /\ f[m + 1] \in Int /\ f[x] \in Int
        BY <2>0, <1>6, <1>7
      <3>2. f[m + 1] <= f[x]
        BY <3>1, <2>0, <1>7
      <3> QED BY <3>1, <3>2, <1>6
    <2>2. CASE i < k
      <3>1. CASE j < k \/ j > m
        <4>1. from(i) = i /\ from(j) = j /\ i # k /\ j # k
          BY <2>0, <2>2, <3>1
        <4> HIDE DEF from
        <4> QED BY <4>1, <1>7, <1>9
      <3>2. CASE j = m /\ j >= k
        BY <3>2, <2>0, <2>2, <1>6, <1>7
      <3>3. CASE j >= k /\ j < m
        <4>1. from(i) = i /\ from(j) = j + 1 /\ j + 1 \in 1 .. n /\ i < j + 1 /\ i # k /\ j + 1 # k
          BY <2>0, <2>2, <3>3
        <4> HIDE DEF from
        <4> QED BY <4>1, <1>7
      <3> QED BY <3>1, <3>2, <3>3, <2>0
    <2>3. CASE i > m
      <3>1. i # k /\ j # k /\ from(i) = i /\ from(j) = j
        BY <2>0, <2>3, <1>9
      <3> QED BY <3>1, <1>7, <1>9
    <2>4. CASE i = m
      <3>1. from(i) = k /\ from(j) = j /\ j > m
        BY <2>0, <2>4, <1>9
      <3> HIDE DEF from
      <3> QED BY <3>1, <2>1, <1>6
    <2>5. CASE i >= k /\ i < m
      <3>1. from(i) = i + 1 /\ i + 1 \in k + 1 .. m /\ i + 1 \in 1 .. n
        BY <2>0, <2>5
      <3>2. CASE j < m
        <4>1. from(j) = j + 1 /\ j + 1 \in 1 .. n /\ i + 1 < j + 1 /\ i + 1 # k /\ j + 1 # k
          BY <2>0, <2>5, <3>2, <1>9
        <4> HIDE DEF from
        <4> QED BY <3>1, <4>1, <1>7
      <3>3. CASE j = m
        <4>1. from(j) = k
          BY <2>0, <2>5, <3>3
        <4> HIDE DEF from
        <4> QED BY <3>1, <4>1, <1>6, <1>7
      <3>4. CASE j > m
        <4>1. from(j) = j
          BY <2>0, <3>4
        <4>2. f[i + 1] < v /\ f[j] >= v
          BY <3>1, <3>4, <2>1, <1>7
        <4>3. f[i + 1] \in Int /\ f[j] \in Int
          BY <3>1, <1>6
        <4> HIDE DEF from
        <4> QED BY <3>1, <4>1, <4>2, <4>3, <1>6
      <3> QED BY <3>2, <3>3, <3>4, <2>0
    <2> QED BY <2>2, <2>3, <2>4, <2>5, <2>0
  <1> HIDE DEF from
  <1>10. Sorted(g, {})
    <2> SUFFICES ASSUME NEW i \in 1 .. n, NEW j \in 1 .. n, i < j
                 PROVE  h.arena[t[i]].free <= h.arena[t[j]].free
      BY <1>5 DEF Sorted
    <2> QED BY <1>8, <1>9
  <1>11. OneFree(g)
    <2> SUFFICES ASSUME NEW b \in Arenas, FreeArena(h, b) PROVE t[n] = b
      BY <1>2, <1>5 DEF OneFree, FreeLast, Last, FreeArena
    <2>1. s[n] = b
      BY DEF FreeLast, Last
    <2>2. n \in 1 .. n
      BY <1>1
    <2>3. CASE b = a
      <3>1. k = n /\ m = n
        BY <2>1, <2>2, <2>3, <1>1, <1>4
      <3> QED BY <2>1, <2>2, <2>3, <3>1, <1>4
    <2>4. CASE b # a
      <3>1. SUFFICES ASSUME m = n PROVE FALSE
        BY <2>1, <2>2, <1>1, <1>4
      <3>2. k # n
        BY <2>1, <2>4, <1>4
      <3>3. h.arena[b].free < v
        BY <2>1, <3>1, <3>2, <2>2, <1>4
      <3>4. ArenaPools \in Nat /\ ArenaPools >= 3 /\ h.arena[a].free \in Int
        BY Sizing, ArenaTypes
      <3> DEFINE x == h.arena[a].total
                 y == h.arena[b].total
                 z == h.arena[a].free
      <3>5. /\ x \in {0, ArenaPools - 1, ArenaPools} /\ y \in {0, ArenaPools - 1, ArenaPools}
            /\ y > 0 /\ z <= x /\ y < z /\ z \in Int
        BY <3>3, <3>4 DEF FreeArena, v
      <3> HIDE DEF x, y, z
      <3>6. x > 0 /\ z = x
        BY <3>4, <3>5
      <3>7. FreeArena(h, a)
        BY <3>6 DEF FreeArena, x, z
      <3> QED BY <3>7, <2>1, <2>4 DEF Last
    <2> QED BY <2>3, <2>4
  <1>12. Listed(g, {})
    BY <1>2, <1>5 DEF Listed
  <1> QED BY <1>2, <1>10, <1>11, <1>12 DEF UsableOk, g

-----------------------------------------------------------------------------
(* A pool goes back to its arena, and perhaps the arena to the host.       *)

\* The counts of an arena are natural and add up to no more than its pools.
LEMMA ArenaNumbers ==
  ASSUME NEW h \in Heaps, Core(h), NEW a \in Arenas
  PROVE  /\ h.arena[a].free \in Nat /\ h.arena[a].kept \in Nat /\ h.arena[a].total \in Nat
         /\ h.arena[a].free <= h.arena[a].total
         /\ h.arena[a].free + h.arena[a].kept <= h.arena[a].total
         /\ h.arena[a].total \in {0, ArenaPools - 1, ArenaPools}
         /\ h.arena[a].total # 1
  <1>1. ArenaOk(h, a) /\ \A c \in Classes : KeptOk(h, c)
    BY DEF Core
  <1> DEFINE f == h.arena[a].free
             t == h.arena[a].total
             b == h.arena[a].bump
             l == Len(h.arena[a].freePools)
             k == h.arena[a].kept
  <1>2. /\ t \in {0, ArenaPools - 1, ArenaPools} /\ b <= t + 1
        /\ f = t - (b - 1) + l
    BY <1>1 DEF ArenaOk
  <1>3. f \in Int /\ t \in Int /\ b \in Int /\ l \in Nat /\ ArenaPools \in Nat /\ ArenaPools >= 3
    <2>1. f \in Int /\ t \in 0 .. ArenaPools /\ b \in Int /\ h.arena[a].freePools \in Seq(Pools)
      BY ArenaTypes
    <2>2. ArenaPools \in Nat /\ ArenaPools >= 3
      BY Sizing
    <2>3. l \in Nat
      BY <2>1
    <2> HIDE DEF f, t, b, l
    <2> QED BY <2>1, <2>2, <2>3
  <1>4. k \in Nat /\ f + k <= t
    BY <1>1, KeptCrowd
  <1> HIDE DEF f, t, b, l, k
  <1>5. f \in Nat /\ t \in Nat /\ f <= t /\ t # 1
    BY <1>2, <1>3, <1>4
  <1> QED BY <1>2, <1>4, <1>5 DEF f, t, k

\* What the pool that went back leaves of its arena, and all else.
Released(g, h, p) ==
    LET a == p[1]
    IN  /\ Kin(g, h) /\ g.kept = h.kept
        /\ \A d \in Classes : Range(g.used[d]) = Range(h.used[d]) \ {p}
        /\ \A b \in Arenas : b # a => g.arena[b] = h.arena[b]
        /\ \/ g.arena[a] = UnusedArena /\ h.arena[a].kept = 0
           \/ /\ g.arena[a].free = h.arena[a].free + 1 /\ g.arena[a].total = h.arena[a].total
              /\ g.arena[a].kept = h.arena[a].kept
        /\ h.maxHeap # 0 => ~FreeArena(g, a)

\* Two steps that leave the same things alone leave them alone together.
LEMMA KinChain ==
  ASSUME NEW f, NEW g, NEW h, Kin(f, g), Kin(g, h)
  PROVE  Kin(f, h)
  BY DEF Kin

\* tinypy_pool_release_pool keeps the invariant, the arena's fate included.
LEMMA ReleasePoolKeeps ==
  ASSUME NEW h, Good(h), NEW p, MayGoBack(h, p)
  PROVE  Good(ReleasePool(h, p)) /\ Released(ReleasePool(h, p), h, p)
  <1> DEFINE a == p[1]
             x == PutBack(h, p)
             g == ReleasePool(h, p)
  <1>1. h \in Heaps /\ Core(h) /\ UsableOk(h) /\ OneFree(h) /\ p \in Pools /\ a \in Arenas
    BY Places DEF Good, MayGoBack
  <1>2. /\ x \in Heaps /\ Core(x) /\ Kin(x, h)
        /\ x.kept = h.kept /\ x.usable = h.usable
        /\ \A b \in Arenas : b # a => x.arena[b] = h.arena[b]
        /\ x.arena[a].free = h.arena[a].free + 1 /\ x.arena[a].total = h.arena[a].total
        /\ x.arena[a].kept = h.arena[a].kept
        /\ \A d \in Classes : Range(x.used[d]) = Range(h.used[d]) \ {p}
    <2>1. x \in Heaps /\ Core(x) /\ Kin(x, h) /\ x.kept = h.kept /\ x.usable = h.usable
      BY <1>1, PutBackKeepsCore
    <2>2. /\ x.arena[a].free = h.arena[a].free + 1 /\ x.arena[a].total = h.arena[a].total
          /\ x.arena[a].kept = h.arena[a].kept
      BY <1>1, PutBackKeepsCore
    <2>3. \A b \in Arenas : b # a => x.arena[b] = h.arena[b]
      BY <1>1, PutBackKeepsCore
    <2>4. \A d \in Classes : Range(x.used[d]) = Range(h.used[d]) \ {p}
      BY <1>1, PutBackKeepsCore
    <2> HIDE DEF x, a
    <2> QED BY <2>1, <2>2, <2>3, <2>4
  <1>3. g = IF x.arena[a].free = x.arena[a].total /\ (HasNext(x, a) \/ x.maxHeap # 0)
              THEN ReleaseArena(x, a)
            ELSE IF x.arena[a].free = 1 THEN [x EXCEPT !.usable = <<a>> \o @]
            ELSE SlideUsableArena(x, a)
    <2>1. x.maxHeap = h.maxHeap
      BY <1>2 DEF Kin
    <2> QED BY <2>1, SMTT(20) DEF ReleasePool, PutBack
  <1> HIDE DEF x, g, a
  <1>4. /\ h.arena[a].free \in Nat /\ x.arena[a].total \in Nat /\ x.arena[a].total # 1
    BY <1>1, <1>2, ArenaNumbers
  <1>5. Sorted(x, {a}) /\ FreeLast(x, {a}) /\ IsInjective(x.usable)
    <2>1. \A i \in DOMAIN h.usable : h.usable[i] \in Arenas
      BY <1>1 DEF Heaps
    <2>2. Sorted(x, {a})
      BY <2>1, <1>1, <1>2 DEF UsableOk, Sorted
    <2>3. FreeLast(x, {a})
      BY <1>1, <1>2 DEF OneFree, FreeLast, FreeArena
    <2> QED BY <2>2, <2>3, <1>1, <1>2 DEF UsableOk, Listed
  <1>6. CASE x.arena[a].free = 1
    <2>1. Listed(x, {a})
      <3>1. Range(h.usable) = {b \in Arenas : h.arena[b].free > 0}
        BY <1>1 DEF UsableOk, Listed
      <3>2. h.arena[a].free = 0
        BY <1>2, <1>4, <1>6
      <3> QED BY <3>1, <3>2, <1>2, <1>5 DEF Listed
    <2>2. g = [x EXCEPT !.usable = <<a>> \o @]
      BY <1>3, <1>4, <1>6
    <2>3. g \in Heaps /\ OnlyUsable(g, x) /\ UsableOk(g) /\ OneFree(g)
      BY <2>1, <2>2, <1>1, <1>2, <1>4, <1>5, <1>6, ListWithFirst
    <2>4. Core(g) /\ Kin(g, x)
      BY <2>3, <1>2, OnlyUsableKeeps
    <2>5. Good(g)
      BY <2>3, <2>4 DEF Good
    <2>6. Kin(g, h)
      BY <2>4, <1>2, KinChain
    <2>7. ~FreeArena(g, a)
      BY <2>3, <1>4, <1>6 DEF FreeArena, OnlyUsable
    <2>8. Released(g, h, p)
      BY <2>3, <2>6, <2>7, <1>2 DEF Released, OnlyUsable, a
    <2> QED BY <2>5, <2>8 DEF g
  <1>7. CASE x.arena[a].free # 1
    <2>1. Listed(x, {}) /\ a \in Range(x.usable)
      <3>1. Range(h.usable) = {b \in Arenas : h.arena[b].free > 0}
        BY <1>1 DEF UsableOk, Listed
      <3>2. h.arena[a].free > 0 /\ x.arena[a].free > 0
        BY <1>2, <1>4, <1>7
      <3> QED BY <3>1, <3>2, <1>1, <1>2, <1>5 DEF Listed
    <2>2. CASE x.arena[a].free = x.arena[a].total /\ (HasNext(x, a) \/ x.maxHeap # 0)
      <3>1. g = ReleaseArena(x, a)
        BY <2>2, <1>3
      <3>2. FreeArena(x, a)
        BY <2>2, <1>2, <1>4 DEF FreeArena
      <3>3. /\ g \in Heaps /\ Core(g) /\ Kin(g, x)
            /\ g.kept = x.kept /\ g.used = x.used /\ g.usable = Unlinked(x.usable, a)
            /\ g.arena[a] = UnusedArena /\ x.arena[a].kept = 0
            /\ \A b \in Arenas : b # a => g.arena[b] = x.arena[b]
        BY <3>1, <3>2, <2>1, <1>1, <1>2, <1>5, ReleaseArenaKeepsCore
      <3>4. UsableOk(g) /\ OneFree(g)
        BY <3>3, <2>1, <1>1, <1>2, <1>5, ListWithout
      <3>5. Kin(g, h)
        BY <3>3, <1>2, KinChain
      <3>6. ~FreeArena(g, a)
        BY <3>3 DEF FreeArena, UnusedArena
      <3>7. Released(g, h, p)
        BY <3>3, <3>5, <3>6, <1>2 DEF Released, a
      <3> QED BY <3>3, <3>4, <3>7 DEF Good, g
    <2>3. CASE ~(x.arena[a].free = x.arena[a].total /\ (HasNext(x, a) \/ x.maxHeap # 0))
      <3>1. g = SlideUsableArena(x, a)
        BY <2>3, <1>3, <1>7
      <3>2. FreeArena(x, a) => Last(x.usable) = a /\ x.maxHeap = 0
        BY <2>1, <2>3 DEF FreeArena, HasNext
      <3>3. \A i, j \in DOMAIN x.usable : i < j /\ x.usable[j] = a => x.arena[x.usable[i]].free <= x.arena[a].free
        <4> SUFFICES ASSUME NEW i \in DOMAIN h.usable, NEW j \in DOMAIN h.usable, i < j, h.usable[j] = a
                     PROVE  x.arena[h.usable[i]].free <= x.arena[a].free
          BY <1>2
        <4>1. /\ h.arena[h.usable[i]].free <= h.arena[a].free
          BY <1>1 DEF UsableOk, Sorted
        <4>2. h.usable[i] # a
          BY <1>1 DEF UsableOk, Listed, IsInjective, Heaps
        <4>3. h.usable[i] \in Arenas
          BY <1>1 DEF Heaps
        <4>4. h.arena[h.usable[i]].free \in Int
          BY <4>3, <1>1, ArenaTypes
        <4>5. x.arena[h.usable[i]].free = h.arena[h.usable[i]].free
          BY <4>2, <4>3, <1>2
        <4> QED BY <4>1, <4>4, <4>5, <1>2, <1>4
      <3>4. \A b \in Arenas : /\ x.arena[b].total \in {0, ArenaPools - 1, ArenaPools}
                              /\ x.arena[b].free <= x.arena[b].total
        BY <1>2, ArenaNumbers
      <3>5. g \in Heaps /\ OnlyUsable(g, x) /\ UsableOk(g) /\ OneFree(g)
        BY <3>1, <3>2, <3>3, <3>4, <2>1, <1>1, <1>2, <1>5, ListSlid
      <3>6. Core(g) /\ Kin(g, x)
        BY <3>5, <1>2, OnlyUsableKeeps
      <3>7. Good(g)
        BY <3>5, <3>6 DEF Good
      <3>8. Kin(g, h)
        BY <3>6, <1>2, KinChain
      <3>9. h.maxHeap # 0 => ~FreeArena(g, a)
        BY <3>2, <3>5, <1>2 DEF FreeArena, OnlyUsable, Kin
      <3>10. Released(g, h, p)
        BY <3>5, <3>8, <3>9, <1>2 DEF Released, OnlyUsable, a
      <3> QED BY <3>7, <3>10 DEF g
    <2> QED BY <2>2, <2>3
  <1> QED BY <1>6, <1>7

-----------------------------------------------------------------------------
(* Kept pools that are dropped.                                            *)

\* The class has no kept pool any more; the pool itself is not looked at yet.
Forgotten(h, c) == [h EXCEPT !.kept[c] = NoPool, !.arena[h.kept[c][1]].kept = @ - 1]

\* Forgetting a kept pool changes its class and the count of its arena.
LEMMA ForgottenFields ==
  ASSUME NEW h \in Heaps, NEW c \in Classes, h.kept[c] # NoPool
  PROVE  LET g == Forgotten(h, c)
             a == h.kept[c][1]
         IN  /\ g \in Heaps /\ a \in Arenas /\ h.kept[c] \in Pools
             /\ g.pool = h.pool /\ g.used = h.used /\ g.unused = h.unused /\ g.usable = h.usable
             /\ g.table = h.table /\ g.active = h.active /\ g.cachedBytes = h.cachedBytes
             /\ g.bytes = h.bytes /\ g.refused = h.refused /\ g.maxHeap = h.maxHeap
             /\ g.kept[c] = NoPool /\ \A d \in Classes : d # c => g.kept[d] = h.kept[d]
             /\ \A b \in Arenas : b # a => g.arena[b] = h.arena[b]
             /\ g.arena[a].free = h.arena[a].free /\ g.arena[a].total = h.arena[a].total
             /\ g.arena[a].kept = h.arena[a].kept - 1 /\ g.arena[a].bump = h.arena[a].bump
             /\ g.arena[a].freePools = h.arena[a].freePools
  <1> DEFINE g == Forgotten(h, c)
             a == h.kept[c][1]
             n == h.arena[a].kept - 1
             r == [h.arena[a] EXCEPT !.kept = n]
  <1>1. h.kept[c] \in Pools /\ a \in Arenas
    BY Places DEF Heaps
  <1>2. h.arena[a] \in ArenaShape /\ n \in Int
    BY <1>1 DEF Heaps, ArenaShape
  <1>3. g = [h EXCEPT !.kept = [@ EXCEPT ![c] = NoPool], !.arena = [@ EXCEPT ![a] = r]]
    BY <1>1, <1>2 DEF Forgotten, Heaps, ArenaShape
  <1>4. /\ r \in ArenaShape /\ r.free = h.arena[a].free /\ r.total = h.arena[a].total
        /\ r.kept = n /\ r.bump = h.arena[a].bump /\ r.freePools = h.arena[a].freePools
    <2> DEFINE x == h.arena[a]
    <2> HIDE DEF x, n, a
    <2>1. LET y == [x EXCEPT !.kept = n]
          IN  /\ y \in ArenaShape /\ y.free = x.free /\ y.total = x.total
              /\ y.kept = n /\ y.bump = x.bump /\ y.freePools = x.freePools
      BY <1>2 DEF ArenaShape, x
    <2> QED BY <2>1 DEF x
  <1> HIDE DEF g, r, n, a
  <1>5. /\ g \in Heaps
        /\ g.pool = h.pool /\ g.used = h.used /\ g.unused = h.unused /\ g.usable = h.usable
        /\ g.table = h.table /\ g.active = h.active /\ g.cachedBytes = h.cachedBytes
        /\ g.bytes = h.bytes /\ g.refused = h.refused /\ g.maxHeap = h.maxHeap
        /\ g.kept = [h.kept EXCEPT ![c] = NoPool] /\ g.arena = [h.arena EXCEPT ![a] = r]
    BY <1>1, <1>3, <1>4 DEF Heaps
  <1>6. /\ g.arena[a] = r /\ \A b \in Arenas : b # a => g.arena[b] = h.arena[b]
        /\ g.kept[c] = NoPool /\ \A d \in Classes : d # c => g.kept[d] = h.kept[d]
    BY <1>1, <1>5 DEF Heaps
  <1> QED BY <1>1, <1>4, <1>5, <1>6 DEF g, a, n

\* A kept pool that is forgotten leaves the invariant to what is done with it.
LEMMA ForgottenKeeps ==
  ASSUME NEW h, Good(h), NEW c \in Classes, h.kept[c] # NoPool
  PROVE  LET g == Forgotten(h, c)
         IN  /\ Good(g) /\ Kin(g, h)
             /\ h.pool[h.kept[c]].ref = 0 => MayGoBack(g, h.kept[c])
  <1> DEFINE g == Forgotten(h, c)
             p == h.kept[c]
             a == p[1]
  <1>1. h \in Heaps /\ Core(h) /\ UsableOk(h) /\ OneFree(h)
    BY DEF Good
  <1>2. /\ g \in Heaps /\ a \in Arenas /\ p \in Pools
        /\ g.pool = h.pool /\ g.used = h.used /\ g.unused = h.unused /\ g.usable = h.usable
        /\ g.table = h.table /\ g.active = h.active /\ g.cachedBytes = h.cachedBytes
        /\ g.bytes = h.bytes /\ g.refused = h.refused /\ g.maxHeap = h.maxHeap
    BY <1>1, ForgottenFields
  <1>3. /\ g.kept[c] = NoPool /\ \A d \in Classes : d # c => g.kept[d] = h.kept[d]
        /\ \A b \in Arenas : b # a => g.arena[b] = h.arena[b]
        /\ g.arena[a].free = h.arena[a].free /\ g.arena[a].total = h.arena[a].total
        /\ g.arena[a].kept = h.arena[a].kept - 1 /\ g.arena[a].bump = h.arena[a].bump
        /\ g.arena[a].freePools = h.arena[a].freePools
    BY <1>1, ForgottenFields
  <1> HIDE DEF g, a, p
  <1>4. \A b \in Arenas : /\ g.arena[b].free = h.arena[b].free /\ g.arena[b].total = h.arena[b].total
                          /\ g.arena[b].bump = h.arena[b].bump /\ g.arena[b].freePools = h.arena[b].freePools
    BY <1>3
  <1>5. \A q \in Pools : (Carved(g, q) <=> Carved(h, q)) /\ (InUse(g, q) <=> InUse(h, q))
    BY <1>4, Places DEF Carved, InUse
  <1>6. KeptBy(g, a) = KeptBy(h, a) \ {c} /\ c \in KeptBy(h, a)
    BY <1>3 DEF KeptBy, a, p
  <1>7. \A b \in Arenas : b # a => KeptBy(g, b) = KeptBy(h, b)
    BY <1>3 DEF KeptBy, a, p
  <1>8. ASSUME NEW b \in Arenas PROVE ArenaOk(g, b)
    <2>1. ArenaOk(h, b)
      BY <1>1 DEF Core
    <2>2. g.arena[b].kept = Cardinality(KeptBy(g, b))
      <3>1. CASE b # a
        BY <3>1, <2>1, <1>3, <1>7 DEF ArenaOk
      <3>2. CASE b = a
        <4>1. IsFiniteSet(KeptBy(h, a))
          BY <1>1, <1>2, KeptPoolsOf DEF Core
        <4>2. Cardinality(KeptBy(g, a)) = Cardinality(KeptBy(h, a)) - 1
          BY <4>1, <1>6, FS_RemoveElement
        <4> QED BY <4>2, <3>2, <2>1, <1>3 DEF ArenaOk
      <3> QED BY <3>1, <3>2
    <2> QED BY <2>1, <2>2, <1>4 DEF ArenaOk
  <1>9. ASSUME NEW q \in Pools PROVE PoolOk(g, q)
    BY <1>1, <1>2, <1>5 DEF Core, PoolOk
  <1>10. ASSUME NEW d \in Classes PROVE UsedOk(g, d)
    BY <1>1, <1>2, <1>5 DEF Core, UsedOk
  <1>11. ASSUME NEW d \in Classes PROVE KeptOk(g, d)
    <2>1. KeptOk(h, d) /\ (h.kept[d] # NoPool => h.kept[d] \in Pools)
      BY <1>1 DEF Core, Heaps
    <2> QED BY <2>1, <1>2, <1>3, <1>5 DEF KeptOk
  <1>12. TableOk(g)
    <2>1. Active(g) = Active(h)
      BY <1>4 DEF Active
    <2> QED BY <2>1, <1>1, <1>2 DEF Core, TableOk
  <1>13. Core(g)
    BY <1>8, <1>9, <1>10, <1>11, <1>12 DEF Core
  <1>14. UsableOk(g)
    <2>1. Listed(g, {})
      BY <1>1, <1>2, <1>4 DEF UsableOk, Listed
    <2>2. Sorted(g, {})
      <3>1. \A i \in DOMAIN h.usable : h.usable[i] \in Arenas
        BY <1>1 DEF Heaps
      <3> QED BY <3>1, <1>1, <1>2, <1>4 DEF UsableOk, Sorted
    <2> QED BY <2>1, <2>2 DEF UsableOk
  <1>15. OneFree(g)
    BY <1>1, <1>2, <1>4 DEF OneFree, FreeLast, FreeArena
  <1>16. Kin(g, h)
    BY <1>2 DEF Kin, Rest
  <1>17. ASSUME h.pool[p].ref = 0 PROVE MayGoBack(g, p)
    <2>1. InUse(g, p) /\ h.pool[p].class = c
      BY <1>1, <1>2, <1>5 DEF Core, KeptOk, p
    <2>2. \A d \in Classes : g.kept[d] # p
      <3> SUFFICES ASSUME NEW d \in Classes, g.kept[d] = p PROVE FALSE
        OBVIOUS
      <3>1. d # c /\ h.kept[d] = p /\ p # NoPool
        BY <1>3, <1>2, Places
      <3>2. h.pool[p].class = d
        BY <3>1, <1>1 DEF Core, KeptOk
      <3> QED BY <2>1, <3>1, <3>2
    <2> QED BY <2>1, <2>2, <1>2, <1>17 DEF MayGoBack
  <1> QED BY <1>2, <1>13, <1>14, <1>15, <1>16, <1>17 DEF Good, g, p

\* What dropping kept pools does: no class gets another kept pool, no used
\* pool is left behind without a block out, and an arena that still has kept
\* pools has as many pools in use that are not kept.
Fewer(g, h) ==
    /\ Kin(g, h)
    /\ \A d \in Classes : g.kept[d] # NoPool => g.kept[d] = h.kept[d]
    /\ \A d \in Classes : \A q \in Range(g.used[d]) :
          q \in Range(h.used[d]) /\ (g.pool[q].ref = 0 /\ h.kept[d] = q => g.kept[d] = q)
    /\ \A b \in Arenas : g.arena[b].kept > 0 =>
          /\ h.arena[b].kept > 0 /\ g.arena[b].total = h.arena[b].total
          /\ g.arena[b].free + g.arena[b].kept <= h.arena[b].free + h.arena[b].kept

\* Dropping kept pools twice drops them.
LEMMA FewerChain ==
  ASSUME NEW f \in Heaps, NEW g \in Heaps, NEW h \in Heaps, Fewer(f, g), Fewer(g, h)
  PROVE  Fewer(f, h)
  <1>1. Kin(f, h)
    BY KinChain DEF Fewer
  <1>2. \A d \in Classes : f.kept[d] # NoPool => f.kept[d] = h.kept[d]
    BY DEF Fewer
  <1>3. ASSUME NEW d \in Classes, NEW q \in Range(f.used[d])
        PROVE  q \in Range(h.used[d]) /\ (f.pool[q].ref = 0 /\ h.kept[d] = q => f.kept[d] = q)
    <2>1. q \in Range(g.used[d]) /\ q \in Range(h.used[d])
      BY DEF Fewer
    <2>2. q \in Pools
      <3>1. f.used[d] \in Seq(Pools)
        BY DEF Heaps
      <3> QED BY <3>1, RangeElements
    <2>3. f.pool[q].ref = g.pool[q].ref
      BY <2>2 DEF Fewer, Kin
    <2> QED BY <2>1, <2>3 DEF Fewer
  <1>4. ASSUME NEW b \in Arenas, f.arena[b].kept > 0
        PROVE  /\ h.arena[b].kept > 0 /\ f.arena[b].total = h.arena[b].total
               /\ f.arena[b].free + f.arena[b].kept <= h.arena[b].free + h.arena[b].kept
    <2>1. /\ g.arena[b].kept > 0 /\ f.arena[b].total = g.arena[b].total
          /\ f.arena[b].free + f.arena[b].kept <= g.arena[b].free + g.arena[b].kept
      BY <1>4 DEF Fewer
    <2>2. /\ h.arena[b].kept > 0 /\ g.arena[b].total = h.arena[b].total
          /\ g.arena[b].free + g.arena[b].kept <= h.arena[b].free + h.arena[b].kept
      BY <2>1 DEF Fewer
    <2>3. /\ f.arena[b].free \in Int /\ f.arena[b].kept \in Int /\ g.arena[b].free \in Int
          /\ g.arena[b].kept \in Int /\ h.arena[b].free \in Int /\ h.arena[b].kept \in Int
      BY ArenaTypes
    <2> QED BY <2>1, <2>2, <2>3
  <1> QED BY <1>1, <1>2, <1>3, <1>4 DEF Fewer

\* With fewer kept pools nothing new holds an arena.
LEMMA FewerKeeps ==
  ASSUME NEW g \in Heaps, NEW h \in Heaps, Fewer(g, h)
  PROVE  /\ \A X : EmptyKept(h, X) => EmptyKept(g, X)
         /\ \A W : Hold(h, W) => Hold(g, W)
  <1>1. ASSUME NEW X, EmptyKept(h, X) PROVE EmptyKept(g, X)
    <2> SUFFICES ASSUME NEW d \in Classes, NEW q \in Range(g.used[d]), g.pool[q].ref = 0
                 PROVE  g.kept[d] = q \/ q \in X
      BY DEF EmptyKept
    <2>1. q \in Range(h.used[d]) /\ (h.kept[d] = q => g.kept[d] = q)
      BY DEF Fewer
    <2>2. q \in Pools
      BY DEF Heaps, Range
    <2>3. h.pool[q].ref = 0
      BY <2>2 DEF Fewer, Kin
    <2> QED BY <2>1, <2>3, <1>1 DEF EmptyKept
  <1>2. ASSUME NEW W, Hold(h, W) PROVE Hold(g, W)
    <2> SUFFICES ASSUME NEW b \in Arenas \ W, g.arena[b].kept > 0
                 PROVE  g.arena[b].free + g.arena[b].kept < g.arena[b].total
      BY DEF Hold
    <2>1. /\ h.arena[b].kept > 0 /\ g.arena[b].total = h.arena[b].total
          /\ g.arena[b].free + g.arena[b].kept <= h.arena[b].free + h.arena[b].kept
      BY DEF Fewer
    <2>2. h.arena[b].free + h.arena[b].kept < h.arena[b].total
      BY <2>1, <1>2 DEF Hold
    <2>3. /\ g.arena[b].free \in Int /\ g.arena[b].kept \in Int
          /\ h.arena[b].free \in Int /\ h.arena[b].kept \in Int /\ h.arena[b].total \in Int
      BY ArenaTypes, Sizing, SMTT(20)
    <2> QED BY <2>1, <2>2, <2>3
  <1> QED BY <1>1, <1>2

\* Dropping nothing drops fewer.
LEMMA FewerNone ==
  ASSUME NEW h \in Heaps
  PROVE  Fewer(h, h)
  BY ArenaTypes DEF Fewer, Kin

\* tinypy_pool_drop_kept_pool keeps the invariant, used again or not.
LEMMA DropKeptPoolKeeps ==
  ASSUME NEW h, Good(h), NEW c \in Classes, h.kept[c] # NoPool
  PROVE  LET g == DropKeptPool(h, c)
         IN  /\ Good(g) /\ Fewer(g, h) /\ g.kept[c] = NoPool
             /\ \A p \in Range(g.used[c]) : g.pool[p].ref = 0 => p # h.kept[c]
  <1> DEFINE p == h.kept[c]
             a == p[1]
             x == Forgotten(h, c)
             g == DropKeptPool(h, c)
  <1>1. g = IF h.pool[p].ref = 0 THEN ReleasePool(x, p) ELSE x
    BY DEF DropKeptPool, Forgotten
  <1>2. Good(x) /\ Kin(x, h) /\ (h.pool[p].ref = 0 => MayGoBack(x, p))
    BY ForgottenKeeps
  <1>3. h \in Heaps /\ x \in Heaps /\ p \in Pools /\ a \in Arenas
    BY ForgottenFields DEF Good
  <1>4. /\ x.pool = h.pool /\ x.used = h.used
        /\ x.kept[c] = NoPool /\ \A d \in Classes : d # c => x.kept[d] = h.kept[d]
    BY <1>3, ForgottenFields
  <1>5. /\ \A b \in Arenas : b # a => x.arena[b] = h.arena[b]
        /\ x.arena[a].free = h.arena[a].free /\ x.arena[a].total = h.arena[a].total
        /\ x.arena[a].kept = h.arena[a].kept - 1
    BY <1>3, ForgottenFields
  <1> HIDE DEF x, g, a
  <1>6. /\ h.arena[a].free \in Int /\ h.arena[a].kept \in Int /\ x.arena[a].kept \in Nat
    <2>1. Core(x) /\ Core(h)
      BY <1>2 DEF Good
    <2> QED BY <2>1, <1>3, ArenaTypes, ArenaNumbers
  <1>7. \A b \in Arenas : h.arena[b].free + h.arena[b].kept \in Int
    BY <1>3, ArenaTypes
  <1>8. p # NoPool
    BY <1>3, Places
  <1> HIDE DEF p
  <1>9. CASE h.pool[p].ref # 0
    <2>1. g = x
      BY <1>1, <1>9
    <2>2. \A q \in Range(h.used[c]) : h.pool[q].ref = 0 => q # p
      BY <1>9
    <2>3. \A d \in Classes : \A q \in Range(x.used[d]) :
             q \in Range(h.used[d]) /\ (x.pool[q].ref = 0 /\ h.kept[d] = q => x.kept[d] = q)
      BY <1>4, <1>9 DEF p
    <2>4. \A b \in Arenas : x.arena[b].kept > 0 =>
             /\ h.arena[b].kept > 0 /\ x.arena[b].total = h.arena[b].total
             /\ x.arena[b].free + x.arena[b].kept <= h.arena[b].free + h.arena[b].kept
      <3> SUFFICES ASSUME NEW b \in Arenas, x.arena[b].kept > 0
                   PROVE  /\ h.arena[b].kept > 0 /\ x.arena[b].total = h.arena[b].total
                          /\ x.arena[b].free + x.arena[b].kept <= h.arena[b].free + h.arena[b].kept
        OBVIOUS
      <3>1. CASE b # a
        BY <3>1, <1>5, <1>7
      <3>2. CASE b = a
        BY <3>2, <1>5, <1>6
      <3> QED BY <3>1, <3>2
    <2>5. \A d \in Classes : x.kept[d] # NoPool => x.kept[d] = h.kept[d]
      BY <1>4
    <2>6. Fewer(x, h)
      BY <2>3, <2>4, <2>5, <1>2 DEF Fewer
    <2> QED BY <2>1, <2>2, <2>6, <1>2, <1>4 DEF g, p
  <1>10. CASE h.pool[p].ref = 0
    <2>1. g = ReleasePool(x, p) /\ MayGoBack(x, p)
      BY <1>1, <1>2, <1>10
    <2>2. Good(g) /\ Released(g, x, p)
      BY <2>1, <1>2, ReleasePoolKeeps
    <2>3. /\ Kin(g, x) /\ g.kept = x.kept
          /\ \A d \in Classes : Range(g.used[d]) = Range(h.used[d]) \ {p}
      BY <2>2, <1>4 DEF Released
    <2>4. /\ \A b \in Arenas : b # a => g.arena[b] = x.arena[b]
          /\ \/ g.arena[a] = UnusedArena
             \/ /\ g.arena[a].free = x.arena[a].free + 1 /\ g.arena[a].total = x.arena[a].total
                /\ g.arena[a].kept = x.arena[a].kept
      BY <2>2 DEF Released, a
    <2>5. Kin(g, h)
      BY <2>3, <1>2, KinChain
    <2>6. \A d \in Classes : \A q \in Range(g.used[d]) :
             q \in Range(h.used[d]) /\ (g.pool[q].ref = 0 /\ h.kept[d] = q => g.kept[d] = q)
      BY <2>3, <1>4 DEF p
    <2>7. \A b \in Arenas : g.arena[b].kept > 0 =>
             /\ h.arena[b].kept > 0 /\ g.arena[b].total = h.arena[b].total
             /\ g.arena[b].free + g.arena[b].kept <= h.arena[b].free + h.arena[b].kept
      <3> SUFFICES ASSUME NEW b \in Arenas, g.arena[b].kept > 0
                   PROVE  /\ h.arena[b].kept > 0 /\ g.arena[b].total = h.arena[b].total
                          /\ g.arena[b].free + g.arena[b].kept <= h.arena[b].free + h.arena[b].kept
        OBVIOUS
      <3>1. CASE b # a
        BY <3>1, <2>4, <1>5, <1>7
      <3>2. CASE b = a
        <4>1. /\ g.arena[a].free = h.arena[a].free + 1 /\ g.arena[a].total = h.arena[a].total
              /\ g.arena[a].kept = h.arena[a].kept - 1
          BY <3>2, <2>4, <1>5 DEF UnusedArena
        <4> QED BY <3>2, <4>1, <1>6
      <3> QED BY <3>1, <3>2
    <2>8. Fewer(g, h)
      BY <2>3, <2>5, <2>6, <2>7, <1>4 DEF Fewer
    <2> QED BY <2>2, <2>3, <2>8, <1>4 DEF g, p
  <1> QED BY <1>9, <1>10

\* The loop over the classes leaves no kept pool in the arenas it is made for.
LEMMA DropKeptPoolsKeeps ==
  ASSUME NEW h, Good(h), NEW W
  PROVE  LET g == DropKeptPools(h, W)
         IN  /\ Good(g) /\ Fewer(g, h)
             /\ \A c \in Classes : g.kept[c] # NoPool => g.kept[c][1] \notin W
  <1> DEFINE Step(f) == [c \in 0 .. ClassCount |-> IF c = 0 THEN h ELSE DropIfIn(f[c - 1], W, c)]
             J(s, i) == /\ Good(s) /\ Fewer(s, h)
                        /\ \A c \in 1 .. i : s.kept[c] # NoPool => s.kept[c][1] \notin W
             n == ClassCount
  <1>1. n \in Nat /\ Classes = 1 .. n
    BY Sizing DEF Classes
  <1>2. J(h, 0)
    BY FewerNone DEF Good
  <1>3. ASSUME NEW i \in 1 .. n, NEW s, J(s, i - 1) PROVE J(DropIfIn(s, W, i), i)
    <2> DEFINE g == DropIfIn(s, W, i)
    <2>1. s \in Heaps /\ h \in Heaps /\ i \in Classes
      BY <1>1, <1>3 DEF Good
    <2>2. CASE s.kept[i] # NoPool /\ s.kept[i][1] \in W
      <3>1. g = DropKeptPool(s, i)
        BY <2>2 DEF DropIfIn
      <3>2. Good(g) /\ Fewer(g, s) /\ g.kept[i] = NoPool
        BY <3>1, <2>1, <2>2, <1>3, DropKeptPoolKeeps
      <3> HIDE DEF g
      <3>3. Fewer(g, h)
        BY <3>2, <2>1, <1>3, FewerChain DEF Good
      <3>4. \A c \in 1 .. i : g.kept[c] # NoPool => g.kept[c][1] \notin W
        <4> SUFFICES ASSUME NEW c \in 1 .. i, g.kept[c] # NoPool PROVE g.kept[c][1] \notin W
          OBVIOUS
        <4>1. c \in 1 .. i - 1 /\ c \in Classes
          BY <3>2, <1>1
        <4>2. g.kept[c] = s.kept[c]
          BY <4>1, <3>2 DEF Fewer
        <4> QED BY <4>1, <4>2, <1>3
      <3> QED BY <3>2, <3>3, <3>4 DEF g
    <2>3. CASE ~(s.kept[i] # NoPool /\ s.kept[i][1] \in W)
      <3>1. g = s
        BY <2>3 DEF DropIfIn
      <3>2. \A c \in 1 .. i : c \in 1 .. i - 1 \/ c = i
        BY <1>1
      <3> QED BY <3>1, <3>2, <2>3, <1>3
    <2> QED BY <2>2, <2>3
  <1> DEFINE after == CHOOSE f : f = Step(f)
  <1>4. after = Step(after)
    <2> DEFINE F == [x \in Heaps \X (1 .. n) |-> DropIfIn(x[1], W, x[2])]
               K == {x \in Heaps \X (0 .. n) : J(x[1], x[2])}
    <2>1. <<h, 0>> \in K
      BY <1>1, <1>2 DEF Good
    <2>2. ASSUME NEW i \in 1 .. n, NEW s, <<s, i - 1>> \in K
          PROVE  F[<<s, i>>] = DropIfIn(s, W, i) /\ <<F[<<s, i>>], i>> \in K
      <3>1. s \in Heaps /\ J(s, i - 1)
        BY <2>2
      <3>2. F[<<s, i>>] = DropIfIn(s, W, i)
        BY <3>1
      <3>3. J(DropIfIn(s, W, i), i)
        BY <3>1, <1>3
      <3>4. DropIfIn(s, W, i) \in Heaps
        BY <3>3 DEF Good
      <3> HIDE DEF J, F
      <3> QED BY <3>2, <3>3, <3>4, <1>1
    <2> HIDE DEF F, K
    <2>3. PICK G : LoopRun(G, n, K, h, F)
      <3>1. \A i \in 1 .. n : \A s : <<s, i - 1>> \in K => <<F[<<s, i>>], i>> \in K
        BY <2>2
      <3> HIDE DEF n
      <3> QED BY <1>1, <2>1, <3>1, LoopRuns
    <2>4. G = Step(G)
      <3>1. \A i \in 0 .. n : i # 0 => F[<<G[i - 1], i>>] = DropIfIn(G[i - 1], W, i)
        <4> SUFFICES ASSUME NEW i \in 1 .. n PROVE F[<<G[i - 1], i>>] = DropIfIn(G[i - 1], W, i)
          BY <1>1
        <4>1. i - 1 \in 0 .. n
          BY <1>1
        <4> QED BY <4>1, <2>2, <2>3 DEF LoopRun
      <3>2. [i \in 0 .. n |-> IF i = 0 THEN h ELSE F[<<G[i - 1], i>>]]
              = [i \in 0 .. n |-> IF i = 0 THEN h ELSE DropIfIn(G[i - 1], W, i)]
        BY <3>1
      <3> QED BY <3>2, <2>3 DEF LoopRun
    <2> HIDE DEF Step
    <2> QED BY <2>4, Zenon
  <1>5. DropKeptPools(h, W) = after[n]
    BY Zenon DEF DropKeptPools
  <1> HIDE DEF after
  <1> DEFINE S == {i \in 0 .. n : J(after[i], i)}
  <1>6. 0 \in S
    <2>1. after[0] = h
      BY <1>1, <1>4
    <2> HIDE DEF J
    <2> QED BY <2>1, <1>1, <1>2
  <1>7. \A i \in 1 .. n : i - 1 \in S => i \in S
    <2> SUFFICES ASSUME NEW i \in 1 .. n, i - 1 \in S PROVE i \in S
      OBVIOUS
    <2>1. after[i] = DropIfIn(after[i - 1], W, i)
      BY <1>1, <1>4
    <2>2. J(after[i - 1], i - 1)
      OBVIOUS
    <2> HIDE DEF J
    <2>3. J(after[i], i)
      BY <2>1, <2>2, <1>3
    <2> QED BY <2>3, <1>1
  <1>8. n \in S
    <2> HIDE DEF S
    <2> QED BY <1>1, <1>6, <1>7, UpTo
  <1> QED BY <1>1, <1>5, <1>8

-----------------------------------------------------------------------------
(* A pool whose last block came back.                                      *)

\* The class keeps the pool.
Keeping(h, c, p) == [h EXCEPT !.kept[c] = p, !.arena[p[1]].kept = @ + 1]

\* Keeping a pool changes its class and the count of its arena.
LEMMA KeepingFields ==
  ASSUME NEW h \in Heaps, NEW c \in Classes, NEW p \in Pools
  PROVE  LET g == Keeping(h, c, p)
             a == p[1]
         IN  /\ g \in Heaps /\ a \in Arenas
             /\ g.pool = h.pool /\ g.used = h.used /\ g.unused = h.unused /\ g.usable = h.usable
             /\ g.table = h.table /\ g.active = h.active /\ g.cachedBytes = h.cachedBytes
             /\ g.bytes = h.bytes /\ g.refused = h.refused /\ g.maxHeap = h.maxHeap
             /\ g.kept[c] = p /\ \A d \in Classes : d # c => g.kept[d] = h.kept[d]
             /\ \A b \in Arenas : b # a => g.arena[b] = h.arena[b]
             /\ g.arena[a].free = h.arena[a].free /\ g.arena[a].total = h.arena[a].total
             /\ g.arena[a].kept = h.arena[a].kept + 1 /\ g.arena[a].bump = h.arena[a].bump
             /\ g.arena[a].freePools = h.arena[a].freePools
  <1> DEFINE g == Keeping(h, c, p)
             a == p[1]
             n == h.arena[a].kept + 1
             r == [h.arena[a] EXCEPT !.kept = n]
  <1>1. a \in Arenas
    BY Places
  <1>2. h.arena[a] \in ArenaShape /\ n \in Int
    BY <1>1 DEF Heaps, ArenaShape
  <1>3. g = [h EXCEPT !.kept = [@ EXCEPT ![c] = p], !.arena = [@ EXCEPT ![a] = r]]
    BY <1>1, <1>2 DEF Keeping, Heaps, ArenaShape
  <1>4. /\ r \in ArenaShape /\ r.free = h.arena[a].free /\ r.total = h.arena[a].total
        /\ r.kept = n /\ r.bump = h.arena[a].bump /\ r.freePools = h.arena[a].freePools
    <2> DEFINE x == h.arena[a]
    <2> HIDE DEF x, n, a
    <2>1. LET y == [x EXCEPT !.kept = n]
          IN  /\ y \in ArenaShape /\ y.free = x.free /\ y.total = x.total
              /\ y.kept = n /\ y.bump = x.bump /\ y.freePools = x.freePools
      BY <1>2 DEF ArenaShape, x
    <2> QED BY <2>1 DEF x
  <1> HIDE DEF g, r, n, a
  <1>5. /\ g \in Heaps
        /\ g.pool = h.pool /\ g.used = h.used /\ g.unused = h.unused /\ g.usable = h.usable
        /\ g.table = h.table /\ g.active = h.active /\ g.cachedBytes = h.cachedBytes
        /\ g.bytes = h.bytes /\ g.refused = h.refused /\ g.maxHeap = h.maxHeap
        /\ g.kept = [h.kept EXCEPT ![c] = p] /\ g.arena = [h.arena EXCEPT ![a] = r]
    BY <1>1, <1>3, <1>4 DEF Heaps
  <1>6. /\ g.arena[a] = r /\ \A b \in Arenas : b # a => g.arena[b] = h.arena[b]
        /\ g.kept[c] = p /\ \A d \in Classes : d # c => g.kept[d] = h.kept[d]
    BY <1>1, <1>5 DEF Heaps
  <1> QED BY <1>1, <1>4, <1>5, <1>6 DEF g, a, n

\* Keeping a pool keeps every list and count consistent.
LEMMA KeepingKeeps ==
  ASSUME NEW h, Good(h), NEW c \in Classes, h.kept[c] = NoPool,
         NEW p \in Pools, InUse(h, p), h.pool[p].class = c
  PROVE  Good(Keeping(h, c, p)) /\ Kin(Keeping(h, c, p), h)
  <1> DEFINE g == Keeping(h, c, p)
             a == p[1]
  <1>1. h \in Heaps /\ Core(h) /\ UsableOk(h) /\ OneFree(h)
    BY DEF Good
  <1>2. /\ g \in Heaps /\ a \in Arenas
        /\ g.pool = h.pool /\ g.used = h.used /\ g.unused = h.unused /\ g.usable = h.usable
        /\ g.table = h.table /\ g.active = h.active /\ g.cachedBytes = h.cachedBytes
        /\ g.bytes = h.bytes /\ g.refused = h.refused /\ g.maxHeap = h.maxHeap
    BY <1>1, KeepingFields
  <1>3. /\ g.kept[c] = p /\ \A d \in Classes : d # c => g.kept[d] = h.kept[d]
        /\ \A b \in Arenas : b # a => g.arena[b] = h.arena[b]
        /\ g.arena[a].free = h.arena[a].free /\ g.arena[a].total = h.arena[a].total
        /\ g.arena[a].kept = h.arena[a].kept + 1 /\ g.arena[a].bump = h.arena[a].bump
        /\ g.arena[a].freePools = h.arena[a].freePools
    BY <1>1, KeepingFields
  <1> HIDE DEF g, a
  <1>4. \A b \in Arenas : /\ g.arena[b].free = h.arena[b].free /\ g.arena[b].total = h.arena[b].total
                          /\ g.arena[b].bump = h.arena[b].bump /\ g.arena[b].freePools = h.arena[b].freePools
    BY <1>3
  <1>5. \A q \in Pools : (Carved(g, q) <=> Carved(h, q)) /\ (InUse(g, q) <=> InUse(h, q))
    BY <1>4, Places DEF Carved, InUse
  <1>6. KeptBy(g, a) = KeptBy(h, a) \cup {c} /\ c \notin KeptBy(h, a)
    BY <1>3, Places DEF KeptBy, a
  <1>7. \A b \in Arenas : b # a => KeptBy(g, b) = KeptBy(h, b)
    BY <1>3 DEF KeptBy, a
  <1>8. ASSUME NEW b \in Arenas PROVE ArenaOk(g, b)
    <2>1. ArenaOk(h, b)
      BY <1>1 DEF Core
    <2>2. g.arena[b].kept = Cardinality(KeptBy(g, b))
      <3>1. CASE b # a
        BY <3>1, <2>1, <1>3, <1>7 DEF ArenaOk
      <3>2. CASE b = a
        <4>1. IsFiniteSet(KeptBy(h, a))
          BY <1>1, <1>2, KeptPoolsOf DEF Core
        <4>2. Cardinality(KeptBy(g, a)) = Cardinality(KeptBy(h, a)) + 1
          BY <4>1, <1>6, FS_AddElement
        <4> QED BY <4>2, <3>2, <2>1, <1>3 DEF ArenaOk
      <3> QED BY <3>1, <3>2
    <2> QED BY <2>1, <2>2, <1>4 DEF ArenaOk
  <1>9. ASSUME NEW q \in Pools PROVE PoolOk(g, q)
    BY <1>1, <1>2, <1>5 DEF Core, PoolOk
  <1>10. ASSUME NEW d \in Classes PROVE UsedOk(g, d)
    BY <1>1, <1>2, <1>5 DEF Core, UsedOk
  <1>11. ASSUME NEW d \in Classes PROVE KeptOk(g, d)
    <2>1. KeptOk(h, d) /\ (h.kept[d] # NoPool => h.kept[d] \in Pools)
      BY <1>1 DEF Core, Heaps
    <2> QED BY <2>1, <1>2, <1>3, <1>5 DEF KeptOk
  <1>12. TableOk(g)
    <2>1. Active(g) = Active(h)
      BY <1>4 DEF Active
    <2> QED BY <2>1, <1>1, <1>2 DEF Core, TableOk
  <1>13. Core(g)
    BY <1>8, <1>9, <1>10, <1>11, <1>12 DEF Core
  <1>14. UsableOk(g)
    <2>1. Listed(g, {})
      BY <1>1, <1>2, <1>4 DEF UsableOk, Listed
    <2>2. Sorted(g, {})
      <3>1. \A i \in DOMAIN h.usable : h.usable[i] \in Arenas
        BY <1>1 DEF Heaps
      <3> QED BY <3>1, <1>1, <1>2, <1>4 DEF UsableOk, Sorted
    <2> QED BY <2>1, <2>2 DEF UsableOk
  <1>15. OneFree(g)
    BY <1>1, <1>2, <1>4 DEF OneFree, FreeLast, FreeArena
  <1>16. Kin(g, h)
    BY <1>2 DEF Kin, Rest
  <1> QED BY <1>2, <1>13, <1>14, <1>15, <1>16 DEF Good, g

\* tinypy_pool_empty_pool settles the heap after the last block of a pool.
LEMMA EmptyPoolKeeps ==
  ASSUME NEW h, Good(h), NEW p \in Pools, InUse(h, p), h.pool[p].ref = 0,
         h.kept[h.pool[p].class] # p, EmptyKept(h, {p}), Hold(h, {}), Frugal(h, {})
  PROVE  Settled(EmptyPool(h, p)) /\ Kin(EmptyPool(h, p), h)
  <1> DEFINE a    == p[1]
             c    == h.pool[p].class
             k    == h.kept[c]
             keep == h.maxHeap = 0 /\ (k = NoPool \/ h.pool[k].ref # 0)
             x    == IF k # NoPool THEN DropKeptPool(h, c) ELSE h
             g    == IF keep THEN Keeping(x, c, p) ELSE ReleasePool(h, p)
             z    == EmptyPool(h, p)
  <1>1. h \in Heaps /\ Core(h) /\ a \in Arenas
    BY Places DEF Good
  <1>2. c \in Classes /\ h.pool[p].free > 0
    BY <1>1 DEF Core, PoolOk, InUse
  <1>3. MayGoBack(h, p)
    <2>1. \A d \in Classes : h.kept[d] # p
      <3> SUFFICES ASSUME NEW d \in Classes, h.kept[d] = p PROVE FALSE
        OBVIOUS
      <3>1. h.pool[p].class = d
        BY <1>1, Places DEF Core, KeptOk
      <3> QED BY <3>1
    <2> QED BY <2>1 DEF MayGoBack
  <1>4. z = IF g.arena[a].kept = 0 \/ g.arena[a].free + g.arena[a].kept # g.arena[a].total THEN g
            ELSE DropKeptPools(g, {a})
    BY DEF EmptyPool, Keeping
  <1> HIDE DEF z, g, k
  \* Before the arena is looked at.
  <1>5. Good(g) /\ Kin(g, h) /\ EmptyKept(g, {}) /\ Hold(g, {a}) /\ Frugal(g, {})
        /\ (h.maxHeap # 0 => g.arena[a].kept = 0)
    <2>1. CASE keep
      <3>1. x \in Heaps /\ Good(x) /\ Kin(x, h) /\ x.kept[c] = NoPool /\ InUse(x, p) /\ x.pool[p].class = c
            /\ x.used = h.used /\ (\A d \in Classes : d # c => x.kept[d] = h.kept[d])
            /\ (\A q \in Pools : x.pool[q] = h.pool[q])
            /\ Hold(x, {})
        <4>1. CASE k = NoPool
          BY <4>1, <1>1 DEF Kin, k
        <4>2. CASE k # NoPool
          <5>1. x = Forgotten(h, c)
            BY <4>2, <2>1 DEF DropKeptPool, Forgotten, k
          <5>2. Good(x) /\ Kin(x, h)
            BY <5>1, <4>2, <1>2, ForgottenKeeps DEF k
          <5>3. /\ x \in Heaps /\ x.pool = h.pool /\ x.used = h.used /\ x.kept[c] = NoPool
                /\ \A d \in Classes : d # c => x.kept[d] = h.kept[d]
            BY <5>1, <4>2, <1>1, <1>2, ForgottenFields, SMTT(20) DEF k
          <5>4. /\ \A b \in Arenas : b # k[1] => x.arena[b] = h.arena[b]
                /\ x.arena[k[1]].free = h.arena[k[1]].free /\ x.arena[k[1]].total = h.arena[k[1]].total
                /\ x.arena[k[1]].kept = h.arena[k[1]].kept - 1 /\ x.arena[k[1]].bump = h.arena[k[1]].bump
                /\ x.arena[k[1]].freePools = h.arena[k[1]].freePools /\ k[1] \in Arenas
            <6>1. h.kept[c] # NoPool
              BY <4>2 DEF k
            <6>2. LET j == h.kept[c][1]
                      y == Forgotten(h, c)
                  IN  /\ \A b \in Arenas : b # j => y.arena[b] = h.arena[b]
                      /\ y.arena[j].free = h.arena[j].free /\ y.arena[j].total = h.arena[j].total
                      /\ y.arena[j].kept = h.arena[j].kept - 1 /\ y.arena[j].bump = h.arena[j].bump
                      /\ y.arena[j].freePools = h.arena[j].freePools /\ j \in Arenas
              <7> HIDE DEF c
              <7> QED BY <6>1, <1>1, <1>2, ForgottenFields
            <6> HIDE DEF x, c
            <6> QED BY <6>2, <5>1 DEF k
          <5> HIDE DEF x
          <5>5. InUse(x, p)
            BY <5>4, <1>1 DEF InUse, Carved
          <5>6. Hold(x, {})
            <6> SUFFICES ASSUME NEW b \in Arenas, x.arena[b].kept > 0
                         PROVE  x.arena[b].free + x.arena[b].kept < x.arena[b].total
              BY DEF Hold
            <6>1. CASE b # k[1]
              BY <6>1, <5>4 DEF Hold
            <6>2. CASE b = k[1]
              <7>1. /\ h.arena[b].free \in Int /\ h.arena[b].kept \in Int /\ h.arena[b].total \in Int
                BY <1>1, ArenaTypes, Sizing
              <7>2. h.arena[b].kept > 0
                BY <7>1, <6>2, <5>4
              <7>3. h.arena[b].free + h.arena[b].kept < h.arena[b].total
                BY <7>2 DEF Hold
              <7> QED BY <7>1, <7>3, <6>2, <5>4
            <6> QED BY <6>1, <6>2
          <5> QED BY <5>2, <5>3, <5>5, <5>6
        <4> QED BY <4>1, <4>2
      <3> HIDE DEF x
      <3>2. g = Keeping(x, c, p)
        BY <2>1 DEF g
      <3>3. Good(g) /\ Kin(g, x)
        BY <3>1, <3>2, <1>2, KeepingKeeps
      <3>4. /\ g.pool = x.pool /\ g.used = h.used /\ g.kept[c] = p /\ g.maxHeap = x.maxHeap
            /\ \A d \in Classes : d # c => g.kept[d] = h.kept[d]
            /\ \A b \in Arenas : b # a => g.arena[b] = x.arena[b]
        BY <3>1, <3>2, <1>2, KeepingFields
      <3>5. Kin(g, h)
        BY <3>1, <3>3, KinChain
      <3>6. EmptyKept(g, {})
        <4> SUFFICES ASSUME NEW d \in Classes, NEW q \in Range(h.used[d]), g.pool[q].ref = 0
                     PROVE  g.kept[d] = q
          BY <3>4 DEF EmptyKept
        <4>1. q \in Pools /\ h.pool[q].class = d
          <5>1. h.used[d] \in Seq(Pools)
            BY <1>1 DEF Heaps
          <5>2. q \in Pools
            BY <5>1, RangeElements
          <5> QED BY <5>2, <1>1 DEF Core, UsedOk
        <4>2. h.pool[q].ref = 0
          BY <4>1, <3>1, <3>4
        <4>3. h.kept[d] = q \/ q = p
          BY <4>2 DEF EmptyKept
        <4>4. CASE q = p
          BY <4>1, <4>4, <3>4
        <4>5. CASE q # p
          <5>1. d # c
            BY <4>1, <4>2, <4>3, <4>5, <2>1, Places DEF k
          <5> QED BY <5>1, <4>3, <4>5, <3>4
        <4> QED BY <4>4, <4>5
      <3>7. Hold(g, {a})
        BY <3>1, <3>4 DEF Hold
      <3>8. h.maxHeap = 0 /\ g.maxHeap = 0
        BY <2>1, <3>5 DEF Kin
      <3> QED BY <3>3, <3>5, <3>6, <3>7, <3>8 DEF Frugal
    <2>2. CASE ~keep
      <3>1. g = ReleasePool(h, p)
        BY <2>2 DEF g
      <3>2. Good(g) /\ Released(g, h, p)
        BY <3>1, <1>3, ReleasePoolKeeps
      <3>3. Kin(g, h) /\ g.kept = h.kept /\ (\A d \in Classes : Range(g.used[d]) = Range(h.used[d]) \ {p})
            /\ (\A b \in Arenas : b # a => g.arena[b] = h.arena[b])
        BY <3>2 DEF Released
      <3>4. EmptyKept(g, {})
        <4> SUFFICES ASSUME NEW d \in Classes, NEW q \in Range(g.used[d]), g.pool[q].ref = 0
                     PROVE  g.kept[d] = q
          BY DEF EmptyKept
        <4>1. q \in Range(h.used[d]) /\ q # p
          BY <3>3
        <4>2. q \in Pools
          <5>1. h.used[d] \in Seq(Pools)
            BY <1>1 DEF Heaps
          <5> QED BY <5>1, <4>1, RangeElements
        <4>3. h.pool[q].ref = 0
          BY <4>2, <3>3 DEF Kin
        <4> QED BY <4>1, <4>3, <3>3 DEF EmptyKept
      <3>5. Hold(g, {a})
        BY <3>3 DEF Hold
      <3>6. Frugal(g, {}) /\ (h.maxHeap # 0 => g.arena[a].kept = 0)
        <4> SUFFICES ASSUME h.maxHeap # 0
                     PROVE  /\ \A d \in Classes : g.kept[d] = NoPool
                            /\ \A b \in Arenas : ~FreeArena(g, b)
                            /\ g.arena[a].kept = 0
          BY <3>3 DEF Frugal, Kin
        <4>1. \A d \in Classes : g.kept[d] = NoPool
          BY <3>3 DEF Frugal
        <4>2. \A b \in Arenas : ~FreeArena(g, b)
          BY <3>2, <3>3 DEF Frugal, FreeArena, Released
        <4>3. g.arena[a].kept = Cardinality(KeptBy(g, a)) /\ KeptBy(g, a) = {}
          BY <3>2, <4>1, <1>1 DEF Good, Core, ArenaOk, KeptBy
        <4> QED BY <4>1, <4>2, <4>3, FS_EmptySet
      <3> QED BY <3>2, <3>3, <3>4, <3>5, <3>6
    <2> QED BY <2>1, <2>2
  <1>6. g \in Heaps /\ Core(g)
    BY <1>5 DEF Good
  <1>7. CASE g.arena[a].kept = 0 \/ g.arena[a].free + g.arena[a].kept # g.arena[a].total
    <2>1. z = g
      BY <1>4, <1>7
    <2>2. g.arena[a].kept = 0 \/ g.arena[a].free + g.arena[a].kept < g.arena[a].total
      BY <1>1, <1>6, <1>7, ArenaNumbers
    <2>3. Hold(g, {})
      BY <2>2, <1>5, <1>1 DEF Hold
    <2> QED BY <2>1, <2>3, <1>5 DEF Settled, z
  <1>8. CASE ~(g.arena[a].kept = 0 \/ g.arena[a].free + g.arena[a].kept # g.arena[a].total)
    <2>1. z = DropKeptPools(g, {a})
      BY <1>4, <1>8
    <2>2. /\ Good(z) /\ Fewer(z, g)
          /\ \A d \in Classes : z.kept[d] # NoPool => z.kept[d][1] \notin {a}
      BY <2>1, <1>5, DropKeptPoolsKeeps
    <2>3. z \in Heaps /\ EmptyKept(z, {}) /\ Hold(z, {a})
      BY <2>2, <1>5, <1>6, FewerKeeps DEF Good
    <2>4. z.arena[a].kept = 0
      <3>1. KeptBy(z, a) = {}
        BY <2>2 DEF KeptBy
      <3>2. z.arena[a].kept = Cardinality(KeptBy(z, a))
        BY <2>2, <1>1 DEF Good, Core, ArenaOk
      <3> QED BY <3>1, <3>2, FS_EmptySet
    <2>5. Hold(z, {})
      BY <2>3, <2>4 DEF Hold
    <2>6. Kin(z, h)
      BY <2>2, <1>5, KinChain DEF Fewer
    <2>7. Frugal(z, {})
      BY <2>6, <1>5, <1>8 DEF Frugal, Kin
    <2> QED BY <2>2, <2>3, <2>5, <2>6, <2>7 DEF Settled, z
  <1> QED BY <1>7, <1>8

-----------------------------------------------------------------------------
(* Blocks given back and taken from a pool that is in use.                 *)

\* g has a block less or more of p handed out and is h otherwise, as far as
\* the callers can tell.
Counts(g, h, p, d) ==
    /\ g.cachedBytes = h.cachedBytes /\ g.maxHeap = h.maxHeap /\ Rest(g) = Rest(h)
    /\ \A q \in Pools : g.pool[q].ref = IF q = p THEN h.pool[q].ref + d ELSE h.pool[q].ref

OnlyPool(g, h, p, c) ==
    /\ g.arena = h.arena /\ g.kept = h.kept /\ g.unused = h.unused /\ g.usable = h.usable
    /\ g.table = h.table /\ g.active = h.active /\ g.cachedBytes = h.cachedBytes
    /\ g.bytes = h.bytes /\ g.refused = h.refused /\ g.maxHeap = h.maxHeap
    /\ \A q \in Pools : q # p => g.pool[q] = h.pool[q]
    /\ \A d \in Classes : d # c => g.used[d] = h.used[d]

\* A change of the blocks of one pool, with its place on the used list, keeps
\* every list and count consistent.
LEMMA PoolChanged ==
  ASSUME NEW h, Good(h), NEW p \in Pools, InUse(h, p), NEW g \in Heaps,
         OnlyPool(g, h, p, h.pool[p].class), g.pool[p].class = h.pool[p].class, PoolOk(g, p),
         IsInjective(g.used[h.pool[p].class]),
         Range(g.used[h.pool[p].class]) = IF g.pool[p].free > 0 THEN Range(h.used[h.pool[p].class]) \cup {p}
                                          ELSE Range(h.used[h.pool[p].class]) \ {p}
  PROVE  /\ Good(g) /\ Rest(g) = Rest(h) /\ InUse(g, p)
         /\ \A X : EmptyKept(h, X) => EmptyKept(g, X \cup {p})
         /\ \A W : Hold(h, W) => Hold(g, W)
         /\ \A X : Frugal(h, X) => Frugal(g, X)
  <1> DEFINE c == h.pool[p].class
  <1>1. h \in Heaps /\ Core(h) /\ UsableOk(h) /\ OneFree(h)
    BY DEF Good
  <1>2. \A q : (Carved(g, q) <=> Carved(h, q)) /\ (InUse(g, q) <=> InUse(h, q))
    BY DEF Carved, InUse, OnlyPool
  <1>3. \A b : KeptBy(g, b) = KeptBy(h, b)
    BY DEF KeptBy, OnlyPool
  <1>4. \A b \in Arenas : ArenaOk(g, b)
    BY <1>1, <1>3 DEF Core, ArenaOk, OnlyPool
  <1>5. \A q \in Pools : PoolOk(g, q)
    BY <1>1, <1>2 DEF Core, PoolOk, OnlyPool
  <1>6. ASSUME NEW d \in Classes PROVE UsedOk(g, d)
    <2>1. UsedOk(h, d)
      BY <1>1 DEF Core
    <2>2. CASE d # c
      BY <2>1, <2>2, <1>2 DEF UsedOk, OnlyPool
    <2>3. CASE d = c
      BY <2>1, <2>3, <1>2, SMTT(20) DEF UsedOk, OnlyPool
    <2> QED BY <2>2, <2>3
  <1>7. ASSUME NEW d \in Classes PROVE KeptOk(g, d)
    <2>1. KeptOk(h, d) /\ (h.kept[d] # NoPool => h.kept[d] \in Pools)
      BY <1>1 DEF Core, Heaps
    <2> QED BY <2>1, <1>2 DEF KeptOk, OnlyPool
  <1>8. TableOk(g)
    <2>1. Active(g) = Active(h)
      BY DEF Active, OnlyPool
    <2> QED BY <2>1, <1>1 DEF Core, TableOk, OnlyPool
  <1>9. UsableOk(g) /\ OneFree(g)
    BY <1>1 DEF UsableOk, Listed, Sorted, OneFree, FreeLast, FreeArena, OnlyPool
  <1>10. Good(g)
    BY <1>4, <1>5, <1>6, <1>7, <1>8, <1>9 DEF Good, Core
  <1>11. ASSUME NEW X, EmptyKept(h, X) PROVE EmptyKept(g, X \cup {p})
    <2> SUFFICES ASSUME NEW d \in Classes, NEW q \in Range(g.used[d]), g.pool[q].ref = 0, q # p
                 PROVE  g.kept[d] = q \/ q \in X
      BY DEF EmptyKept
    <2>1. q \in Pools
      <3>1. g.used[d] \in Seq(Pools)
        BY DEF Heaps
      <3> QED BY <3>1, RangeElements
    <2>2. q \in Range(h.used[d])
      BY DEF OnlyPool
    <2>3. h.pool[q].ref = 0
      BY <2>1 DEF OnlyPool
    <2> QED BY <2>2, <2>3, <1>11 DEF EmptyKept, OnlyPool
  <1>12. \A W : Hold(h, W) => Hold(g, W)
    BY DEF Hold, OnlyPool
  <1>13. \A X : Frugal(h, X) => Frugal(g, X)
    BY DEF Frugal, FreeArena, OnlyPool
  <1>14. Rest(g) = Rest(h) /\ InUse(g, p)
    BY <1>2 DEF Rest, OnlyPool
  <1> QED BY <1>10, <1>11, <1>12, <1>13, <1>14

\* A pool with a block out is in use.
LEMMA HandedOut ==
  ASSUME NEW h, Good(h), NEW p \in Pools, h.pool[p].ref # 0
  PROVE  /\ InUse(h, p) /\ Carved(h, p) /\ h.pool[p].class \in Classes
         /\ h.pool[p].ref \in Nat /\ h.pool[p].free \in Nat /\ h.pool[p].ref + h.pool[p].free >= 2
         /\ h.pool[p].next = PoolHeader + (h.pool[p].ref + h.pool[p].free) * BlockSize(h.pool[p].class)
         /\ h.pool[p].next <= PoolSize
  <1>1. PoolOk(h, p)
    BY DEF Good, Core
  <1> QED BY <1>1 DEF PoolOk, RawPool

\* The pool p changes its counts, and the used list of a class changes.
Recount(h, p, c, q, s) == [h EXCEPT !.pool[p] = q, !.used[c] = s]

\* Recounting a pool changes it and the used list of its class only.
LEMMA RecountFields ==
  ASSUME NEW h \in Heaps, NEW p \in Pools, NEW c \in Classes, NEW q \in PoolShape, NEW s \in Seq(Pools)
  PROVE  LET g == Recount(h, p, c, q, s)
         IN  g \in Heaps /\ OnlyPool(g, h, p, c) /\ g.pool[p] = q /\ g.used[c] = s
  <1> DEFINE P == [h.pool EXCEPT ![p] = q]
             U == [h.used EXCEPT ![c] = s]
             g == [h EXCEPT !.pool = P, !.used = U]
  <1>1. P \in [Pools -> PoolShape] /\ U \in [Classes -> Seq(Pools)]
        /\ P[p] = q /\ U[c] = s /\ (\A r \in Pools : r # p => P[r] = h.pool[r])
        /\ (\A d \in Classes : d # c => U[d] = h.used[d])
    BY DEF Heaps
  <1>2. Recount(h, p, c, q, s) = g
    BY DEF Heaps, Recount
  <1> HIDE DEF P, U
  <1>3. g \in Heaps /\ g.pool = P /\ g.used = U
    BY <1>1 DEF Heaps
  <1>4. OnlyPool(g, h, p, c)
    BY <1>1, <1>3 DEF OnlyPool, Heaps
  <1> QED BY <1>1, <1>2, <1>3, <1>4

\* q are counts a pool in use may have, and s the used list they call for.
RecountFits(h, p, q, s) ==
    /\ p \in Pools /\ InUse(h, p) /\ q \in PoolShape /\ s \in Seq(Pools)
    /\ q.class = h.pool[p].class /\ q.ref \in Nat /\ q.free \in Nat /\ q.ref + q.free >= 2
    /\ q.next = PoolHeader + (q.ref + q.free) * BlockSize(q.class) /\ q.next <= PoolSize
    /\ IsInjective(s)
    /\ Range(s) = IF q.free > 0 THEN Range(h.used[q.class]) \cup {p} ELSE Range(h.used[q.class]) \ {p}

\* Recounting a pool that fits keeps every list and count consistent.
LEMMA RecountKeeps ==
  ASSUME NEW h, Good(h), NEW p, NEW q, NEW s, RecountFits(h, p, q, s)
  PROVE  LET g == Recount(h, p, q.class, q, s)
         IN  /\ Good(g) /\ InUse(g, p) /\ Counts(g, h, p, q.ref - h.pool[p].ref)
             /\ g.pool[p] = q /\ OnlyPool(g, h, p, q.class)
             /\ \A X : EmptyKept(h, X) => EmptyKept(g, X \cup {p})
             /\ \A W : Hold(h, W) => Hold(g, W)
             /\ \A X : Frugal(h, X) => Frugal(g, X)
  <1> DEFINE c == h.pool[p].class
             g == Recount(h, p, q.class, q, s)
  <1> USE DEF RecountFits
  <1>1. h \in Heaps /\ Core(h) /\ Carved(h, p) /\ PoolOk(h, p) /\ c \in Classes /\ h.pool[p].ref \in Int
    BY PoolTypes DEF Good, Core, InUse, PoolOk
  <1>2. g \in Heaps /\ OnlyPool(g, h, p, c) /\ g.pool[p] = q /\ g.used[c] = s
    BY <1>1, RecountFields
  <1> HIDE DEF g
  <1>3. PoolOk(g, p)
    <2>1. Carved(g, p) /\ InUse(g, p)
      BY <1>1, <1>2 DEF Carved, InUse, OnlyPool
    <2> QED BY <2>1, <1>1, <1>2 DEF PoolOk
  <1>4. /\ Good(g) /\ Rest(g) = Rest(h) /\ InUse(g, p)
        /\ \A X : EmptyKept(h, X) => EmptyKept(g, X \cup {p})
        /\ \A W : Hold(h, W) => Hold(g, W)
        /\ \A X : Frugal(h, X) => Frugal(g, X)
    BY <1>2, <1>3, PoolChanged
  <1>5. Counts(g, h, p, q.ref - h.pool[p].ref)
    BY <1>1, <1>2, <1>4 DEF Counts, OnlyPool
  <1> QED BY <1>2, <1>4, <1>5 DEF g
=============================================================================
