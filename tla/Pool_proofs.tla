---------------------------- MODULE Pool_proofs ----------------------------
(***************************************************************************)
(* What the requests do to an allocator that satisfies the invariant of    *)
(* Pool_lemmas, and the theorems about Pool.                               *)
(***************************************************************************)
EXTENDS Pool_lemmas

-----------------------------------------------------------------------------
(* Small blocks of pools in use.                                           *)

\* A pool after one of its blocks was given back.
LEMMA BlockBack ==
  ASSUME NEW h, Good(h), NEW p \in Pools, h.pool[p].ref # 0
  PROVE  LET q == h.pool[p]
             r == [q EXCEPT !.ref = @ - 1, !.free = @ + 1]
             c == q.class
         IN  /\ r \in PoolShape /\ r.class = c /\ r.next = q.next
             /\ r.ref = q.ref - 1 /\ r.free = q.free + 1
             /\ r.ref \in Nat /\ r.free \in Nat /\ r.ref + r.free >= 2 /\ r.free > 0
             /\ r.next = PoolHeader + (r.ref + r.free) * BlockSize(r.class) /\ r.next <= PoolSize
             /\ q.free = 0 => r.ref > 0
             /\ c \in Classes /\ h.used[c] \in Seq(Pools) /\ IsInjective(h.used[c])
             /\ p \in Range(h.used[c]) <=> q.free > 0
  <1> DEFINE q == h.pool[p]
             m == q.ref - 1
             n == q.free + 1
             r == [q EXCEPT !.ref = m, !.free = n]
             c == q.class
             b == BlockSize(c)
  <1>1. /\ InUse(h, p) /\ c \in Classes /\ q.ref \in Nat /\ q.free \in Nat /\ q.ref + q.free >= 2
        /\ q.next = PoolHeader + (q.ref + q.free) * b /\ q.next <= PoolSize
    BY HandedOut
  <1>2. h \in Heaps /\ UsedOk(h, c) /\ h.used[c] \in Seq(Pools)
    BY <1>1 DEF Good, Core, Heaps
  <1>3. q \in PoolShape
    BY <1>2 DEF Heaps
  <1>4. m \in Nat /\ n \in Nat /\ m + n >= 2 /\ n > 0 /\ m + n = q.ref + q.free /\ (q.free = 0 => m > 0)
    <2> DEFINE x == q.ref
               y == q.free
    <2>1. x \in Nat /\ y \in Nat /\ x # 0 /\ x + y >= 2
      BY <1>1
    <2> HIDE DEF x, y
    <2>2. x - 1 \in Nat /\ y + 1 \in Nat /\ (x - 1) + (y + 1) = x + y /\ (y = 0 => x - 1 > 0) /\ y + 1 > 0
      BY <2>1
    <2> QED BY <2>1, <2>2 DEF x, y
  <1>5. [q EXCEPT !.ref = @ - 1, !.free = @ + 1] = r
    BY <1>3 DEF PoolShape
  <1> HIDE DEF m, n
  <1>6. r \in PoolShape /\ r.class = c /\ r.next = q.next /\ r.ref = m /\ r.free = n
    <2> HIDE DEF q, c
    <2>1. LET y == [q EXCEPT !.ref = m, !.free = n]
          IN  y \in PoolShape /\ y.class = q.class /\ y.next = q.next /\ y.ref = m /\ y.free = n
      <3>1. m \in Int /\ n \in Int
        BY <1>4
      <3> QED BY <3>1, <1>3 DEF PoolShape
    <2> QED BY <2>1 DEF c
  <1> HIDE DEF r
  <1>7. IsInjective(h.used[c]) /\ (p \in Range(h.used[c]) <=> q.free > 0)
    BY <1>1, <1>2 DEF UsedOk
  <1>8. r.next = PoolHeader + (r.ref + r.free) * BlockSize(r.class)
    BY <1>1, <1>4, <1>6
  <1>9. /\ r.ref = q.ref - 1 /\ r.free = q.free + 1
    BY <1>6 DEF m, n
  <1> QED BY <1>1, <1>2, <1>4, <1>5, <1>6, <1>7, <1>8, <1>9

\* tinypy_internal_pool_deallocate of a small block.
LEMMA FreeSmallKeeps ==
  ASSUME NEW h, Settled(h), NEW p \in Pools, h.pool[p].ref # 0
  PROVE  LET g == FreeSmall(h, p)
         IN  Settled(g) /\ Counts(g, h, p, -1) /\ g.table = h.table
  <1> DEFINE q == h.pool[p]
             r == [q EXCEPT !.ref = @ - 1, !.free = @ + 1]
             c == q.class
             u == h.used[c]
             f == <<p>> \o u
             x == Recount(h, p, r.class, r, u)
             y == Recount(h, p, r.class, r, f)
             g == FreeSmall(h, p)
  <1>1. Good(h) /\ EmptyKept(h, {}) /\ Hold(h, {}) /\ Frugal(h, {}) /\ h \in Heaps
    BY DEF Settled, Good
  <1>2. InUse(h, p)
    BY <1>1, HandedOut
  <1>3. /\ r \in PoolShape /\ r.class = c /\ r.ref = q.ref - 1
        /\ r.ref \in Nat /\ r.free \in Nat /\ r.ref + r.free >= 2 /\ r.free > 0
        /\ r.next = PoolHeader + (r.ref + r.free) * BlockSize(r.class) /\ r.next <= PoolSize
    BY <1>1, BlockBack
  <1>4. /\ q.free = 0 => r.ref > 0
        /\ c \in Classes /\ u \in Seq(Pools) /\ IsInjective(u)
        /\ p \in Range(u) <=> q.free > 0
    BY <1>1, BlockBack
  <1>5. q.ref \in Nat /\ q.free \in Nat
    BY <1>1, HandedOut
  <1>6. g = IF q.free = 0 THEN y ELSE IF q.ref # 1 \/ h.kept[c] = p THEN x ELSE EmptyPool(x, p)
    <2>1. [h EXCEPT !.pool[p] = r] = x
      BY <1>3, <1>4 DEF Recount, Heaps, Good, Settled
    <2>2. LinkUsedFront(x, p) = y
      BY <1>3, <1>4, <1>1 DEF LinkUsedFront, Recount, Heaps
    <2> QED BY <2>1, <2>2 DEF FreeSmall
  <1> HIDE DEF r, g, u
  <1>7. CASE q.free = 0
    <2>1. f \in Seq(Pools) /\ Range(f) = Range(u) \cup {p} /\ IsInjective(f)
      BY <1>4, <1>7, LinkedFront
    <2> HIDE DEF f
    <2>2. Range(f) = IF r.free > 0 THEN Range(h.used[r.class]) \cup {p} ELSE Range(h.used[r.class]) \ {p}
      BY <2>1, <1>3 DEF u
    <2>3. /\ Good(y) /\ Counts(y, h, p, r.ref - q.ref) /\ y.pool[p] = r /\ OnlyPool(y, h, p, r.class)
          /\ EmptyKept(y, {} \cup {p}) /\ Hold(y, {}) /\ Frugal(y, {})
      <3>1. RecountFits(h, p, r, f)
        BY <2>1, <2>2, <1>1, <1>2, <1>3 DEF RecountFits
      <3> QED BY <3>1, <1>1, RecountKeeps
    <2>4. y.pool[p].ref # 0
      BY <2>3, <1>3, <1>4, <1>7
    <2>5. EmptyKept(y, {})
      BY <2>3, <2>4 DEF EmptyKept
    <2>6. r.ref - q.ref = -1
      BY <1>3, <1>5
    <2> QED BY <2>3, <2>5, <2>6, <1>6, <1>7 DEF Settled, OnlyPool, g
  <1>8. CASE q.free # 0
    <2>1. Range(u) = IF r.free > 0 THEN Range(h.used[r.class]) \cup {p} ELSE Range(h.used[r.class]) \ {p}
      <3>1. p \in Range(u)
        BY <1>4, <1>5, <1>8
      <3>2. r.free > 0 /\ r.class = c
        BY <1>3
      <3> QED BY <3>1, <3>2 DEF u
    <2>2. /\ Good(x) /\ InUse(x, p) /\ Counts(x, h, p, r.ref - q.ref) /\ x.pool[p] = r /\ OnlyPool(x, h, p, r.class)
          /\ EmptyKept(x, {} \cup {p}) /\ Hold(x, {}) /\ Frugal(x, {})
      <3>1. RecountFits(h, p, r, u)
        BY <2>1, <1>1, <1>2, <1>3, <1>4 DEF RecountFits
      <3> QED BY <3>1, <1>1, RecountKeeps
    <2>3. Counts(x, h, p, -1) /\ x.kept = h.kept /\ x.table = h.table
      <3>1. r.ref - q.ref = -1
        BY <1>3, <1>5
      <3> QED BY <2>2, <3>1 DEF OnlyPool
    <2> HIDE DEF x
    <2>4. CASE q.ref # 1 \/ h.kept[c] = p
      <3>1. \A d \in Classes : p \in Range(x.used[d]) => d = c
        BY <2>2, <1>3 DEF Good, Core, UsedOk
      <3>2. x.pool[p].ref # 0 \/ x.kept[c] = p
        BY <2>2, <2>3, <2>4, <1>3, <1>5
      <3>3. EmptyKept(x, {})
        BY <2>2, <3>1, <3>2 DEF EmptyKept
      <3> QED BY <3>3, <2>2, <2>3, <2>4, <1>6, <1>8 DEF Settled, g
    <2>5. CASE ~(q.ref # 1 \/ h.kept[c] = p)
      <3>1. x.pool[p].ref = 0 /\ x.pool[p].class = c /\ x.kept[c] # p
        BY <2>2, <2>3, <2>5, <1>3
      <3>2. g = EmptyPool(x, p)
        BY <2>5, <1>6, <1>8
      <3>3. EmptyKept(x, {p})
        BY <2>2
      <3>4. Settled(g) /\ Kin(g, x)
        BY <3>1, <3>2, <3>3, <2>2, EmptyPoolKeeps
      <3>5. Counts(g, h, p, -1) /\ g.table = h.table
        BY <3>4, <2>3 DEF Counts, Kin
      <3> QED BY <3>4, <3>5 DEF g
    <2> QED BY <2>4, <2>5
  <1> QED BY <1>7, <1>8

\* A pool after one more of its blocks was taken.
LEMMA BlockTaken ==
  ASSUME NEW h, Good(h), NEW p \in Pools, InUse(h, p), h.pool[p].free > 0
  PROVE  LET q  == h.pool[p]
             bs == BlockSize(q.class)
             carve == q.free = 1 /\ q.next <= PoolSize - bs
             r == [q EXCEPT !.ref  = @ + 1,
                            !.free = IF carve THEN 1 ELSE @ - 1,
                            !.next = IF carve THEN @ + bs ELSE @]
         IN  /\ r \in PoolShape /\ r.class = q.class /\ r.ref = q.ref + 1
             /\ r.ref \in Nat /\ r.free \in Nat /\ r.ref + r.free >= 2
             /\ r.next = PoolHeader + (r.ref + r.free) * BlockSize(r.class) /\ r.next <= PoolSize
  <1> DEFINE q  == h.pool[p]
             c  == q.class
             bs == BlockSize(c)
             carve == q.free = 1 /\ q.next <= PoolSize - bs
             m == q.ref + 1
             n == IF carve THEN 1 ELSE q.free - 1
             o == IF carve THEN q.next + bs ELSE q.next
             r == [q EXCEPT !.ref = m, !.free = n, !.next = o]
  <1>1. h \in Heaps /\ PoolOk(h, p) /\ Carved(h, p)
    BY DEF Good, Core, InUse
  <1>2. /\ c \in Classes /\ q.ref \in Nat /\ q.free \in Nat /\ q.ref + q.free >= 2
        /\ q.next = PoolHeader + (q.ref + q.free) * bs /\ q.next <= PoolSize
    BY <1>1 DEF PoolOk
  <1>3. q \in PoolShape
    BY <1>1 DEF Heaps
  <1>4. bs \in Nat /\ PoolHeader \in Nat /\ PoolSize \in Nat
    BY <1>2, Blocks, Sizing
  <1>5. /\ m \in Nat /\ n \in Nat /\ o \in Int /\ m + n >= 2
        /\ o = PoolHeader + (m + n) * bs /\ o <= PoolSize
    <2> DEFINE x == q.ref
               y == q.free
               z == q.next
    <2>1. /\ x \in Nat /\ y \in Nat /\ y > 0 /\ x + y >= 2 /\ bs \in Nat /\ PoolHeader \in Nat /\ PoolSize \in Nat
          /\ z = PoolHeader + (x + y) * bs /\ z <= PoolSize
      BY <1>2, <1>4
    <2> HIDE DEF x, y, z, bs
    <2>2. CASE carve
      <3>1. m = x + 1 /\ n = 1 /\ o = z + bs /\ y = 1 /\ z <= PoolSize - bs
        BY <2>2 DEF x, y, z
      <3> HIDE DEF m, n, o
      <3>2. (x + 1 + 1) * bs = (x + 1) * bs + bs
        BY <2>1
      <3> QED BY <2>1, <3>1, <3>2
    <2>3. CASE ~carve
      <3>1. m = x + 1 /\ n = y - 1 /\ o = z
        BY <2>3 DEF x, y, z
      <3> HIDE DEF m, n, o
      <3>2. m + n = x + y
        BY <2>1, <3>1
      <3> QED BY <2>1, <3>1, <3>2
    <2> QED BY <2>2, <2>3
  <1>6. [q EXCEPT !.ref  = @ + 1, !.free = IF carve THEN 1 ELSE @ - 1, !.next = IF carve THEN @ + bs ELSE @] = r
    BY <1>3 DEF PoolShape
  <1> HIDE DEF m, n, o
  <1>7. r \in PoolShape /\ r.class = c /\ r.next = o /\ r.ref = m /\ r.free = n
    <2> HIDE DEF q, c
    <2>1. LET y == [q EXCEPT !.ref = m, !.free = n, !.next = o]
          IN  y \in PoolShape /\ y.class = q.class /\ y.next = o /\ y.ref = m /\ y.free = n
      <3>1. m \in Int /\ n \in Int /\ o \in Int
        BY <1>5
      <3> QED BY <3>1, <1>3 DEF PoolShape
    <2> QED BY <2>1 DEF c
  <1> HIDE DEF r
  <1>8. r.next = PoolHeader + (r.ref + r.free) * BlockSize(r.class) /\ r.ref = q.ref + 1
    BY <1>5, <1>7 DEF m
  <1>9. /\ r.ref \in Nat /\ r.free \in Nat /\ r.ref + r.free >= 2 /\ r.next <= PoolSize
    BY <1>5, <1>7
  <1> QED BY <1>6, <1>7, <1>8, <1>9

\* A request met by the first used pool of the class.
LEMMA TakeFromUsedKeeps ==
  ASSUME NEW h, Settled(h), NEW c \in Classes, h.used[c] # <<>>
  PROVE  LET p == Head(h.used[c])
             g == TakeFromUsed(h, p)
         IN  /\ p \in Pools /\ p # NoPool
             /\ Settled(g) /\ Counts(g, h, p, 1) /\ g.table = h.table /\ g.bytes = h.bytes
  <1> DEFINE p  == Head(h.used[c])
             q  == h.pool[p]
             bs == BlockSize(q.class)
             carve == q.free = 1 /\ q.next <= PoolSize - bs
             r == [q EXCEPT !.ref  = @ + 1,
                            !.free = IF carve THEN 1 ELSE @ - 1,
                            !.next = IF carve THEN @ + bs ELSE @]
             u == h.used[c]
             f == Unlinked(u, p)
             x == Recount(h, p, r.class, r, u)
             y == Recount(h, p, r.class, r, f)
             g == TakeFromUsed(h, p)
  <1>1. Good(h) /\ EmptyKept(h, {}) /\ Hold(h, {}) /\ Frugal(h, {}) /\ h \in Heaps
    BY DEF Settled, Good
  <1>2. u \in Seq(Pools) /\ IsInjective(u) /\ UsedOk(h, c)
    BY <1>1 DEF Good, Core, UsedOk, Heaps
  <1>3. p \in Pools /\ p \in Range(u)
    <2> HIDE DEF u
    <2>1. u # <<>> /\ p = Head(u)
      BY DEF u
    <2> HIDE DEF p
    <2> QED BY <1>2, <2>1, BehindFirst
  <1> HIDE DEF p
  <1>4. InUse(h, p) /\ q.class = c /\ q.free > 0 /\ p # NoPool
    BY <1>2, <1>3, Places DEF UsedOk
  <1>5. /\ r \in PoolShape /\ r.class = q.class /\ r.ref = q.ref + 1
        /\ r.ref \in Nat /\ r.free \in Nat /\ r.ref + r.free >= 2
        /\ r.next = PoolHeader + (r.ref + r.free) * BlockSize(r.class) /\ r.next <= PoolSize
    BY <1>1, <1>3, <1>4, BlockTaken
  <1>6. g = IF r.free = 0 THEN y ELSE x
    <2>1. [h EXCEPT !.pool[p] = r] = x
      BY <1>1, <1>4, <1>5, ZenonT(30) DEF Recount, Heaps
    <2>2. UnlinkUsed(x, p) = y
      <3> HIDE DEF r, q
      <3>1. r.class = c /\ q.class = c
        BY <1>4, <1>5
      <3>2. x.pool[p] = r /\ x.used[c] = u
        BY <3>1, <1>1, <1>3 DEF Recount, Heaps
      <3>3. UnlinkUsed(x, p) = [x EXCEPT !.used[c] = f]
        BY <3>1, <3>2 DEF UnlinkUsed
      <3> HIDE DEF f, u
      <3>4. [x EXCEPT !.used[c] = f] = y
        BY <3>1, <1>1, <1>3 DEF Recount, Heaps
      <3> QED BY <3>3, <3>4
    <2>3. x.pool[p] = r
      BY <1>1, <1>3 DEF Recount, Heaps
    <2>4. [h EXCEPT !.pool[p] = r].pool[p] = r
      BY <2>1, <2>3
    <2>5. g = IF [h EXCEPT !.pool[p] = r].pool[p].free = 0 THEN UnlinkUsed([h EXCEPT !.pool[p] = r], p)
              ELSE [h EXCEPT !.pool[p] = r]
      BY DEF TakeFromUsed
    <2> HIDE DEF r, x, y, g
    <2> QED BY <2>1, <2>2, <2>4, <2>5
  <1> HIDE DEF r, g, carve
  <1>7. r.class = c /\ q.ref \in Nat /\ r.ref # 0 /\ r.ref - q.ref = 1
    <2>1. q.ref \in Nat
      BY <1>1, <1>3, <1>4 DEF Good, Core, PoolOk, InUse
    <2> QED BY <2>1, <1>4, <1>5
  <1> DEFINE s == IF r.free = 0 THEN f ELSE u
             z == Recount(h, p, r.class, r, s)
  <1>8. z = g
    BY <1>6
  <1>9. RecountFits(h, p, r, s)
    <2>1. f \in Seq(Pools) /\ IsInjective(f) /\ Range(f) = Range(u) \ {p}
      <3> HIDE DEF u
      <3> QED BY <1>2, <1>3, UnlinkedList
    <2> HIDE DEF f
    <2>2. s \in Seq(Pools) /\ IsInjective(s)
      BY <2>1, <1>2
    <2>3. Range(s) = IF r.free > 0 THEN Range(h.used[r.class]) \cup {p} ELSE Range(h.used[r.class]) \ {p}
      <3>1. CASE r.free = 0
        BY <3>1, <2>1, <1>7 DEF u
      <3>2. CASE r.free # 0
        <4>1. r.free > 0 /\ s = u /\ r.class = c
          BY <3>2, <1>5, <1>7
        <4> QED BY <4>1, <1>3 DEF u
      <3> QED BY <3>1, <3>2
    <2> HIDE DEF s
    <2> QED BY <2>2, <2>3, <1>3, <1>4, <1>5 DEF RecountFits
  <1> HIDE DEF s
  <1>10. /\ Good(z) /\ Counts(z, h, p, r.ref - q.ref) /\ z.pool[p] = r /\ OnlyPool(z, h, p, r.class)
         /\ EmptyKept(z, {} \cup {p}) /\ Hold(z, {}) /\ Frugal(z, {})
    BY <1>1, <1>9, RecountKeeps
  <1> HIDE DEF z
  <1>11. EmptyKept(z, {})
    BY <1>7, <1>10 DEF EmptyKept
  <1> QED BY <1>3, <1>4, <1>7, <1>8, <1>10, <1>11 DEF Settled, OnlyPool, g, p

-----------------------------------------------------------------------------
(* A pool taken from the first usable arena.                               *)

\* The first usable arena has a free pool and, if it is not wholly free, none
\* of the wholly free ones is in its place.
LEMMA FirstUsable ==
  ASSUME NEW h, Good(h), h.usable # <<>>
  PROVE  LET a == Head(h.usable)
         IN  /\ a \in Arenas /\ a \in Range(h.usable) /\ h.usable[1] = a /\ h.usable \in Seq(Arenas)
             /\ h.arena[a].free \in Nat /\ h.arena[a].free > 0
             /\ \A i \in 1 .. Len(h.usable) : h.arena[a].free <= h.arena[h.usable[i]].free
  <1> DEFINE s == h.usable
             a == Head(s)
  <1>1. h \in Heaps /\ s \in Seq(Arenas) /\ s # <<>>
    BY DEF Good, Heaps
  <1>2. a \in Arenas /\ a \in Range(s) /\ s[1] = a /\ Len(s) \in Nat /\ DOMAIN s = 1 .. Len(s) /\ Len(s) # 0
    <2> HIDE DEF s
    <2> QED BY <1>1, BehindFirst, RangeElements
  <1>3. h.arena[a].free > 0
    BY <1>2 DEF Good, UsableOk, Listed
  <1>4. h.arena[a].free \in Nat
    BY <1>1, <1>2, ArenaNumbers DEF Good
  <1> HIDE DEF a
  <1>5. ASSUME NEW i \in 1 .. Len(s) PROVE h.arena[a].free <= h.arena[s[i]].free
    <2>1. CASE i = 1
      BY <2>1, <1>2, <1>4
    <2>2. CASE i # 1
      <3>1. 1 \in DOMAIN s /\ i \in DOMAIN s /\ 1 < i
        BY <2>2, <1>2
      <3>2. Sorted(h, {})
        BY DEF Good, UsableOk
      <3>3. h.arena[s[1]].free <= h.arena[s[i]].free
        BY <3>1, <3>2 DEF Sorted
      <3> QED BY <3>3, <1>2
    <2> QED BY <2>1, <2>2
  <1> QED BY <1>1, <1>2, <1>3, <1>4, <1>5 DEF a

\* x is the arena a of h without its pool p, the first it has to give.
Parted(h, a, p, x) ==
    /\ x \in ArenaShape /\ x.free = h.arena[a].free - 1
    /\ x.total = h.arena[a].total /\ x.kept = h.arena[a].kept
    /\ \/ /\ h.arena[a].freePools # <<>> /\ p = Head(h.arena[a].freePools)
          /\ x.freePools = Tail(h.arena[a].freePools) /\ x.bump = h.arena[a].bump
       \/ /\ h.arena[a].freePools = <<>> /\ p = <<a, h.arena[a].bump>>
          /\ x.freePools = <<>> /\ x.bump = h.arena[a].bump + 1

\* The counts of the first usable arena around the pool taken from it.
LEMMA ArenaParts ==
  ASSUME NEW h \in Heaps, NEW a \in Arenas
  PROVE  LET recycled == h.arena[a].freePools # <<>>
             p == IF recycled THEN Head(h.arena[a].freePools) ELSE <<a, h.arena[a].bump>>
             x == [h.arena[a] EXCEPT !.free = @ - 1,
                                     !.freePools = IF recycled THEN Tail(@) ELSE @,
                                     !.bump = IF recycled THEN @ ELSE @ + 1]
         IN  Parted(h, a, p, x)
  <1> DEFINE y == h.arena[a]
             recycled == y.freePools # <<>>
             p == IF recycled THEN Head(y.freePools) ELSE <<a, y.bump>>
             n == y.free - 1
             s == IF recycled THEN Tail(y.freePools) ELSE y.freePools
             b == IF recycled THEN y.bump ELSE y.bump + 1
             x == [y EXCEPT !.free = n, !.freePools = s, !.bump = b]
  <1>1. y \in ArenaShape /\ y.freePools \in Seq(Pools) /\ y.free \in Int /\ y.bump \in Nat \ {0}
    BY ArenaTypes DEF Heaps
  <1>2. s \in Seq(Pools) /\ n \in Int /\ b \in Nat \ {0}
    <2> DEFINE t == y.freePools
    <2>1. t # <<>> => Tail(t) \in Seq(Pools)
      <3>1. t \in Seq(Pools)
        BY <1>1
      <3> HIDE DEF t
      <3> QED BY <3>1, BehindFirst
    <2> QED BY <1>1, <2>1
  <1>3. [y EXCEPT !.free = @ - 1, !.freePools = IF recycled THEN Tail(@) ELSE @,
                  !.bump = IF recycled THEN @ ELSE @ + 1] = x
    BY <1>1 DEF ArenaShape
  <1> HIDE DEF n, s, b
  <1>4. x \in ArenaShape /\ x.free = n /\ x.total = y.total /\ x.kept = y.kept /\ x.freePools = s /\ x.bump = b
    <2> HIDE DEF y
    <2> QED BY <1>1, <1>2 DEF ArenaShape
  <1> HIDE DEF x
  <1>5. Parted(h, a, p, x)
    BY <1>4 DEF Parted, n, s, b
  <1> QED BY <1>3, <1>5 DEF x

LessOne(s, t, p) == \A q : q \in Range(s) <=> q \in Range(t) /\ q # p

\* The pool an arena gives is not in use, and no block of it is out.
LEMMA PartedPool ==
  ASSUME NEW h, Good(h), NEW a \in Arenas, h.arena[a].free > 0, NEW p, NEW x, Parted(h, a, p, x)
  PROVE  /\ LessOne(x.freePools, h.arena[a].freePools, p)
         /\ p \in Pools /\ p[1] = a /\ ~InUse(h, p) /\ h.pool[p].ref = 0
         /\ Carved(h, p) \/ h.pool[p] = RawPool
         /\ \A d \in Classes : p \notin Range(h.used[d]) /\ h.kept[d] # p
         /\ x.bump \in Nat /\ x.bump <= x.total + 1
         /\ x.freePools \in Seq(Pools) /\ IsInjective(x.freePools)
         /\ Range(x.freePools) = Range(h.arena[a].freePools) \ {p}
         /\ \/ Len(x.freePools) = Len(h.arena[a].freePools) - 1 /\ x.bump = h.arena[a].bump
            \/ Len(x.freePools) = Len(h.arena[a].freePools) /\ x.bump = h.arena[a].bump + 1
         /\ \A i \in Nat : i < x.bump <=> i < h.arena[a].bump \/ <<a, i>> = p
  <1> DEFINE y == h.arena[a]
             s == y.freePools
  <1>1. h \in Heaps /\ Core(h)
    BY DEF Good
  <1>2. /\ y.free \in Int /\ y.total \in 0 .. ArenaPools /\ y.bump \in Nat \ {0} /\ s \in Seq(Pools)
        /\ ArenaPools \in Nat
    BY <1>1, ArenaTypes, Sizing
  <1>3. /\ y.bump <= y.total + 1 /\ y.free = y.total - (y.bump - 1) + Len(s) /\ IsInjective(s)
        /\ \A q \in Range(s) : q[1] = a /\ q[2] < y.bump
    BY <1>1 DEF Core, ArenaOk
  <1>4. ASSUME p \in Pools, ~InUse(h, p)
        PROVE  h.pool[p].ref = 0 /\ (Carved(h, p) \/ h.pool[p] = RawPool)
               /\ \A d \in Classes : p \notin Range(h.used[d]) /\ h.kept[d] # p
    <2>1. PoolOk(h, p)
      BY <1>1, <1>4 DEF Core
    <2>2. h.pool[p].ref = 0 /\ (Carved(h, p) \/ h.pool[p] = RawPool)
      BY <2>1, <1>4 DEF PoolOk, RawPool
    <2>3. \A d \in Classes : p \notin Range(h.used[d]) /\ h.kept[d] # p
      BY <1>1, <1>4, Places DEF Core, UsedOk, KeptOk
    <2> QED BY <2>2, <2>3
  <1>5. CASE s # <<>>
    <2>1. p = Head(s) /\ x.freePools = Tail(s) /\ x.bump = y.bump /\ x.total = y.total
      BY <1>5 DEF Parted
    <2>2. /\ p \in Range(s) /\ p \in Pools /\ Tail(s) \in Seq(Pools) /\ Len(Tail(s)) = Len(s) - 1
          /\ IsInjective(Tail(s)) /\ Range(Tail(s)) = Range(s) \ {p}
      <3> HIDE DEF s
      <3> QED BY <2>1, <1>2, <1>3, <1>5, BehindFirst
    <2>3. p[1] = a /\ ~InUse(h, p)
      BY <2>2, <1>3 DEF InUse
    <2>4. \A i \in Nat : i < x.bump <=> i < y.bump \/ <<a, i>> = p
      BY <2>1, <2>2, <1>3
    <2>5. x.bump \in Nat /\ x.bump <= x.total + 1
      BY <2>1, <1>2, <1>3
    <2>6. /\ x.freePools \in Seq(Pools) /\ IsInjective(x.freePools)
          /\ Range(x.freePools) = Range(s) \ {p} /\ Len(x.freePools) = Len(s) - 1
      BY <2>1, <2>2
    <2>10. LessOne(x.freePools, s, p)
      BY <2>6 DEF LessOne
    <2> HIDE DEF s, y
    <2>7. /\ h.pool[p].ref = 0 /\ (Carved(h, p) \/ h.pool[p] = RawPool)
          /\ \A d \in Classes : p \notin Range(h.used[d]) /\ h.kept[d] # p
      BY <2>2, <2>3, <1>4
    <2> QED BY <2>1, <2>2, <2>3, <2>4, <2>5, <2>6, <2>7, <2>10 DEF s, y
  <1>6. CASE s = <<>>
    <2>1. p = <<a, y.bump>> /\ x.freePools = <<>> /\ x.bump = y.bump + 1 /\ x.total = y.total
      BY <1>6 DEF Parted
    <2>2. Len(s) = 0 /\ IsInjective(<<>>) /\ Range(<<>>) = {} /\ <<>> \in Seq(Pools) /\ Len(<<>>) = 0
      BY <1>6 DEF IsInjective, Range
    <2>3. y.bump <= y.total /\ y.bump \in 1 .. ArenaPools
      <3> DEFINE f == y.free
                 t == y.total
                 b == y.bump
      <3>1. f \in Int /\ t \in 0 .. ArenaPools /\ b \in Nat \ {0} /\ ArenaPools \in Nat /\ f = t - (b - 1) + 0 /\ f > 0
        BY <2>2, <1>2, <1>3
      <3> HIDE DEF f, t, b
      <3>2. b <= t /\ b \in 1 .. ArenaPools
        BY <3>1
      <3> QED BY <3>2 DEF t, b
    <2>4. p \in Pools /\ p[1] = a /\ p[2] = y.bump
      BY <2>1, <2>3, Places
    <2>5. ~InUse(h, p)
      BY <2>4, <1>2 DEF InUse, Carved
    <2>6. \A i \in Nat : i < x.bump <=> i < y.bump \/ <<a, i>> = p
      BY <2>1, <1>2
    <2>7. x.bump \in Nat /\ x.bump <= x.total + 1
      BY <2>1, <2>3, <1>2, SMTT(20)
    <2>8. /\ x.freePools \in Seq(Pools) /\ IsInjective(x.freePools)
          /\ Range(x.freePools) = Range(s) \ {p} /\ Len(x.freePools) = Len(s)
      BY <2>1, <2>2, <1>6
    <2>10. LessOne(x.freePools, s, p)
      BY <2>8 DEF LessOne
    <2> HIDE DEF s, y
    <2>9. /\ h.pool[p].ref = 0 /\ (Carved(h, p) \/ h.pool[p] = RawPool)
          /\ \A d \in Classes : p \notin Range(h.used[d]) /\ h.kept[d] # p
      BY <2>4, <2>5, <1>4
    <2> QED BY <2>1, <2>4, <2>5, <2>6, <2>7, <2>8, <2>9, <2>10 DEF s, y
  <1> QED BY <1>5, <1>6

\* The arena a gives its pool p, which becomes the used pool of class c.
Taken(h, a, x, s, p, r, c, u) == [h EXCEPT !.arena[a] = x, !.usable = s, !.pool[p] = r, !.used[c] = u]

TakenFrom(g, h, a, p, c) ==
    /\ g.kept = h.kept /\ g.unused = h.unused /\ g.table = h.table /\ g.active = h.active
    /\ g.cachedBytes = h.cachedBytes /\ g.bytes = h.bytes /\ g.refused = h.refused /\ g.maxHeap = h.maxHeap
    /\ \A b \in Arenas : b # a => g.arena[b] = h.arena[b]
    /\ \A q \in Pools : q # p => g.pool[q] = h.pool[q]
    /\ \A d \in Classes : d # c => g.used[d] = h.used[d]

\* Taking a pool changes it, its arena, the usable list and one used list.
LEMMA TakenFields ==
  ASSUME NEW h \in Heaps, NEW a \in Arenas, NEW x \in ArenaShape, NEW s \in Seq(Arenas),
         NEW p \in Pools, NEW r \in PoolShape, NEW c \in Classes, NEW u \in Seq(Pools)
  PROVE  LET g == Taken(h, a, x, s, p, r, c, u)
         IN  /\ g \in Heaps /\ TakenFrom(g, h, a, p, c)
             /\ g.arena[a] = x /\ g.usable = s /\ g.pool[p] = r /\ g.used[c] = u
  <1> DEFINE A == [h.arena EXCEPT ![a] = x]
             P == [h.pool EXCEPT ![p] = r]
             U == [h.used EXCEPT ![c] = u]
             g == [h EXCEPT !.arena = A, !.usable = s, !.pool = P, !.used = U]
  <1>1. /\ A \in [Arenas -> ArenaShape] /\ P \in [Pools -> PoolShape] /\ U \in [Classes -> Seq(Pools)]
        /\ A[a] = x /\ P[p] = r /\ U[c] = u
        /\ \A b \in Arenas : b # a => A[b] = h.arena[b]
        /\ \A q \in Pools : q # p => P[q] = h.pool[q]
        /\ \A d \in Classes : d # c => U[d] = h.used[d]
    BY DEF Heaps
  <1>2. Taken(h, a, x, s, p, r, c, u) = g
    BY DEF Taken, Heaps
  <1> HIDE DEF A, P, U
  <1>3. /\ g \in Heaps /\ g.arena = A /\ g.pool = P /\ g.used = U /\ g.usable = s
        /\ g.kept = h.kept /\ g.unused = h.unused /\ g.table = h.table /\ g.active = h.active
        /\ g.cachedBytes = h.cachedBytes /\ g.bytes = h.bytes /\ g.refused = h.refused /\ g.maxHeap = h.maxHeap
    BY <1>1 DEF Heaps
  <1> HIDE DEF g
  <1>4. TakenFrom(g, h, a, p, c)
    BY <1>1, <1>3 DEF TakenFrom
  <1> QED BY <1>1, <1>2, <1>3, <1>4

\* The usable list once its first arena gave a pool.
Shortened(h) == IF h.arena[Head(h.usable)].free = 1 THEN Tail(h.usable) ELSE h.usable

\* The usable list stays sorted and exact as its first arena loses a pool.
LEMMA TakenUsable ==
  ASSUME NEW h, Good(h), h.usable # <<>>,
         NEW g \in Heaps, g.usable = Shortened(h),
         g.arena[Head(h.usable)].free = h.arena[Head(h.usable)].free - 1,
         g.arena[Head(h.usable)].total = h.arena[Head(h.usable)].total,
         \A b \in Arenas : b # Head(h.usable) => g.arena[b] = h.arena[b]
  PROVE  UsableOk(g) /\ OneFree(g) /\ ~FreeArena(g, Head(h.usable))
  <1> DEFINE a == Head(h.usable)
             s == h.usable
             n == Len(s)
             t == g.usable
  <1>1. /\ a \in Arenas /\ a \in Range(s) /\ s[1] = a /\ s \in Seq(Arenas)
        /\ h.arena[a].free \in Nat /\ h.arena[a].free > 0
        /\ \A i \in 1 .. n : h.arena[a].free <= h.arena[s[i]].free
    BY FirstUsable
  <1>2. h \in Heaps /\ Core(h) /\ UsableOk(h) /\ OneFree(h) /\ IsInjective(s)
    BY DEF Good, UsableOk, Listed
  <1>3. h.arena[a].free <= h.arena[a].total /\ h.arena[a].total \in Nat
    BY <1>1, <1>2, ArenaNumbers
  <1>4. ~FreeArena(g, a)
    BY <1>1, <1>3 DEF FreeArena
  <1>5. /\ n \in Nat /\ DOMAIN s = 1 .. n /\ n # 0
        /\ \A i \in 1 .. n : s[i] \in Range(s) /\ s[i] \in Arenas
        /\ \A i, j \in 1 .. n : s[i] = s[j] => i = j
    <2>1. n \in Nat /\ DOMAIN s = 1 .. n /\ n # 0 /\ \A i \in 1 .. n : s[i] \in Arenas
      BY <1>1
    <2> QED BY <2>1, <1>2, ListedPlaces
  <1>6. \A b \in Arenas : b \in Range(s) <=> h.arena[b].free > 0
    BY <1>2 DEF UsableOk, Listed
  <1> HIDE DEF a
  <1>7. \A b \in Arenas : b # a => g.arena[b] = h.arena[b]
    BY DEF a
  <1>8. g.arena[a].free = h.arena[a].free - 1
    BY DEF a
  <1>9. CASE h.arena[a].free = 1
    <2>1. t = Tail(s) /\ a = Head(s)
      BY <1>9 DEF Shortened, a
    <2>2. /\ t \in Seq(Arenas) /\ Len(t) = n - 1 /\ IsInjective(t) /\ Range(t) = Range(s) \ {a}
          /\ \A i \in 1 .. n - 1 : t[i] = s[i + 1]
      <3> HIDE DEF s, t
      <3> QED BY <2>1, <1>1, <1>2, BehindFirst DEF s
    <2> HIDE DEF t
    <2>3. g.usable = t /\ DOMAIN t = 1 .. n - 1
      BY <2>2, RangeElements DEF t
    <2>4. Listed(g, {})
      <3>1. \A b \in Arenas : b \in Range(t) <=> g.arena[b].free > 0
        BY <2>2, <1>6, <1>7, <1>8, <1>9
      <3>2. Range(t) \subseteq Arenas
        BY <2>2, RangeElements
      <3> QED BY <2>2, <2>3, <3>1, <3>2 DEF Listed
    <2>5. \A i \in 1 .. n - 1 : i + 1 \in 1 .. n /\ t[i] = s[i + 1] /\ t[i] # a /\ g.arena[t[i]] = h.arena[s[i + 1]]
      <3> SUFFICES ASSUME NEW i \in 1 .. n - 1
                   PROVE  i + 1 \in 1 .. n /\ t[i] = s[i + 1] /\ t[i] # a /\ g.arena[t[i]] = h.arena[s[i + 1]]
        OBVIOUS
      <3>0. n \in Nat /\ n # 0
        BY <1>5
      <3>1. i + 1 \in 1 .. n /\ i + 1 # 1 /\ 1 \in 1 .. n
        <4> HIDE DEF n
        <4> QED BY <3>0
      <3>3. t[i] = s[i + 1]
        BY <2>2
      <3>2. s[i + 1] # a /\ s[i + 1] \in Arenas
        BY <3>1, <1>1, <1>5
      <3> QED BY <3>1, <3>2, <3>3, <1>7
    <2>6. Sorted(g, {})
      <3> SUFFICES ASSUME NEW i \in 1 .. n - 1, NEW j \in 1 .. n - 1, i < j
                   PROVE  g.arena[t[i]].free <= g.arena[t[j]].free
        BY <2>3 DEF Sorted
      <3>1. h.arena[s[i + 1]].free <= h.arena[s[j + 1]].free
        <4>1. i + 1 \in DOMAIN s /\ j + 1 \in DOMAIN s /\ i + 1 < j + 1
          BY <2>5, <1>5
        <4> QED BY <4>1, <1>2 DEF UsableOk, Sorted
      <3> QED BY <3>1, <2>5
    <2>7. OneFree(g)
      <3> SUFFICES ASSUME NEW b \in Arenas, FreeArena(g, b) PROVE t[n - 1] = b
        BY <2>2, <2>3 DEF OneFree, FreeLast, Last
      <3>1. b # a
        BY <1>4
      <3>2. FreeArena(h, b)
        BY <3>1, <1>7 DEF FreeArena
      <3>3. s[n] = b
        BY <3>2, <1>2 DEF OneFree, FreeLast, Last
      <3>4. n # 1
        BY <3>1, <3>3, <1>1
      <3>5. n - 1 \in 1 .. n - 1 /\ (n - 1) + 1 = n
        <4>1. n \in Nat /\ n # 0
          BY <1>5
        <4> HIDE DEF n
        <4> QED BY <4>1, <3>4
      <3>6. t[n - 1] = s[(n - 1) + 1]
        BY <3>5, <2>2
      <3> QED BY <3>3, <3>5, <3>6
    <2> QED BY <2>4, <2>6, <2>7, <1>4 DEF UsableOk, a
  <1>10. CASE h.arena[a].free # 1
    <2>1. t = s
      BY <1>10 DEF Shortened, a
    <2>2. Listed(g, {})
      <3>1. \A b \in Arenas : b \in Range(s) <=> g.arena[b].free > 0
        BY <1>1, <1>6, <1>7, <1>8, <1>10
      <3>2. Range(s) \subseteq Arenas
        BY <1>1, RangeElements
      <3> QED BY <2>1, <3>1, <3>2, <1>2 DEF Listed
    <2>3. Sorted(g, {})
      <3> SUFFICES ASSUME NEW i \in 1 .. n, NEW j \in 1 .. n, i < j
                   PROVE  g.arena[s[i]].free <= g.arena[s[j]].free
        BY <2>1, <1>5 DEF Sorted
      <3>1. h.arena[s[i]].free <= h.arena[s[j]].free
        BY <1>2, <1>5 DEF UsableOk, Sorted
      <3>2. s[j] # a /\ s[j] \in Arenas /\ s[i] \in Arenas
        BY <1>1, <1>5
      <3>3. g.arena[s[j]] = h.arena[s[j]]
        BY <3>2, <1>7
      <3>4. CASE s[i] = a
        <4>1. h.arena[s[j]].free \in Int
          BY <3>2, <1>2, ArenaTypes
        <4> QED BY <4>1, <3>1, <3>3, <3>4, <1>1, <1>8, SMTT(20)
      <3>5. CASE s[i] # a
        BY <3>1, <3>2, <3>3, <3>5, <1>7
      <3> QED BY <3>4, <3>5
    <2>4. OneFree(g)
      <3> SUFFICES ASSUME NEW b \in Arenas, FreeArena(g, b) PROVE Last(s) = b
        BY <2>1 DEF OneFree, FreeLast
      <3>1. b # a
        BY <1>4
      <3>2. FreeArena(h, b)
        BY <3>1, <1>7 DEF FreeArena
      <3> QED BY <3>2, <1>2 DEF OneFree, FreeLast
    <2> QED BY <2>2, <2>3, <2>4, <1>4 DEF UsableOk, a
  <1> QED BY <1>9, <1>10

\* The pool an arena gave is the only used one of its class.
PoolGiven(g, h, a, p, x, c) ==
    /\ g \in Heaps /\ TakenFrom(g, h, a, p, c) /\ g.arena[a] = x /\ g.usable = Shortened(h)
    /\ g.used[c] = <<p>> /\ g.pool[p].ref = 1 /\ g.pool[p].class = c
    /\ g.pool[p].free \in Nat \ {0} /\ g.pool[p].next <= PoolSize
    /\ g.pool[p].next = PoolHeader + (g.pool[p].ref + g.pool[p].free) * BlockSize(c)

\* A pool that is given is in use, and the other pools are where they were.
LEMMA PoolGivenPlaces ==
  ASSUME NEW h, Good(h), NEW a \in Arenas, h.arena[a].free > 0, NEW c \in Classes, NEW p, NEW x,
         Parted(h, a, p, x), NEW g, PoolGiven(g, h, a, p, x, c)
  PROVE  /\ \A q \in Pools : Carved(g, q) <=> Carved(h, q) \/ q = p
         /\ \A q \in Pools : InUse(g, q) <=> InUse(h, q) \/ q = p
         /\ \A b : KeptBy(g, b) = KeptBy(h, b)
  <1>0. p \in Pools /\ p[1] = a /\ ~InUse(h, p)
    BY PartedPool
  <1>1. \A q : q \in Range(x.freePools) <=> q \in Range(h.arena[a].freePools) /\ q # p
    <2>1. LessOne(x.freePools, h.arena[a].freePools, p)
      BY PartedPool
    <2> QED BY <2>1 DEF LessOne
  <1>2. \A i \in Nat : i < x.bump <=> i < h.arena[a].bump \/ <<a, i>> = p
    BY PartedPool
  <1>3. /\ \A b \in Arenas : b # a => g.arena[b] = h.arena[b]
        /\ g.arena[a] = x /\ g.kept = h.kept
    BY DEF PoolGiven, TakenFrom
  <1>4. ASSUME NEW q \in Pools
        PROVE  (Carved(g, q) <=> Carved(h, q) \/ q = p) /\ (InUse(g, q) <=> InUse(h, q) \/ q = p)
    <2>1. q = <<q[1], q[2]>> /\ q[1] \in Arenas /\ q[2] \in Nat
      BY Places, Sizing
    <2>2. CASE q[1] # a
      BY <1>0, <1>3, <2>1, <2>2 DEF Carved, InUse
    <2>3. CASE q[1] = a
      <3>1. Carved(g, q) <=> Carved(h, q) \/ q = p
        BY <1>2, <1>3, <2>1, <2>3 DEF Carved
      <3>2. q \in Range(g.arena[q[1]].freePools) <=> q \in Range(h.arena[q[1]].freePools) /\ q # p
        BY <1>1, <1>3, <2>3
      <3>3. InUse(g, q) <=> InUse(h, q) \/ q = p
        BY <3>1, <3>2, <1>0 DEF InUse
      <3> QED BY <3>1, <3>3
    <2> QED BY <2>2, <2>3
  <1>5. \A b : KeptBy(g, b) = KeptBy(h, b)
    BY <1>3 DEF KeptBy
  <1> QED BY <1>4, <1>5

\* Giving a pool keeps every list and count consistent.
LEMMA PoolGivenCore ==
  ASSUME NEW h, Good(h), NEW a \in Arenas, h.arena[a].free > 0, NEW c \in Classes, h.used[c] = <<>>,
         NEW p, NEW x, Parted(h, a, p, x), NEW g, PoolGiven(g, h, a, p, x, c)
  PROVE  Core(g)
  <1>1. h \in Heaps /\ Core(h)
    BY DEF Good
  <1>2. /\ p \in Pools /\ p[1] = a /\ ~InUse(h, p)
        /\ \A d \in Classes : p \notin Range(h.used[d]) /\ h.kept[d] # p
    BY PartedPool
  <1>3. /\ \A q \in Pools : Carved(g, q) <=> Carved(h, q) \/ q = p
        /\ \A q \in Pools : InUse(g, q) <=> InUse(h, q) \/ q = p
        /\ \A b : KeptBy(g, b) = KeptBy(h, b)
    BY PoolGivenPlaces
  <1>4. /\ g \in Heaps /\ g.arena[a] = x /\ g.used[c] = <<p>> /\ g.pool[p].ref = 1 /\ g.pool[p].class = c
        /\ g.pool[p].free \in Nat \ {0} /\ g.pool[p].next <= PoolSize
        /\ g.pool[p].next = PoolHeader + (g.pool[p].ref + g.pool[p].free) * BlockSize(c)
    BY DEF PoolGiven
  <1>5. /\ g.kept = h.kept /\ g.unused = h.unused /\ g.table = h.table /\ g.active = h.active
        /\ \A b \in Arenas : b # a => g.arena[b] = h.arena[b]
        /\ \A q \in Pools : q # p => g.pool[q] = h.pool[q]
        /\ \A d \in Classes : d # c => g.used[d] = h.used[d]
    BY DEF PoolGiven, TakenFrom
  <1>6. ASSUME NEW b \in Arenas PROVE ArenaOk(g, b)
    <2>1. CASE b # a
      <3>1. g.arena[b] = h.arena[b] /\ KeptBy(g, b) = KeptBy(h, b) /\ ArenaOk(h, b)
        BY <2>1, <1>1, <1>3, <1>5 DEF Core
      <3> QED BY <3>1 DEF ArenaOk
    <2>2. CASE b = a
      <3> DEFINE y == h.arena[a]
      <3>1. /\ y.total \in {0, ArenaPools - 1, ArenaPools}
            /\ y.free = y.total - (y.bump - 1) + Len(y.freePools)
            /\ \A q \in Range(y.freePools) : q[1] = a /\ q[2] < y.bump
            /\ y.kept = Cardinality(KeptBy(h, a))
        BY <1>1 DEF Core, ArenaOk
      <3>2. /\ x.bump \in Nat /\ x.bump <= x.total + 1
            /\ x.freePools \in Seq(Pools) /\ IsInjective(x.freePools)
            /\ \A q : q \in Range(x.freePools) <=> q \in Range(y.freePools) /\ q # p
        <4>1. x.bump \in Nat /\ x.bump <= x.total + 1
          BY PartedPool
        <4>2. x.freePools \in Seq(Pools) /\ IsInjective(x.freePools)
          BY PartedPool
        <4>3. \A q : q \in Range(x.freePools) <=> q \in Range(h.arena[a].freePools) /\ q # p
          <5>1. LessOne(x.freePools, h.arena[a].freePools, p)
            BY PartedPool
          <5> QED BY <5>1 DEF LessOne
        <4> QED BY <4>1, <4>2, <4>3
      <3>3. \/ Len(x.freePools) = Len(y.freePools) - 1 /\ x.bump = y.bump
            \/ Len(x.freePools) = Len(y.freePools) /\ x.bump = y.bump + 1
        BY PartedPool
      <3>4. x.free = y.free - 1 /\ x.total = y.total /\ x.kept = y.kept
        BY DEF Parted
      <3>5. y.free \in Int /\ y.total \in Int /\ y.bump \in Nat /\ Len(y.freePools) \in Nat
        <4>1. y.free \in Int /\ y.total \in 0 .. ArenaPools /\ y.freePools \in Seq(Pools) /\ y.bump \in Nat
          BY <1>1, ArenaTypes
        <4> QED BY <4>1, Sizing
      <3>6. x.free = x.total - (x.bump - 1) + Len(x.freePools)
        <4> DEFINE f == y.free
                   t == y.total
                   m == y.bump
                   l == Len(y.freePools)
                   k == Len(x.freePools)
        <4>1. /\ f \in Int /\ t \in Int /\ m \in Nat /\ l \in Nat /\ f = t - (m - 1) + l
              /\ \/ k = l - 1 /\ x.bump = m
                 \/ k = l /\ x.bump = m + 1
          BY <3>1, <3>3, <3>5
        <4> HIDE DEF f, t, m, l, k
        <4>2. f - 1 = t - (x.bump - 1) + k
          BY <4>1
        <4> QED BY <4>2, <3>4 DEF f, t, k
      <3>7. \A q \in Range(x.freePools) : q[1] = a /\ q[2] < x.bump
        <4> SUFFICES ASSUME NEW q \in Range(x.freePools) PROVE q[1] = a /\ q[2] < x.bump
          OBVIOUS
        <4>1. q[1] = a /\ q[2] < y.bump /\ q \in Pools
          BY <3>1, <3>2, RangeElements
        <4>2. q[2] \in Nat
          BY <4>1, Places, Sizing, SMTT(20)
        <4> QED BY <4>1, <4>2, <3>3, <3>5, <3>2
      <3> HIDE DEF y
      <3>8. x.kept = Cardinality(KeptBy(g, a)) /\ x.total \in {0, ArenaPools - 1, ArenaPools}
        BY <3>1, <3>4, <1>3
      <3> QED BY <2>2, <3>2, <3>6, <3>7, <3>8, <1>4 DEF ArenaOk
    <2> QED BY <2>1, <2>2
  <1>7. ASSUME NEW q \in Pools PROVE PoolOk(g, q)
    <2>1. CASE q = p
      <3>1. InUse(g, p) /\ Carved(g, p)
        BY <1>2, <1>3
      <3>2. g.pool[p].ref \in Nat /\ g.pool[p].free \in Nat /\ g.pool[p].ref + g.pool[p].free >= 2
        BY <1>4
      <3> QED BY <2>1, <3>1, <3>2, <1>4 DEF PoolOk
    <2>2. CASE q # p
      <3>1. g.pool[q] = h.pool[q] /\ (Carved(g, q) <=> Carved(h, q)) /\ (InUse(g, q) <=> InUse(h, q)) /\ PoolOk(h, q)
        BY <2>2, <1>1, <1>3, <1>5 DEF Core
      <3> QED BY <3>1 DEF PoolOk
    <2> QED BY <2>1, <2>2
  <1>8. ASSUME NEW d \in Classes PROVE UsedOk(g, d)
    <2>1. UsedOk(h, d) /\ UsedOk(h, c)
      BY <1>1 DEF Core
    <2>2. CASE d # c
      <3>1. g.used[d] = h.used[d]
        BY <2>2, <1>5
      <3>2. ASSUME NEW q \in Pools
            PROVE  q \in Range(g.used[d]) <=> InUse(g, q) /\ g.pool[q].class = d /\ g.pool[q].free > 0
        <4>1. CASE q = p
          BY <4>1, <3>1, <1>2, <1>4, <2>2
        <4>2. CASE q # p
          BY <4>2, <3>1, <1>3, <1>5, <2>1 DEF UsedOk
        <4> QED BY <4>1, <4>2
      <3> QED BY <3>1, <3>2, <2>1 DEF UsedOk
    <2>3. CASE d = c
      <3>1. IsInjective(<<p>>) /\ Range(<<p>>) = {p}
        BY DEF IsInjective, Range
      <3>2. ASSUME NEW q \in Pools, q # p
            PROVE  ~(InUse(g, q) /\ g.pool[q].class = c /\ g.pool[q].free > 0)
        <4>1. q \notin Range(h.used[c])
          BY DEF Range
        <4> QED BY <4>1, <3>2, <1>3, <1>5, <2>1 DEF UsedOk
      <3>3. InUse(g, p) /\ g.pool[p].free > 0
        BY <1>2, <1>3, <1>4
      <3> QED BY <2>3, <3>1, <3>2, <3>3, <1>4 DEF UsedOk
    <2> QED BY <2>2, <2>3
  <1>9. ASSUME NEW d \in Classes PROVE KeptOk(g, d)
    <2>1. KeptOk(h, d) /\ h.kept[d] # p /\ h.kept[d] \in Pools \cup {NoPool}
      BY <1>1, <1>2 DEF Core, Heaps
    <2> QED BY <2>1, <1>3, <1>5 DEF KeptOk
  <1>10. TableOk(g)
    <2>1. Active(g) = Active(h)
      <3>1. x.total = h.arena[a].total
        BY DEF Parted
      <3> QED BY <3>1, <1>4, <1>5 DEF Active
    <2>2. TableOk(h)
      BY <1>1 DEF Core
    <2> QED BY <2>1, <2>2, <1>5 DEF TableOk
  <1> QED BY <1>6, <1>7, <1>8, <1>9, <1>10 DEF Core

\* Giving a pool settles the heap, with one block more out.
LEMMA PoolGivenKeeps ==
  ASSUME NEW h, Good(h), h.usable # <<>>, NEW c \in Classes, h.used[c] = <<>>,
         EmptyKept(h, {}), Hold(h, {}), Frugal(h, {Head(h.usable)}),
         NEW p, NEW x, Parted(h, Head(h.usable), p, x), NEW g, PoolGiven(g, h, Head(h.usable), p, x, c)
  PROVE  Settled(g) /\ p \in Pools /\ Counts(g, h, p, 1) /\ g.table = h.table /\ g.bytes = h.bytes
  <1> DEFINE a == Head(h.usable)
  <1>1. a \in Arenas /\ h.arena[a].free \in Nat /\ h.arena[a].free > 0
    BY FirstUsable
  <1>2. h \in Heaps /\ Core(h)
    BY DEF Good
  <1>3. Core(g)
    BY <1>1, PoolGivenCore
  <1>4. /\ g \in Heaps /\ g.arena[a] = x /\ g.used[c] = <<p>> /\ g.pool[p].ref = 1 /\ g.usable = Shortened(h)
        /\ g.kept = h.kept /\ g.table = h.table /\ g.active = h.active
        /\ g.cachedBytes = h.cachedBytes /\ g.bytes = h.bytes /\ g.maxHeap = h.maxHeap
        /\ \A b \in Arenas : b # a => g.arena[b] = h.arena[b]
        /\ \A q \in Pools : q # p => g.pool[q] = h.pool[q]
        /\ \A d \in Classes : d # c => g.used[d] = h.used[d]
    BY DEF PoolGiven, TakenFrom
  <1>5. x.free = h.arena[a].free - 1 /\ x.total = h.arena[a].total /\ x.kept = h.arena[a].kept
    BY DEF Parted
  <1>6. UsableOk(g) /\ OneFree(g) /\ ~FreeArena(g, a)
    <2>1. g.arena[a].free = h.arena[a].free - 1 /\ g.arena[a].total = h.arena[a].total
      BY <1>4, <1>5
    <2> QED BY <2>1, <1>4, TakenUsable
  <1>7. p \in Pools /\ h.pool[p].ref = 0 /\ \A d \in Classes : p \notin Range(h.used[d])
    BY <1>1, PartedPool
  <1> HIDE DEF a
  <1>8. Frugal(h, {a})
    BY DEF a
  <1>9. EmptyKept(g, {})
    <2> SUFFICES ASSUME NEW d \in Classes, NEW q \in Range(g.used[d]), g.pool[q].ref = 0
                 PROVE  g.kept[d] = q
      BY DEF EmptyKept
    <2>1. CASE d = c
      <3>1. q = p
        BY <2>1, <1>4 DEF Range
      <3> QED BY <3>1, <1>4
    <2>2. CASE d # c
      <3>1. q \in Range(h.used[d]) /\ q # p
        BY <2>2, <1>4, <1>7
      <3>2. h.used[d] \in Seq(Pools)
        BY <1>2 DEF Heaps
      <3>3. q \in Pools
        BY <3>1, <3>2, RangeElements
      <3> QED BY <3>1, <3>3, <1>4 DEF EmptyKept
    <2> QED BY <2>1, <2>2
  <1>10. Hold(g, {})
    <2> SUFFICES ASSUME NEW b \in Arenas, g.arena[b].kept > 0
                 PROVE  g.arena[b].free + g.arena[b].kept < g.arena[b].total
      BY DEF Hold
    <2>1. CASE b # a
      BY <2>1, <1>4 DEF Hold
    <2>2. CASE b = a
      <3>1. h.arena[a].kept \in Nat /\ h.arena[a].total \in Nat /\ h.arena[a].free \in Nat
        BY <1>1, <1>2, ArenaNumbers
      <3>2. h.arena[a].free + h.arena[a].kept < h.arena[a].total
        BY <2>2, <1>4, <1>5 DEF Hold
      <3>3. (h.arena[a].free - 1) + h.arena[a].kept < h.arena[a].total
        BY <3>1, <3>2
      <3> QED BY <3>3, <2>2, <1>4, <1>5
    <2> QED BY <2>1, <2>2
  <1>11. Frugal(g, {})
    <2> SUFFICES ASSUME g.maxHeap # 0
                 PROVE  (\A d \in Classes : g.kept[d] = NoPool) /\ (\A b \in Arenas : ~FreeArena(g, b))
      BY DEF Frugal
    <2>1. ASSUME NEW b \in Arenas, b # a PROVE ~FreeArena(g, b)
      <3>1. ~FreeArena(h, b)
        BY <2>1, <1>4, <1>8 DEF Frugal
      <3> QED BY <3>1, <2>1, <1>4 DEF FreeArena
    <2> QED BY <2>1, <1>4, <1>6, <1>8 DEF Frugal
  <1>12. Counts(g, h, p, 1)
    <2>1. Rest(g) = Rest(h)
      BY <1>4 DEF Rest
    <2>2. ASSUME NEW q \in Pools PROVE g.pool[q].ref = IF q = p THEN h.pool[q].ref + 1 ELSE h.pool[q].ref
      BY <1>4, <1>7
    <2> QED BY <2>1, <2>2, <1>4 DEF Counts
  <1> QED BY <1>3, <1>4, <1>6, <1>7, <1>9, <1>10, <1>11, <1>12 DEF Settled, Good

\* tinypy_internal_pool_allocate, once an arena with a free pool is there.
LEMMA TakeFromArenaKeeps ==
  ASSUME NEW h, Good(h), h.usable # <<>>, NEW c \in Classes, h.used[c] = <<>>,
         EmptyKept(h, {}), Hold(h, {}), Frugal(h, {Head(h.usable)})
  PROVE  LET g == TakeFromArena(h, c)
         IN  /\ Settled(g) /\ FirstPool(h) \in Pools /\ Counts(g, h, FirstPool(h), 1)
             /\ g.table = h.table /\ g.bytes = h.bytes
  <1> DEFINE a == Head(h.usable)
             y == h.arena[a]
             recycled == y.freePools # <<>>
             p == FirstPool(h)
             x == [y EXCEPT !.free = @ - 1,
                            !.freePools = IF recycled THEN Tail(@) ELSE @,
                            !.bump = IF recycled THEN @ ELSE @ + 1]
             q == h.pool[p]
             n == q.free - 1
             o == PoolHeader + 2 * BlockSize(c)
             r == IF q.class = c THEN [q EXCEPT !.ref = 1, !.free = @ - 1]
                                 ELSE [ref |-> 1, class |-> c, free |-> 1, next |-> o]
             u == <<p>>
             g == Taken(h, a, x, Shortened(h), p, r, c, u)
  <1>1. a \in Arenas /\ y.free \in Nat /\ y.free > 0 /\ h.usable \in Seq(Arenas)
    BY FirstUsable
  <1>2. h \in Heaps /\ Core(h)
    BY DEF Good
  <1>3. p = IF recycled THEN Head(y.freePools) ELSE <<a, y.bump>>
    BY DEF FirstPool
  <1>4. Parted(h, a, p, x)
    <2>1. Parted(h, a, IF recycled THEN Head(y.freePools) ELSE <<a, y.bump>>, x)
      BY <1>1, <1>2, ArenaParts
    <2> QED BY <2>1, <1>3
  <1> HIDE DEF p, x
  <1>5. p \in Pools /\ h.pool[p].ref = 0 /\ (Carved(h, p) \/ h.pool[p] = RawPool)
    BY <1>1, <1>4, PartedPool
  <1>6. q \in PoolShape /\ PoolOk(h, p)
    BY <1>2, <1>5 DEF Heaps, Core
  <1>7. BlockSize(c) \in Nat /\ o \in Int /\ o <= PoolSize /\ o = PoolHeader + (1 + 1) * BlockSize(c)
    <2> DEFINE b == BlockSize(c)
    <2>1. b \in Nat /\ 2 * b <= PoolSize - PoolHeader /\ PoolSize \in Nat /\ PoolHeader \in Nat
      BY Blocks, Sizing
    <2> HIDE DEF b
    <2>2. /\ b \in Nat /\ PoolHeader + 2 * b \in Int /\ PoolHeader + 2 * b <= PoolSize
          /\ PoolHeader + 2 * b = PoolHeader + (1 + 1) * b
      BY <2>1
    <2> QED BY <2>2 DEF b
  <1>8. q.class = c => /\ q.free \in Nat /\ q.free >= 2 /\ q.next = PoolHeader + q.free * BlockSize(c)
                       /\ q.next <= PoolSize
    <2> SUFFICES ASSUME q.class = c
                 PROVE  /\ q.free \in Nat /\ q.free >= 2 /\ q.next = PoolHeader + q.free * BlockSize(c)
                        /\ q.next <= PoolSize
      OBVIOUS
    <2>1. Carved(h, p)
      BY <1>5, Blocks DEF RawPool
    <2>2. /\ q.ref \in Nat /\ q.free \in Nat /\ q.ref + q.free >= 2
          /\ q.next = PoolHeader + (q.ref + q.free) * BlockSize(c) /\ q.next <= PoolSize
      BY <2>1, <1>6 DEF PoolOk
    <2>3. q.ref = 0
      BY <1>5
    <2>4. q.ref + q.free = q.free
      BY <2>2, <2>3
    <2> QED BY <2>2, <2>4
  <1>9. /\ r \in PoolShape /\ r.ref = 1 /\ r.class = c /\ r.free \in Nat \ {0} /\ r.next <= PoolSize
        /\ r.next = PoolHeader + (r.ref + r.free) * BlockSize(c)
    <2>1. CASE q.class = c
      <3>1. n \in Nat \ {0} /\ n \in Int /\ 1 + n = q.free
        <4> DEFINE f == q.free
        <4>1. f \in Nat /\ f >= 2
          BY <2>1, <1>8
        <4> HIDE DEF f
        <4>2. f - 1 \in Nat \ {0} /\ f - 1 \in Int /\ 1 + (f - 1) = f
          BY <4>1
        <4> QED BY <4>2 DEF f
      <3>2. r = [q EXCEPT !.ref = 1, !.free = n]
        BY <2>1, <1>6 DEF PoolShape
      <3>3. q.class = c /\ q.next = PoolHeader + q.free * BlockSize(c) /\ q.next <= PoolSize
        BY <2>1, <1>8
      <3> HIDE DEF n, q
      <3> DEFINE m == 1
      <3>6. m \in Int
        OBVIOUS
      <3>5. LET z == [q EXCEPT !.ref = m, !.free = n]
            IN  z \in PoolShape /\ z.ref = m /\ z.class = q.class /\ z.free = n /\ z.next = q.next
        <4>1. n \in Int /\ q \in PoolShape
          BY <3>1, <1>6
        <4> HIDE DEF m
        <4> QED BY <4>1, <3>6 DEF PoolShape
      <3> HIDE DEF r
      <3>4. r \in PoolShape /\ r.ref = 1 /\ r.class = q.class /\ r.free = n /\ r.next = q.next
        BY <3>2, <3>5
      <3> QED BY <3>1, <3>3, <3>4
    <2>2. CASE q.class # c
      <3>1. r = [ref |-> 1, class |-> c, free |-> 1, next |-> o]
        BY <2>2
      <3> HIDE DEF r, o
      <3>2. r \in PoolShape /\ r.ref = 1 /\ r.class = c /\ r.free = 1 /\ r.next = o
        BY <3>1, <1>7 DEF PoolShape
      <3> QED BY <3>2, <1>7
    <2> QED BY <2>1, <2>2
  <1>10. TakeFromArena(h, c) = g
    <2>1. TakeFromArena(h, c) = LinkUsedFront([h EXCEPT !.arena[a] = x, !.usable = Shortened(h), !.pool[p] = r], p)
      BY <1>2, <1>6 DEF TakeFromArena, Shortened, x, p, Heaps
    <2>2. LinkUsedFront([h EXCEPT !.arena[a] = x, !.usable = Shortened(h), !.pool[p] = r], p) = g
      <3> DEFINE w == [h EXCEPT !.arena[a] = x, !.usable = Shortened(h), !.pool[p] = r]
      <3> HIDE DEF r
      <3>1. w.pool[p] = r /\ w.used[c] = <<>>
        BY <1>2, <1>5 DEF Heaps
      <3>2. LinkUsedFront(w, p) = [w EXCEPT !.used[c] = u]
        <4>1. u \o <<>> = u
          BY <1>5
        <4> HIDE DEF w
        <4>2. LinkUsedFront(w, p) = [w EXCEPT !.used[c] = u \o w.used[c]]
          BY <3>1, <1>9 DEF LinkUsedFront
        <4> QED BY <4>1, <4>2, <3>1
      <3>3. [w EXCEPT !.used[c] = u] = g
        BY DEF Taken
      <3> QED BY <3>2, <3>3
    <2> QED BY <2>1, <2>2
  <1> HIDE DEF r, g
  <1>11. Shortened(h) \in Seq(Arenas)
    <2> DEFINE s == h.usable
    <2>1. s \in Seq(Arenas) /\ s # <<>>
      BY <1>1
    <2>2. Tail(s) \in Seq(Arenas)
      <3> HIDE DEF s
      <3> QED BY <2>1, BehindFirst
    <2> QED BY <2>1, <2>2 DEF Shortened
  <1>12. x \in ArenaShape /\ u \in Seq(Pools)
    BY <1>4, <1>5 DEF Parted
  <1>13. /\ g \in Heaps /\ TakenFrom(g, h, a, p, c)
         /\ g.arena[a] = x /\ g.usable = Shortened(h) /\ g.pool[p] = r /\ g.used[c] = u
    <2> HIDE DEF u, a
    <2>1. a \in Arenas /\ h \in Heaps /\ p \in Pools /\ r \in PoolShape /\ x \in ArenaShape /\ u \in Seq(Pools)
          /\ Shortened(h) \in Seq(Arenas)
      BY <1>1, <1>2, <1>5, <1>9, <1>11, <1>12
    <2>2. g = Taken(h, a, x, Shortened(h), p, r, c, u)
      BY DEF g
    <2>3. g \in Heaps /\ TakenFrom(g, h, a, p, c)
      BY <2>1, <2>2, TakenFields
    <2>4. g.arena[a] = x /\ g.usable = Shortened(h) /\ g.pool[p] = r /\ g.used[c] = u
      BY <2>1, <2>2, TakenFields
    <2> QED BY <2>3, <2>4
  <1>14. PoolGiven(g, h, a, p, x, c)
    BY <1>9, <1>13 DEF PoolGiven
  <1>15. Settled(g) /\ p \in Pools /\ Counts(g, h, p, 1) /\ g.table = h.table /\ g.bytes = h.bytes
    BY <1>4, <1>14, PoolGivenKeeps, ZenonT(30)
  <1> QED BY <1>10, <1>15 DEF p

-----------------------------------------------------------------------------
(* Memory from the host.                                                   *)

\* g has the arenas and pools of h, and perhaps another arena table.
SameArenas(g, h) ==
    /\ g.arena = h.arena /\ g.pool = h.pool /\ g.used = h.used /\ g.kept = h.kept
    /\ g.usable = h.usable /\ g.active = h.active

\* Only the numbers of g may differ from those of h.
SameLists(g, h) == SameArenas(g, h) /\ g.unused = h.unused /\ g.table = h.table

\* A heap with the same arenas and pools satisfies the invariant as well.
LEMMA SameArenasKeep ==
  ASSUME NEW h, NEW g \in Heaps, SameArenas(g, h), TableOk(h) => TableOk(g)
  PROVE  /\ Good(h) => Good(g)
         /\ \A X : EmptyKept(h, X) => EmptyKept(g, X)
         /\ \A W : Hold(h, W) => Hold(g, W)
         /\ \A X : Frugal(h, X) /\ g.maxHeap = h.maxHeap => Frugal(g, X)
  <1> USE DEF SameArenas
  <1>1. /\ \A q : (Carved(g, q) <=> Carved(h, q)) /\ (InUse(g, q) <=> InUse(h, q))
        /\ \A b : KeptBy(g, b) = KeptBy(h, b)
    BY DEF Carved, InUse, KeptBy
  <1>2. ASSUME Core(h) PROVE Core(g)
    <2>1. \A a \in Arenas : ArenaOk(g, a)
      BY <1>1, <1>2 DEF Core, ArenaOk
    <2>2. \A p \in Pools : PoolOk(g, p)
      BY <1>1, <1>2 DEF Core, PoolOk
    <2>3. \A c \in Classes : UsedOk(g, c)
      BY <1>1, <1>2 DEF Core, UsedOk
    <2>4. \A c \in Classes : KeptOk(g, c)
      BY <1>1, <1>2 DEF Core, KeptOk
    <2>5. TableOk(g)
      BY <1>2 DEF Core
    <2> QED BY <2>1, <2>2, <2>3, <2>4, <2>5 DEF Core
  <1>3. (UsableOk(h) => UsableOk(g)) /\ (OneFree(h) => OneFree(g))
    BY DEF UsableOk, Listed, Sorted, OneFree, FreeLast, FreeArena
  <1>4. /\ \A X : EmptyKept(h, X) => EmptyKept(g, X)
        /\ \A W : Hold(h, W) => Hold(g, W)
        /\ \A X : Frugal(h, X) /\ g.maxHeap = h.maxHeap => Frugal(g, X)
    BY DEF EmptyKept, Hold, Frugal, FreeArena
  <1> QED BY <1>2, <1>3, <1>4 DEF Good

\* A heap with other numbers only satisfies the invariant as well.
LEMMA SameListsKeep ==
  ASSUME NEW h, NEW g \in Heaps, SameLists(g, h)
  PROVE  /\ Good(h) => Good(g)
         /\ \A X : EmptyKept(h, X) => EmptyKept(g, X)
         /\ \A W : Hold(h, W) => Hold(g, W)
         /\ \A X : Frugal(h, X) /\ g.maxHeap = h.maxHeap => Frugal(g, X)
  <1>1. SameArenas(g, h) /\ (TableOk(h) => TableOk(g))
    BY DEF SameLists, SameArenas, TableOk, Active
  <1> QED BY <1>1, SameArenasKeep

\* The host gave or took the bytes of a request, or the request was refused:
\* by the budget, which leaves the heap alone, or by the host.
LEMMA HostAnswers ==
  ASSUME NEW h \in Heaps, NEW n \in Int, NEW checked \in BOOLEAN, NEW r, r \in HostOutcomes(h, n, checked)
  PROVE  /\ r[1] \in Heaps /\ r[2] \in BOOLEAN /\ SameLists(r[1], h)
         /\ r[1].maxHeap = h.maxHeap /\ r[1].cachedBytes = h.cachedBytes
         /\ r[2] => r[1].bytes = h.bytes + n /\ (checked /\ n > 0 => Fits(h, n))
         /\ ~r[2] => /\ r[1].bytes = h.bytes
                     /\ r[1].refused \/ (r[1] = h /\ checked /\ n > 0 /\ ~Fits(h, n))
  <1> DEFINE m == h.bytes + n
             x == [h EXCEPT !.bytes = m]
             y == [h EXCEPT !.refused = TRUE]
  <1>1. m \in Int
    BY DEF Heaps
  <1>2. [h EXCEPT !.bytes = @ + n] = x
    BY DEF Heaps
  <1>3. \/ r = <<h, FALSE>> /\ checked /\ n > 0 /\ ~Fits(h, n)
        \/ r = <<x, TRUE>> /\ (checked /\ n > 0 => Fits(h, n))
        \/ r = <<y, FALSE>>
    BY <1>2 DEF HostOutcomes
  <1>4. x \in Heaps /\ SameLists(x, h) /\ x.maxHeap = h.maxHeap /\ x.cachedBytes = h.cachedBytes /\ x.bytes = m
    <2> HIDE DEF m
    <2> QED BY <1>1 DEF Heaps, SameLists, SameArenas
  <1>5. /\ y \in Heaps /\ SameLists(y, h) /\ y.maxHeap = h.maxHeap /\ y.cachedBytes = h.cachedBytes
        /\ y.bytes = h.bytes /\ y.refused
    BY DEF Heaps, SameLists, SameArenas
  <1>6. SameLists(h, h)
    BY DEF SameLists, SameArenas
  <1> HIDE DEF x, y
  <1>7. CASE r = <<h, FALSE>> /\ checked /\ n > 0 /\ ~Fits(h, n)
    BY <1>6, <1>7
  <1>8. CASE r = <<x, TRUE>> /\ (checked /\ n > 0 => Fits(h, n))
    BY <1>4, <1>8
  <1>9. CASE r = <<y, FALSE>>
    BY <1>5, <1>9
  <1> QED BY <1>3, <1>7, <1>8, <1>9

\* The arena table always grows by some entries.
LEMMA TableGrows ==
  ASSUME NEW h \in Heaps
  PROVE  TableGrowth(h) \in Nat \ {0}
  <1> DEFINE t == h.table
  <1>1. t \in Nat /\ InitialArenas \in Nat \ {0}
    BY Sizing DEF Heaps
  <1>2. TableGrowth(h) = ((IF t # 0 THEN 2 * t ELSE InitialArenas) - t)
    BY DEF TableGrowth
  <1> HIDE DEF t
  <1>3. (IF t # 0 THEN 2 * t ELSE InitialArenas) - t \in Nat \ {0}
    BY <1>1
  <1> QED BY <1>2, <1>3

\* A table of n more entries, all unused.
Extended(h, n) == [h EXCEPT !.unused = [i \in 1 .. n |-> h.table + i], !.table = @ + n]

\* The new entries of the table are the unused ones.
LEMMA ExtendedTable ==
  ASSUME NEW h \in Heaps, TableOk(h), h.unused = <<>>, NEW n \in Nat \ {0}
  PROVE  LET g == Extended(h, n)
         IN  /\ g \in Heaps /\ SameArenas(g, h) /\ TableOk(g) /\ g.table = h.table + n
             /\ g.unused # <<>> /\ Head(g.unused) = h.table + 1
             /\ g.bytes = h.bytes /\ g.cachedBytes = h.cachedBytes /\ g.maxHeap = h.maxHeap
  <1> DEFINE t == h.table
             m == t + n
             s == [i \in 1 .. n |-> t + i]
             g == [h EXCEPT !.unused = s, !.table = m]
  <1>1. t \in Nat /\ m \in Nat
    BY DEF Heaps
  <1>2. Extended(h, n) = g
    BY DEF Extended, Heaps
  <1> HIDE DEF t
  <1>3. s \in Seq(Nat \ {0}) /\ Len(s) = n /\ DOMAIN s = 1 .. n /\ s # <<>> /\ Head(s) = t + 1
    <2>1. s \in [1 .. n -> Nat \ {0}]
      BY <1>1
    <2>2. s \in Seq(Nat \ {0}) /\ Len(s) = n /\ DOMAIN s = 1 .. n
      BY <2>1
    <2>3. s # <<>>
      BY <2>2
    <2>4. Head(s) = s[1] /\ s[1] = t + 1
      BY <2>2, <2>3, BehindFirst
    <2> QED BY <2>2, <2>3, <2>4
  <1>4. IsInjective(s)
    BY <1>1 DEF IsInjective
  <1>5. Range(s) = (t + 1) .. m
    <2>1. \A x \in (t + 1) .. m : x - t \in 1 .. n /\ t + (x - t) = x
      BY <1>1
    <2>2. \A i \in 1 .. n : t + i \in (t + 1) .. m
      BY <1>1
    <2>3. \A i \in 1 .. n : s[i] = t + i
      OBVIOUS
    <2>4. ASSUME NEW x \in (t + 1) .. m PROVE x \in Range(s)
      <3>1. x - t \in DOMAIN s /\ s[x - t] = x
        BY <2>1, <2>3, <1>3
      <3> QED BY <3>1 DEF Range
    <2>5. ASSUME NEW x \in Range(s) PROVE x \in (t + 1) .. m
      <3>1. PICK i \in 1 .. n : s[i] = x
        BY <1>3 DEF Range
      <3> QED BY <3>1, <2>2, <2>3
    <2> QED BY <2>4, <2>5
  <1>6. Active(h) = 1 .. t /\ h.active = Cardinality(Active(h))
    <2>1. Range(h.unused) = {}
      BY DEF Range
    <2>2. {} = (1 .. t) \ Active(h) /\ Active(h) \subseteq 1 .. t
      BY <2>1 DEF TableOk, t
    <2> QED BY <2>2 DEF TableOk
  <1> HIDE DEF m, s
  <1>7. /\ g \in Heaps /\ g.unused = s /\ g.table = m /\ SameArenas(g, h)
        /\ g.bytes = h.bytes /\ g.cachedBytes = h.cachedBytes /\ g.maxHeap = h.maxHeap
    BY <1>1, <1>3 DEF Heaps, SameArenas
  <1> HIDE DEF g
  <1>8. TableOk(g)
    <2>1. Active(g) = Active(h) /\ g.active = h.active
      BY <1>7 DEF Active, SameArenas
    <2>2. (t + 1) .. m = (1 .. m) \ (1 .. t) /\ 1 .. t \subseteq 1 .. m
      BY <1>1 DEF m
    <2> QED BY <2>1, <2>2, <1>4, <1>5, <1>6, <1>7 DEF TableOk
  <1>9. g.table = h.table + n
    BY <1>7 DEF m, t
  <1> QED BY <1>2, <1>3, <1>7, <1>8, <1>9 DEF t

\* The numbers of g are those of h but for its refused flag, and for n bytes.
Paid(g, h, n) ==
    /\ g.bytes = h.bytes + n /\ g.maxHeap = h.maxHeap /\ g.cachedBytes = h.cachedBytes
    /\ g.pool = h.pool /\ g.used = h.used /\ g.usable = h.usable /\ g.active = h.active

\* tinypy_pool_grow_arena_table keeps the invariant when it succeeds.
LEMMA TableGrown ==
  ASSUME NEW h, Settled(h), h.unused = <<>>, NEW checked \in BOOLEAN, NEW r, r \in GrowArenaTable(h, checked)
  PROVE  LET g == r[1]
             n == TableGrowth(h) * TableEntry
         IN  /\ r[2] \in BOOLEAN /\ Settled(g) /\ Rest(g) = Rest(h)
             /\ r[2] => Paid(g, h, n) /\ g.unused # <<>> /\ Head(g.unused) = h.table + 1
             /\ ~r[2] => /\ Paid(g, h, 0) /\ g.table = h.table
                         /\ g.refused \/ (g = h /\ checked /\ n > 0 /\ ~Fits(h, n))
  <1> DEFINE k == TableGrowth(h)
             n == k * TableEntry
             e == TableEntry
  <1>1. h \in Heaps /\ Good(h) /\ EmptyKept(h, {}) /\ Hold(h, {}) /\ Frugal(h, {}) /\ TableOk(h)
    BY DEF Settled, Good, Core
  <1>2. k \in Nat \ {0} /\ e \in Nat \ {0}
    BY <1>1, TableGrows, Sizing
  <1>3. n \in Int
    BY <1>2
  <1> HIDE DEF k
  <1>4. PICK q \in HostOutcomes(h, n, checked) :
            r = IF q[2] THEN <<Extended(q[1], k), TRUE>> ELSE q
    <2>1. PICK q \in HostOutcomes(h, n, checked) :
              r = IF q[2] THEN <<[q[1] EXCEPT !.unused = [i \in 1 .. k |-> h.table + i], !.table = @ + k], TRUE>>
                  ELSE q
      BY DEF GrowArenaTable, k
    <2>2. q[1] \in Heaps /\ q[1].table = h.table
      BY <1>1, <1>3, HostAnswers DEF SameLists
    <2> QED BY <2>1, <2>2 DEF Extended
  <1> HIDE DEF n
  <1> DEFINE f == q[1]
  <1>5. /\ f \in Heaps /\ q[2] \in BOOLEAN /\ SameLists(f, h)
        /\ f.maxHeap = h.maxHeap /\ f.cachedBytes = h.cachedBytes
    BY <1>1, <1>3, <1>4, HostAnswers
  <1>6. /\ q[2] => f.bytes = h.bytes + n
        /\ ~q[2] => f.bytes = h.bytes /\ (f.refused \/ (f = h /\ checked /\ n > 0 /\ ~Fits(h, n)))
    BY <1>1, <1>3, <1>4, HostAnswers
  <1> HIDE DEF f
  <1>7. /\ f.unused = <<>> /\ f.table = h.table /\ SameArenas(f, h) /\ f.active = h.active
        /\ f.pool = h.pool /\ f.used = h.used /\ f.usable = h.usable
    BY <1>5 DEF SameLists, SameArenas
  <1>8. Good(f) /\ EmptyKept(f, {}) /\ Hold(f, {}) /\ Frugal(f, {})
    BY <1>1, <1>5, SameListsKeep
  <1>9. h.bytes \in Int /\ h.table \in Nat /\ h.active \in Int /\ h.cachedBytes \in Int /\ ArenaSize \in Nat
    BY <1>1, Sizing DEF Heaps
  <1>10. CASE q[2]
    <2> DEFINE g == Extended(f, k)
    <2>1. r = <<g, TRUE>>
      BY <1>4, <1>10 DEF f
    <2>2. /\ g \in Heaps /\ SameArenas(g, f) /\ TableOk(g) /\ g.table = h.table + k
          /\ g.unused # <<>> /\ Head(g.unused) = h.table + 1
          /\ g.bytes = f.bytes /\ g.cachedBytes = f.cachedBytes /\ g.maxHeap = f.maxHeap
      <3>1. TableOk(f)
        BY <1>8 DEF Good, Core
      <3> QED BY <3>1, <1>2, <1>5, <1>7, ExtendedTable
    <2> HIDE DEF g
    <2>3. Settled(g)
      BY <2>2, <1>8, SameArenasKeep DEF Settled
    <2>4. Paid(g, h, n)
      BY <2>2, <1>5, <1>6, <1>7, <1>10 DEF Paid, SameArenas
    <2>5. Rest(g) = Rest(h)
      <3> DEFINE b == h.bytes
                 t == h.table
                 c == h.cachedBytes
                 A == h.active * ArenaSize
      <3>1. g.bytes = b + n /\ g.table = t + k /\ g.active = h.active /\ g.cachedBytes = c
        BY <2>2, <2>4 DEF Paid
      <3>2. b \in Int /\ t \in Nat /\ c \in Int /\ A \in Int
        BY <1>9
      <3> HIDE DEF b, t, c, A
      <3>3. (t + k) * e = t * e + k * e
        BY <3>2, <1>2
      <3>4. n = k * e /\ t * e \in Int /\ k * e \in Int
        BY <3>2, <1>2 DEF n
      <3> HIDE DEF e
      <3>5. (b + n) - (t + k) * e - A - c = b - t * e - A - c
        BY <3>2, <3>3, <3>4, <1>3
      <3> QED BY <3>1, <3>5 DEF Rest, b, t, c, A, e
    <2> QED BY <2>1, <2>2, <2>3, <2>4, <2>5 DEF n, k
  <1>11. CASE ~q[2]
    <2>1. r = q
      BY <1>4, <1>11
    <2>2. Settled(f)
      BY <1>8 DEF Settled
    <2>3. Rest(f) = Rest(h) /\ Paid(f, h, 0)
      BY <1>5, <1>6, <1>7, <1>9, <1>11 DEF Rest, Paid
    <2>4. r[1] = f /\ ~r[2] /\ r[2] \in BOOLEAN
      BY <2>1, <1>5, <1>11 DEF f
    <2>5. f.table = h.table /\ (f.refused \/ (f = h /\ checked /\ n > 0 /\ ~Fits(h, n)))
      BY <1>6, <1>7, <1>11
    <2> QED BY <2>2, <2>3, <2>4, <2>5 DEF n, k
  <1> QED BY <1>5, <1>10, <1>11

\* The arena of the first unused entry, with n pools.
Provided(h, b, n) ==
    [h EXCEPT !.unused = Tail(@), !.usable = <<b>>, !.active = @ + 1,
              !.arena[b] = [UnusedArena EXCEPT !.free = n, !.total = n]]

ProvidedTo(g, h, b, n) ==
    /\ g \in Heaps /\ g.unused = Tail(h.unused) /\ g.usable = <<b>> /\ g.active = h.active + 1
    /\ g.arena[b].free = n /\ g.arena[b].total = n /\ g.arena[b].kept = 0
    /\ g.arena[b].freePools = <<>> /\ g.arena[b].bump = 1
    /\ \A a \in Arenas : a # b => g.arena[a] = h.arena[a]
    /\ g.pool = h.pool /\ g.used = h.used /\ g.kept = h.kept /\ g.table = h.table
    /\ g.bytes = h.bytes /\ g.cachedBytes = h.cachedBytes /\ g.maxHeap = h.maxHeap

\* An arena taken from the host changes its entry and the lists of arenas.
LEMMA ProvidedFields ==
  ASSUME NEW h \in Heaps, h.unused # <<>>, NEW b \in Arenas, NEW n \in 0 .. ArenaPools
  PROVE  ProvidedTo(Provided(h, b, n), h, b, n)
  <1> DEFINE x == [UnusedArena EXCEPT !.free = n, !.total = n]
             A == [h.arena EXCEPT ![b] = x]
             s == Tail(h.unused)
             u == <<b>>
             m == h.active + 1
             g == [h EXCEPT !.unused = s, !.usable = u, !.active = m, !.arena = A]
  <1>1. /\ x \in ArenaShape /\ x.free = n /\ x.total = n /\ x.kept = 0 /\ x.freePools = <<>> /\ x.bump = 1
    <2>1. <<>> \in Seq(Pools) /\ 1 \in Nat \ {0} /\ 0 \in Int /\ n \in Int
      BY Sizing
    <2> QED BY <2>1 DEF UnusedArena, ArenaShape
  <1> HIDE DEF x
  <1>2. A \in [Arenas -> ArenaShape] /\ A[b] = x /\ \A a \in Arenas : a # b => A[a] = h.arena[a]
    BY <1>1 DEF Heaps
  <1>3. s \in Seq(Nat \ {0}) /\ u \in Seq(Arenas) /\ m \in Int
    <2> DEFINE o == h.unused
    <2>1. o \in Seq(Nat \ {0}) /\ o # <<>> /\ h.active \in Int
      BY DEF Heaps
    <2>2. Tail(o) \in Seq(Nat \ {0})
      <3> HIDE DEF o
      <3> QED BY <2>1, BehindFirst
    <2> QED BY <2>1, <2>2
  <1>4. Provided(h, b, n) = g
    BY DEF Provided, Heaps, x
  <1> HIDE DEF A, s, u, m
  <1>5. /\ g \in Heaps /\ g.arena = A /\ g.unused = s /\ g.usable = u /\ g.active = m
        /\ g.pool = h.pool /\ g.used = h.used /\ g.kept = h.kept /\ g.table = h.table
        /\ g.bytes = h.bytes /\ g.cachedBytes = h.cachedBytes /\ g.maxHeap = h.maxHeap
    BY <1>2, <1>3 DEF Heaps
  <1> HIDE DEF g
  <1> QED BY <1>1, <1>2, <1>4, <1>5 DEF ProvidedTo, s, u, m

\* An arena taken from the host keeps the invariant and is charged.
LEMMA ProvidedKeeps ==
  ASSUME NEW h, Settled(h), h.usable = <<>>, h.unused # <<>>, NEW b \in Arenas, b = Head(h.unused),
         NEW n \in {ArenaPools - 1, ArenaPools}, NEW g, ProvidedTo(g, h, b, n)
  PROVE  Good(g) /\ EmptyKept(g, {}) /\ Hold(g, {}) /\ Frugal(g, {b})
  <1>1. h \in Heaps /\ Core(h) /\ Good(h) /\ EmptyKept(h, {}) /\ Hold(h, {}) /\ Frugal(h, {}) /\ TableOk(h)
    BY DEF Settled, Good, Core
  <1>2. n \in 1 .. ArenaPools /\ ArenaPools \in Nat /\ n > 0
    BY Sizing
  <1>3. /\ g \in Heaps /\ g.unused = Tail(h.unused) /\ g.usable = <<b>> /\ g.active = h.active + 1
        /\ g.arena[b].free = n /\ g.arena[b].total = n /\ g.arena[b].kept = 0
        /\ g.arena[b].freePools = <<>> /\ g.arena[b].bump = 1
        /\ \A a \in Arenas : a # b => g.arena[a] = h.arena[a]
        /\ g.pool = h.pool /\ g.used = h.used /\ g.kept = h.kept /\ g.table = h.table
        /\ g.maxHeap = h.maxHeap
    BY DEF ProvidedTo
  <1>4. /\ b \in 1 .. h.table /\ b \notin Active(h)
        /\ Tail(h.unused) \in Seq(Nat \ {0}) /\ IsInjective(Tail(h.unused))
        /\ Range(Tail(h.unused)) = Range(h.unused) \ {b}
    <2> DEFINE s == h.unused
    <2>1. s \in Seq(Nat \ {0}) /\ s # <<>> /\ IsInjective(s) /\ b = Head(s)
      BY <1>1 DEF Heaps, TableOk
    <2>2. /\ b \in Range(s) /\ Tail(s) \in Seq(Nat \ {0}) /\ IsInjective(Tail(s)) /\ Range(Tail(s)) = Range(s) \ {b}
      <3> HIDE DEF s
      <3> QED BY <2>1, BehindFirst
    <2>3. b \in (1 .. h.table) \ Active(h)
      BY <2>2, <1>1 DEF TableOk
    <2> QED BY <2>2, <2>3
  <1>5. h.arena[b].total = 0 /\ h.arena[b].bump = 1 /\ h.arena[b].free = 0
    <2>1. h.arena[b].total \in Nat /\ h.arena[b].free \in Nat /\ h.arena[b].free <= h.arena[b].total
      BY <1>1, ArenaNumbers
    <2>2. h.arena[b].total = 0
      BY <2>1, <1>4 DEF Active
    <2>3. h.arena[b].bump \in Nat \ {0} /\ h.arena[b].bump <= h.arena[b].total + 1
      BY <1>1, ArenaTypes DEF Core, ArenaOk
    <2> QED BY <2>1, <2>2, <2>3
  <1>6. ASSUME NEW q \in Pools
        PROVE  (Carved(g, q) <=> Carved(h, q)) /\ (InUse(g, q) <=> InUse(h, q)) /\ (q[1] = b => ~InUse(h, q))
    <2>1. q[1] \in Arenas /\ q[2] \in Nat /\ q[2] >= 1
      BY Places, Sizing, SMTT(20)
    <2>2. CASE q[1] = b
      BY <2>1, <2>2, <1>3, <1>5 DEF Carved, InUse
    <2>3. CASE q[1] # b
      BY <2>1, <2>3, <1>3 DEF Carved, InUse
    <2> QED BY <2>2, <2>3
  <1>7. (\A a : KeptBy(g, a) = KeptBy(h, a)) /\ KeptBy(h, b) = {}
    <2>1. \A a : KeptBy(g, a) = KeptBy(h, a)
      BY <1>3 DEF KeptBy
    <2>2. ASSUME NEW c \in Classes, h.kept[c] # NoPool, h.kept[c][1] = b PROVE FALSE
      <3>1. InUse(h, h.kept[c]) /\ h.kept[c] \in Pools
        BY <2>2, <1>1 DEF Core, KeptOk, Heaps
      <3> QED BY <3>1, <2>2, <1>6
    <2> QED BY <2>1, <2>2 DEF KeptBy
  <1>8. ASSUME NEW a \in Arenas PROVE ArenaOk(g, a)
    <2>1. CASE a # b
      <3>1. g.arena[a] = h.arena[a] /\ KeptBy(g, a) = KeptBy(h, a) /\ ArenaOk(h, a)
        BY <2>1, <1>1, <1>3, <1>7 DEF Core
      <3> QED BY <3>1 DEF ArenaOk
    <2>2. CASE a = b
      <3>1. IsInjective(<<>>) /\ Range(<<>>) = {} /\ Len(<<>>) = 0
        BY DEF IsInjective, Range
      <3>2. Cardinality(KeptBy(g, b)) = 0
        BY <1>7, FS_EmptySet
      <3> QED BY <2>2, <3>1, <3>2, <1>2, <1>3 DEF ArenaOk
    <2> QED BY <2>1, <2>2
  <1>9. ASSUME NEW q \in Pools PROVE PoolOk(g, q)
    <2>1. g.pool[q] = h.pool[q] /\ PoolOk(h, q)
      BY <1>1, <1>3 DEF Core
    <2> QED BY <2>1, <1>6 DEF PoolOk
  <1>10. ASSUME NEW c \in Classes PROVE UsedOk(g, c) /\ KeptOk(g, c)
    <2>1. UsedOk(h, c) /\ KeptOk(h, c) /\ h.kept[c] \in Pools \cup {NoPool}
      BY <1>1 DEF Core, Heaps
    <2>2. UsedOk(g, c)
      BY <2>1, <1>3, <1>6 DEF UsedOk
    <2>3. KeptOk(g, c)
      BY <2>1, <1>3, <1>6 DEF KeptOk
    <2> QED BY <2>2, <2>3
  <1>11. TableOk(g)
    <2>1. Active(g) = Active(h) \cup {b}
      BY <1>2, <1>3, <1>4, ZenonT(30) DEF Active
    <2>2. IsFiniteSet(Active(h)) /\ h.active = Cardinality(Active(h))
      <3>1. IsFiniteSet(1 .. h.table) /\ Active(h) \subseteq 1 .. h.table
        <4>1. h.table \in Nat
          BY <1>1 DEF Heaps
        <4> QED BY <4>1, <1>1, FS_Interval DEF TableOk
      <3>2. IsFiniteSet(Active(h))
        BY <3>1, FS_Subset
      <3> QED BY <3>2, <1>1 DEF TableOk
    <2>3. Cardinality(Active(g)) = Cardinality(Active(h)) + 1
      BY <2>1, <2>2, <1>4, FS_AddElement
    <2>4. Range(g.unused) = (1 .. h.table) \ Active(g)
      BY <2>1, <1>1, <1>3, <1>4 DEF TableOk
    <2>5. Active(g) \subseteq 1 .. h.table
      BY <2>1, <1>1, <1>4 DEF TableOk
    <2> QED BY <2>2, <2>3, <2>4, <2>5, <1>3, <1>4 DEF TableOk
  <1>12. Core(g)
    BY <1>8, <1>9, <1>10, <1>11 DEF Core
  <1>13. \A a \in Arenas : h.arena[a].free = 0
    <2> SUFFICES ASSUME NEW a \in Arenas PROVE h.arena[a].free = 0
      OBVIOUS
    <2>1. a \notin Range(h.usable)
      BY DEF Range
    <2>2. ~(h.arena[a].free > 0)
      BY <2>1, <1>1 DEF Good, UsableOk, Listed
    <2>3. h.arena[a].free \in Nat
      BY <1>1, ArenaNumbers
    <2> QED BY <2>2, <2>3
  <1>14. UsableOk(g)
    <2>1. IsInjective(<<b>>) /\ Range(<<b>>) = {b} /\ DOMAIN <<b>> = {1}
      BY DEF IsInjective, Range
    <2>2. \A a \in Arenas : g.arena[a].free > 0 <=> a = b
      BY <1>2, <1>3, <1>13
    <2> QED BY <2>1, <2>2, <1>3 DEF UsableOk, Listed, Sorted
  <1>15. \A a \in Arenas : FreeArena(g, a) => a = b
    BY <1>2, <1>3, <1>13 DEF FreeArena
  <1>16. OneFree(g)
    <2>1. Last(<<b>>) = b
      BY DEF Last
    <2> QED BY <2>1, <1>3, <1>15 DEF OneFree, FreeLast
  <1>17. EmptyKept(g, {})
    BY <1>1, <1>3 DEF EmptyKept
  <1>18. Hold(g, {})
    BY <1>1, <1>3 DEF Hold
  <1>19. Frugal(g, {b})
    BY <1>1, <1>3, <1>15 DEF Frugal
  <1> QED BY <1>3, <1>12, <1>14, <1>16, <1>17, <1>18, <1>19 DEF Good

\* The heap h offers a pool of its first usable arena, which may be new.
Offers(h) ==
    /\ Good(h) /\ h.usable # <<>> /\ EmptyKept(h, {}) /\ Hold(h, {}) /\ Frugal(h, {Head(h.usable)})

\* What a request for an arena leaves of the heap h, met or refused.
Extends(g, h) ==
    /\ Rest(g) = Rest(h) /\ g.cachedBytes = h.cachedBytes /\ g.maxHeap = h.maxHeap
    /\ g.pool = h.pool /\ g.used = h.used

\* What the host may answer to a request for the memory of an arena.
LEMMA ArenaAnswers ==
  ASSUME NEW h, Settled(h), h.usable = <<>>, h.unused # <<>>, Head(h.unused) \in Arenas,
         NEW checked \in BOOLEAN, NEW r, r \in ArenaOutcomes(h, checked)
  PROVE  LET g == r[1]
         IN  /\ r[2] \in BOOLEAN /\ Extends(g, h) /\ g.table = h.table
             /\ r[2] => Offers(g) /\ g.bytes = h.bytes + ArenaSize
             /\ ~r[2] => /\ Settled(g) /\ g.bytes = h.bytes
                         /\ g.refused \/ (g = h /\ checked /\ ~Fits(h, ArenaSize))
  <1> DEFINE n == ArenaSize
             b == Head(h.unused)
  <1>1. h \in Heaps /\ Good(h) /\ EmptyKept(h, {}) /\ Hold(h, {}) /\ Frugal(h, {})
    BY DEF Settled, Good
  <1>2. n \in Nat \ {0} /\ n \in Int
    BY Sizing
  <1> HIDE DEF n
  <1>3. PICK q \in HostOutcomes(h, n, checked) :
            \/ q[2] /\ \E lost \in LostPools : r = <<LinkArena(q[1], ArenaPools - lost), TRUE>>
            \/ ~q[2] /\ r = q
    <2>1. PICK q \in HostOutcomes(h, n, checked) :
              r \in IF q[2] THEN {<<LinkArena(q[1], ArenaPools - lost), TRUE>> : lost \in LostPools} ELSE {q}
      BY DEF ArenaOutcomes, n
    <2> QED BY <2>1
  <1> DEFINE f == q[1]
  <1>4. /\ f \in Heaps /\ q[2] \in BOOLEAN /\ SameLists(f, h)
        /\ f.maxHeap = h.maxHeap /\ f.cachedBytes = h.cachedBytes
    BY <1>1, <1>2, <1>3, HostAnswers
  <1>5. /\ q[2] => f.bytes = h.bytes + n
        /\ ~q[2] => f.bytes = h.bytes /\ (f.refused \/ (f = h /\ checked /\ ~Fits(h, n)))
    BY <1>1, <1>2, <1>3, HostAnswers
  <1> HIDE DEF f
  <1>6. /\ f.unused = h.unused /\ f.usable = <<>> /\ f.table = h.table /\ f.active = h.active
        /\ f.pool = h.pool /\ f.used = h.used
    BY <1>4 DEF SameLists, SameArenas
  <1>7. Settled(f)
    BY <1>1, <1>4, SameListsKeep DEF Settled
  <1>8. h.bytes \in Int /\ h.table * TableEntry \in Int /\ h.active \in Int /\ h.cachedBytes \in Int
    BY <1>1, Sizing DEF Heaps
  <1>9. CASE q[2]
    <2>1. PICK lost \in LostPools : r = <<LinkArena(q[1], ArenaPools - lost), TRUE>>
      BY <1>3, <1>9
    <2> DEFINE m == ArenaPools - lost
               g == Provided(f, b, m)
    <2>2. m \in {ArenaPools - 1, ArenaPools} /\ m \in 0 .. ArenaPools
      BY Sizing
    <2>3. LinkArena(f, m) = g
      BY <1>6 DEF LinkArena, Provided
    <2> HIDE DEF m, g, b
    <2>4. ProvidedTo(g, f, b, m)
      BY <2>2, <1>4, <1>6, ProvidedFields DEF g, b
    <2>5. Good(g) /\ EmptyKept(g, {}) /\ Hold(g, {}) /\ Frugal(g, {b})
      BY <2>2, <2>4, <1>6, <1>7, ProvidedKeeps DEF b
    <2>6. /\ g.usable = <<b>> /\ g.active = h.active + 1 /\ g.table = h.table /\ g.bytes = h.bytes + n
          /\ g.cachedBytes = h.cachedBytes /\ g.maxHeap = h.maxHeap /\ g.pool = h.pool /\ g.used = h.used
      BY <2>4, <1>4, <1>5, <1>6, <1>9 DEF ProvidedTo
    <2>7. Offers(g)
      <3>1. <<b>> # <<>> /\ Head(<<b>>) = b
        OBVIOUS
      <3> QED BY <3>1, <2>5, <2>6 DEF Offers
    <2>8. Rest(g) = Rest(h)
      <3> DEFINE u == h.bytes
                 v == h.active
                 w == h.table * TableEntry
                 x == h.cachedBytes
      <3>1. u \in Int /\ v \in Int /\ w \in Int /\ x \in Int
        BY <1>8
      <3>2. Rest(h) = u - w - v * n - x /\ Rest(g) = (u + n) - w - (v + 1) * n - x
        BY <2>6 DEF Rest, n
      <3> HIDE DEF u, v, w, x
      <3>3. (v + 1) * n = v * n + n /\ v * n \in Int
        BY <3>1, <1>2
      <3>4. (u + n) - w - (v * n + n) - x = u - w - v * n - x
        BY <3>1, <3>3, <1>2
      <3> QED BY <3>2, <3>3, <3>4
    <2>9. Extends(g, h)
      BY <2>6, <2>8 DEF Extends
    <2>10. r[1] = g /\ r[2]
      BY <2>1, <2>3 DEF f, m
    <2> QED BY <2>6, <2>7, <2>9, <2>10 DEF n
  <1>10. CASE ~q[2]
    <2>1. r[1] = f /\ ~r[2] /\ r[2] \in BOOLEAN
      BY <1>3, <1>4, <1>10 DEF f
    <2>2. Extends(f, h)
      BY <1>4, <1>5, <1>6, <1>10 DEF Extends, Rest
    <2>3. f.bytes = h.bytes /\ (f.refused \/ (f = h /\ checked /\ ~Fits(h, ArenaSize)))
      BY <1>5, <1>10 DEF n
    <2> QED BY <2>1, <2>2, <2>3, <1>6, <1>7
  <1> QED BY <1>4, <1>9, <1>10

\* A growth that fits the budget fits it in two parts.
LEMMA FitsPart ==
  ASSUME NEW h \in Heaps, NEW m \in Nat, NEW n \in Nat, Fits(h, m + n),
         NEW f, f.bytes = h.bytes + n, f.maxHeap = h.maxHeap
  PROVE  Fits(f, m) /\ (h.maxHeap # 0 => f.bytes <= h.maxHeap /\ f.bytes + m <= h.maxHeap)
  <1> DEFINE b == h.bytes
             x == h.maxHeap
  <1>1. b \in Int /\ x \in Nat
    BY Sizing DEF Heaps
  <1>2. x = 0 \/ (b <= x /\ m + n <= x - b)
    BY DEF Fits
  <1>3. f.bytes = b + n /\ f.maxHeap = x
    OBVIOUS
  <1> HIDE DEF b, x
  <1>4. x = 0 \/ (b + n <= x /\ m <= x - (b + n) /\ (b + n) + m <= x)
    BY <1>1, <1>2
  <1> QED BY <1>3, <1>4 DEF Fits, b, x

\* tinypy_internal_pool_new_arena.
LEMMA NewArenaAnswers ==
  ASSUME NEW h, Settled(h), h.usable = <<>>,
         (IF h.unused # <<>> THEN Head(h.unused) ELSE h.table + 1) \in Arenas,
         NEW checked \in BOOLEAN, NEW r, r \in NewArena(h, checked)
  PROVE  LET g == r[1]
         IN  /\ r[2] \in BOOLEAN /\ Extends(g, h) /\ (h.unused # <<>> => g.table = h.table)
             /\ r[2] => Offers(g) /\ (checked /\ h.maxHeap # 0 => g.bytes <= h.maxHeap)
             /\ ~r[2] => /\ Settled(g) /\ (g.refused \/ (g = h /\ checked))
                         /\ checked /\ h.maxHeap # 0 => g.bytes <= h.bytes \/ g.bytes <= h.maxHeap
  <1> DEFINE g == r[1]
             n == TableGrowth(h) * TableEntry
  <1>1. h \in Heaps /\ h.bytes \in Int /\ h.maxHeap \in Int
    <2>1. h \in Heaps
      BY DEF Settled, Good
    <2>2. h.maxHeap \in Budgets /\ h.bytes \in Int
      BY <2>1 DEF Heaps
    <2>3. Budgets \subseteq Nat
      BY Sizing
    <2> HIDE DEF g, n
    <2>4. \A b \in Nat : b \in Int
      OBVIOUS
    <2>5. h.maxHeap \in Nat
      BY <2>2, <2>3, Zenon
    <2> QED BY <2>1, <2>2, <2>4, <2>5, Zenon
  <1>2. ArenaSize \in Nat /\ n \in Nat
    <2>1. TableGrowth(h) \in Nat
      BY <1>1, TableGrows
    <2>2. ArenaSize \in Nat /\ TableEntry \in Nat
      BY Sizing
    <2> QED BY <2>1, <2>2
  <1> HIDE DEF n
  <1>3. CASE checked /\ ~Fits(h, ArenaGrowth(h))
    <2>1. r = <<h, FALSE>>
      BY <1>3 DEF NewArena
    <2>2. Extends(h, h) /\ h.bytes <= h.bytes
      BY <1>1 DEF Extends
    <2> QED BY <2>1, <2>2, <1>3
  <1>4. CASE ~(checked /\ ~Fits(h, ArenaGrowth(h))) /\ h.unused # <<>>
    <2>1. r \in ArenaOutcomes(h, checked)
      BY <1>4 DEF NewArena
    <2>2. r[2] \in BOOLEAN /\ Extends(g, h) /\ g.table = h.table
      BY <2>1, <1>4, ArenaAnswers
    <2>3. r[2] => Offers(g) /\ g.bytes = h.bytes + ArenaSize
      BY <2>1, <1>4, ArenaAnswers
    <2>4. ~r[2] => Settled(g) /\ g.bytes = h.bytes /\ (g.refused \/ (g = h /\ checked))
      BY <2>1, <1>4, ArenaAnswers
    <2> HIDE DEF g
    <2>5. ASSUME checked, h.maxHeap # 0, r[2] PROVE g.bytes <= h.maxHeap
      <3>1. ArenaGrowth(h) = ArenaSize
        BY <1>2, <1>4 DEF ArenaGrowth
      <3>2. Fits(h, ArenaSize + 0)
        BY <3>1, <2>5, <1>2, <1>4
      <3>3. h.bytes = h.bytes + 0
        BY <1>1
      <3>4. h.bytes + ArenaSize <= h.maxHeap
        BY <3>2, <3>3, <2>5, <1>1, <1>2, FitsPart
      <3> QED BY <3>4, <2>3, <2>5
    <2>6. ~r[2] => g.bytes <= h.bytes
      BY <2>4, <1>1
    <2> QED BY <2>2, <2>3, <2>4, <2>5, <2>6 DEF g
  <1>5. CASE ~(checked /\ ~Fits(h, ArenaGrowth(h))) /\ h.unused = <<>>
    <2>1. PICK t \in GrowArenaTable(h, checked) :
              IF t[2] THEN r \in ArenaOutcomes(t[1], checked) ELSE r = t
      BY <1>5 DEF NewArena
    <2> DEFINE f == t[1]
    <2>2. /\ t[2] \in BOOLEAN /\ Settled(f) /\ Rest(f) = Rest(h)
          /\ t[2] => Paid(f, h, n) /\ f.unused # <<>> /\ Head(f.unused) = h.table + 1
      BY <2>1, <1>5, TableGrown DEF n
    <2>3. ~t[2] => /\ Paid(f, h, 0) /\ f.table = h.table
                   /\ f.refused \/ (f = h /\ checked)
      BY <2>1, <1>5, TableGrown
    <2> HIDE DEF f
    <2>4. CASE ~t[2]
      <3>1. r[1] = f /\ ~r[2] /\ r[2] \in BOOLEAN
        BY <2>1, <2>2, <2>4 DEF f
      <3>2. Extends(f, h) /\ f.bytes <= h.bytes
        BY <2>2, <2>3, <2>4, <1>1 DEF Paid, Extends
      <3> QED BY <3>1, <3>2, <2>2, <2>3, <2>4, <1>5
    <2>5. CASE t[2]
      <3>1. /\ f.bytes = h.bytes + n /\ f.maxHeap = h.maxHeap /\ f.cachedBytes = h.cachedBytes
            /\ f.pool = h.pool /\ f.used = h.used /\ f.usable = <<>> /\ f.unused # <<>>
            /\ Head(f.unused) \in Arenas /\ r \in ArenaOutcomes(f, checked)
        BY <2>1, <2>2, <2>5, <1>5 DEF Paid, f
      <3>2. r[2] \in BOOLEAN /\ Extends(g, f)
        BY <3>1, <2>2, ArenaAnswers
      <3>3. r[2] => Offers(g) /\ g.bytes = f.bytes + ArenaSize
        BY <3>1, <2>2, ArenaAnswers
      <3>4. ~r[2] => /\ Settled(g) /\ g.bytes = f.bytes
                     /\ g.refused \/ (g = f /\ checked /\ ~Fits(f, ArenaSize))
        BY <3>1, <2>2, ArenaAnswers
      <3> HIDE DEF g
      <3>5. Extends(g, h)
        BY <3>1, <3>2, <2>2 DEF Extends
      <3>6. checked => Fits(f, ArenaSize)
                       /\ (h.maxHeap # 0 => f.bytes <= h.maxHeap /\ f.bytes + ArenaSize <= h.maxHeap)
        <4> SUFFICES ASSUME checked
                     PROVE  Fits(f, ArenaSize)
                            /\ (h.maxHeap # 0 => f.bytes <= h.maxHeap /\ f.bytes + ArenaSize <= h.maxHeap)
          OBVIOUS
        <4>1. Fits(h, ArenaSize + n)
          BY <1>5 DEF ArenaGrowth, n
        <4> QED BY <4>1, <3>1, <1>1, <1>2, FitsPart
      <3> QED BY <3>2, <3>3, <3>4, <3>5, <3>6, <1>5 DEF g
    <2> QED BY <2>2, <2>4, <2>5
  <1> QED BY <1>3, <1>4, <1>5

\* What a met request leaves: a block more of p is out.
Gave(g, h, p, checked) ==
    /\ Settled(g) /\ p \in Pools /\ Counts(g, h, p, 1)
    /\ checked /\ h.maxHeap # 0 => g.bytes <= h.bytes \/ g.bytes <= h.maxHeap

\* What a refused one leaves: the blocks that are out, and the heap itself
\* unless the host refused.
Refused(g, h, checked) ==
    /\ Settled(g) /\ g.cachedBytes = h.cachedBytes /\ g.maxHeap = h.maxHeap /\ Rest(g) = Rest(h)
    /\ \A q \in Pools : g.pool[q].ref = h.pool[q].ref
    /\ g.refused \/ g = h
    /\ checked /\ h.maxHeap # 0 => g.bytes <= h.bytes \/ g.bytes <= h.maxHeap

\* tinypy_internal_pool_allocate of a small block.
LEMMA SmallAnswers ==
  ASSUME NEW h, Settled(h), NEW c \in Classes, NEW checked \in BOOLEAN,
         h.used[c] = <<>> /\ h.usable = <<>> =>
             (IF h.unused # <<>> THEN Head(h.unused) ELSE h.table + 1) \in Arenas,
         NEW r, r \in SmallOutcomes(h, c, checked)
  PROVE  /\ r[2] = NoPool => Refused(r[1], h, checked)
         /\ r[2] # NoPool => Gave(r[1], h, r[2], checked)
         /\ r[1].table # h.table => h.usable = <<>> /\ h.unused = <<>>
  <1>1. h \in Heaps /\ h.bytes \in Int /\ h.bytes <= h.bytes
    BY DEF Settled, Good, Heaps
  <1>2. CASE h.used[c] # <<>>
    <2> DEFINE p == Head(h.used[c])
               g == TakeFromUsed(h, p)
    <2>1. r = <<g, p>>
      BY <1>2 DEF SmallOutcomes
    <2>2. p \in Pools /\ p # NoPool /\ Settled(g) /\ Counts(g, h, p, 1) /\ g.table = h.table /\ g.bytes = h.bytes
      BY <1>2, TakeFromUsedKeeps
    <2> HIDE DEF g, p
    <2>3. Gave(g, h, p, checked)
      BY <2>2, <1>1 DEF Gave
    <2> QED BY <2>1, <2>2, <2>3
  <1>3. CASE h.used[c] = <<>>
    <2>1. PICK t \in (IF h.usable # <<>> THEN {<<h, TRUE>>} ELSE NewArena(h, checked)) :
              r = IF t[2] THEN <<TakeFromArena(t[1], c), FirstPool(t[1])>> ELSE <<t[1], NoPool>>
      BY <1>3 DEF SmallOutcomes
    <2> DEFINE f == t[1]
    <2>2. /\ t[2] \in BOOLEAN /\ Extends(f, h) /\ (f.table # h.table => h.usable = <<>> /\ h.unused = <<>>)
          /\ t[2] => Offers(f) /\ (checked /\ h.maxHeap # 0 => f.bytes <= h.bytes \/ f.bytes <= h.maxHeap)
          /\ ~t[2] => /\ Settled(f) /\ (f.refused \/ f = h)
                      /\ checked /\ h.maxHeap # 0 => f.bytes <= h.bytes \/ f.bytes <= h.maxHeap
      <3>1. CASE h.usable # <<>>
        <4>1. t = <<h, TRUE>>
          BY <2>1, <3>1
        <4>2. Offers(h)
          BY <3>1 DEF Settled, Offers, Frugal
        <4>3. Extends(h, h)
          BY DEF Extends
        <4> QED BY <4>1, <4>2, <4>3, <1>1
      <3>2. CASE h.usable = <<>>
        <4>1. t \in NewArena(h, checked)
          BY <2>1, <3>2
        <4>2. (IF h.unused # <<>> THEN Head(h.unused) ELSE h.table + 1) \in Arenas
          BY <3>2, <1>3
        <4>3. t[2] \in BOOLEAN /\ Extends(f, h) /\ (h.unused # <<>> => f.table = h.table)
          BY <4>1, <4>2, <3>2, NewArenaAnswers
        <4>4. t[2] => Offers(f) /\ (checked /\ h.maxHeap # 0 => f.bytes <= h.maxHeap)
          BY <4>1, <4>2, <3>2, NewArenaAnswers
        <4>5. ~t[2] => /\ Settled(f) /\ (f.refused \/ f = h)
                       /\ checked /\ h.maxHeap # 0 => f.bytes <= h.bytes \/ f.bytes <= h.maxHeap
          BY <4>1, <4>2, <3>2, NewArenaAnswers
        <4> HIDE DEF f
        <4> QED BY <4>3, <4>4, <4>5, <3>2
      <3> QED BY <3>1, <3>2
    <2> HIDE DEF f
    <2>3. CASE t[2]
      <3> DEFINE g == TakeFromArena(f, c)
                 p == FirstPool(f)
      <3>1. r = <<g, p>>
        BY <2>1, <2>3 DEF f
      <3>2. f.used[c] = <<>>
        BY <2>2, <1>3 DEF Extends
      <3>3. Settled(g) /\ p \in Pools /\ Counts(g, f, p, 1) /\ g.table = f.table /\ g.bytes = f.bytes
        BY <3>2, <2>2, <2>3, TakeFromArenaKeeps DEF Offers
      <3> HIDE DEF g, p
      <3>4. Counts(g, h, p, 1)
        BY <3>3, <2>2 DEF Counts, Extends
      <3>5. Gave(g, h, p, checked)
        BY <3>3, <3>4, <2>2, <2>3 DEF Gave
      <3>6. p # NoPool
        BY <3>3, Places
      <3> QED BY <3>1, <3>3, <3>5, <3>6, <2>2
    <2>4. CASE ~t[2]
      <3>1. r = <<f, NoPool>>
        BY <2>1, <2>4 DEF f
      <3>2. Refused(f, h, checked)
        BY <2>2, <2>4 DEF Refused, Extends
      <3> QED BY <3>1, <3>2, <2>2
    <2> QED BY <2>2, <2>3, <2>4
  <1> QED BY <1>2, <1>3

-----------------------------------------------------------------------------
(* Trimming.                                                               *)

\* A usable arena, given back if it is wholly free.
LEMMA ReleaseIfFreeKeeps ==
  ASSUME NEW h, Good(h), NEW a \in Arenas, h.arena[a].free > 0
  PROVE  LET g == ReleaseIfFree(h, a)
         IN  /\ Good(g) /\ Kin(g, h) /\ g.kept = h.kept /\ g.used = h.used
             /\ ~FreeArena(g, a) /\ \A b \in Arenas : b # a => g.arena[b] = h.arena[b]
  <1>1. h \in Heaps /\ Core(h) /\ UsableOk(h) /\ OneFree(h) /\ IsInjective(h.usable)
    BY DEF Good, UsableOk, Listed
  <1>2. CASE FreeArena(h, a)
    <2> DEFINE g == ReleaseArena(h, a)
    <2>1. ReleaseIfFree(h, a) = g
      BY <1>2 DEF ReleaseIfFree, FreeArena
    <2>2. a \in Range(h.usable)
      BY <1>1, <1>2 DEF UsableOk, Listed, FreeArena
    <2>3. /\ g \in Heaps /\ Core(g) /\ Kin(g, h)
          /\ g.kept = h.kept /\ g.used = h.used /\ g.usable = Unlinked(h.usable, a)
          /\ g.arena[a] = UnusedArena
          /\ \A b \in Arenas : b # a => g.arena[b] = h.arena[b]
      BY <2>2, <1>1, <1>2, ReleaseArenaKeepsCore
    <2> HIDE DEF g
    <2>4. Listed(h, {}) /\ Sorted(h, {a}) /\ FreeLast(h, {a})
      BY <1>1 DEF UsableOk, Sorted, OneFree, FreeLast
    <2>5. UsableOk(g) /\ OneFree(g)
      BY <2>2, <2>3, <2>4, <1>1, ListWithout
    <2>6. ~FreeArena(g, a)
      BY <2>3 DEF FreeArena, UnusedArena
    <2> QED BY <2>1, <2>3, <2>5, <2>6 DEF Good
  <1>3. CASE ~FreeArena(h, a)
    <2>1. h.arena[a].free # h.arena[a].total
      BY <1>3 DEF FreeArena
    <2>2. ReleaseIfFree(h, a) = h
      BY <2>1 DEF ReleaseIfFree
    <2>3. Kin(h, h)
      BY DEF Kin
    <2> QED BY <2>2, <2>3, <1>3
  <1> QED BY <1>2, <1>3

\* The loop over the usable arenas releases every wholly free one.
LEMMA ReleaseFreeArenasKeeps ==
  ASSUME NEW h, Good(h)
  PROVE  LET g == ReleaseFreeArenas(h)
         IN  /\ Good(g) /\ Kin(g, h) /\ g.kept = h.kept /\ g.used = h.used
             /\ \A a \in Arenas : ~FreeArena(g, a)
  <1> DEFINE u == h.usable
             n == Len(u)
             Step(f) == [i \in 0 .. n |-> IF i = 0 THEN h ELSE ReleaseIfFree(f[i - 1], u[i])]
             J(s, i) == /\ Good(s) /\ Kin(s, h) /\ s.kept = h.kept /\ s.used = h.used
                        /\ \A a \in Arenas : FreeArena(s, a) => FreeArena(h, a)
                        /\ \A j \in 1 .. i : ~FreeArena(s, u[j])
                        /\ \A j \in i + 1 .. n : s.arena[u[j]] = h.arena[u[j]]
  <1>1. /\ h \in Heaps /\ n \in Nat /\ u \in Seq(Arenas)
        /\ \A i \in 1 .. n : u[i] \in Arenas /\ h.arena[u[i]].free > 0
        /\ \A i, j \in 1 .. n : u[i] = u[j] => i = j
        /\ \A a \in Arenas : FreeArena(h, a) => \E i \in 1 .. n : u[i] = a
    <2>1. h \in Heaps /\ u \in Seq(Arenas) /\ IsInjective(u) /\ Range(u) = {a \in Arenas : h.arena[a].free > 0}
      BY DEF Good, Heaps, UsableOk, Listed
    <2> HIDE DEF u
    <2>2. n \in Nat /\ DOMAIN u = 1 .. n /\ \A x : x \in Range(u) <=> \E i \in 1 .. n : u[i] = x
      BY <2>1, RangeElements
    <2>3. \A a \in Arenas : FreeArena(h, a) => a \in Range(u)
      BY <2>1 DEF FreeArena
    <2>4. \A i, j \in 1 .. n : u[i] = u[j] => i = j
      BY <2>1, <2>2 DEF IsInjective
    <2>5. \A i \in 1 .. n : u[i] \in Arenas /\ h.arena[u[i]].free > 0
      BY <2>1, <2>2
    <2> QED BY <2>1, <2>2, <2>3, <2>4, <2>5
  <1> HIDE DEF u, n
  <1>2. J(h, 0)
    BY DEF Kin
  <1>3. ASSUME NEW i \in 1 .. n, NEW s, J(s, i - 1) PROVE J(ReleaseIfFree(s, u[i]), i)
    <2> DEFINE g == ReleaseIfFree(s, u[i])
    <2>1. u[i] \in Arenas /\ s.arena[u[i]].free > 0
      <3>1. i \in (i - 1) + 1 .. n
        BY <1>1
      <3> QED BY <3>1, <1>1, <1>3
    <2>2. /\ Good(g) /\ Kin(g, s) /\ g.kept = s.kept /\ g.used = s.used
          /\ ~FreeArena(g, u[i]) /\ \A b \in Arenas : b # u[i] => g.arena[b] = s.arena[b]
      BY <2>1, <1>3, ReleaseIfFreeKeeps
    <2> HIDE DEF g
    <2>3. Kin(g, h)
      BY <2>2, <1>3, KinChain
    <2>4. \A a \in Arenas : FreeArena(g, a) => FreeArena(h, a)
      <3> SUFFICES ASSUME NEW a \in Arenas, FreeArena(g, a) PROVE FreeArena(h, a)
        OBVIOUS
      <3>1. a # u[i]
        BY <2>2
      <3>2. FreeArena(s, a)
        BY <3>1, <2>2 DEF FreeArena
      <3> QED BY <3>2, <1>3
    <2>5. ASSUME NEW j \in 1 .. i PROVE ~FreeArena(g, u[j])
      <3>1. CASE j = i
        BY <3>1, <2>2
      <3>2. CASE j # i
        <4>1. j \in 1 .. i - 1 /\ j \in 1 .. n
          BY <3>2, <1>1
        <4>2. u[j] \in Arenas /\ u[j] # u[i] /\ ~FreeArena(s, u[j])
          BY <4>1, <3>2, <1>1, <1>3
        <4> QED BY <4>2, <2>2 DEF FreeArena
      <3> QED BY <3>1, <3>2
    <2>6. ASSUME NEW j \in i + 1 .. n PROVE g.arena[u[j]] = h.arena[u[j]]
      <3>1. j \in (i - 1) + 1 .. n /\ j \in 1 .. n /\ j # i
        BY <1>1
      <3>2. u[j] \in Arenas /\ u[j] # u[i] /\ s.arena[u[j]] = h.arena[u[j]]
        BY <3>1, <1>1, <1>3
      <3> QED BY <3>2, <2>2
    <2> QED BY <2>2, <2>3, <2>4, <2>5, <2>6, <1>3 DEF g
  <1> DEFINE after == CHOOSE f : f = Step(f)
  <1>4. after = Step(after)
    <2> DEFINE F == [x \in Heaps \X (1 .. n) |-> ReleaseIfFree(x[1], u[x[2]])]
               K == {x \in Heaps \X (0 .. n) : J(x[1], x[2])}
    <2>1. <<h, 0>> \in K
      BY <1>1, <1>2 DEF Good
    <2>2. ASSUME NEW i \in 1 .. n, NEW s, <<s, i - 1>> \in K
          PROVE  F[<<s, i>>] = ReleaseIfFree(s, u[i]) /\ <<F[<<s, i>>], i>> \in K
      <3>1. s \in Heaps /\ J(s, i - 1)
        BY <2>2
      <3>2. F[<<s, i>>] = ReleaseIfFree(s, u[i])
        BY <3>1
      <3>3. J(ReleaseIfFree(s, u[i]), i)
        BY <3>1, <1>3
      <3>4. ReleaseIfFree(s, u[i]) \in Heaps
        BY <3>3 DEF Good
      <3> HIDE DEF J, F
      <3> QED BY <3>2, <3>3, <3>4, <1>1
    <2> HIDE DEF F, K
    <2>3. PICK G : LoopRun(G, n, K, h, F)
      <3>1. \A i \in 1 .. n : \A s : <<s, i - 1>> \in K => <<F[<<s, i>>], i>> \in K
        BY <2>2
      <3> QED BY <1>1, <2>1, <3>1, LoopRuns
    <2>4. G = Step(G)
      <3>1. \A i \in 0 .. n : i # 0 => F[<<G[i - 1], i>>] = ReleaseIfFree(G[i - 1], u[i])
        <4> SUFFICES ASSUME NEW i \in 1 .. n PROVE F[<<G[i - 1], i>>] = ReleaseIfFree(G[i - 1], u[i])
          BY <1>1
        <4>1. i - 1 \in 0 .. n
          BY <1>1
        <4> QED BY <4>1, <2>2, <2>3 DEF LoopRun
      <3>2. [i \in 0 .. n |-> IF i = 0 THEN h ELSE F[<<G[i - 1], i>>]]
              = [i \in 0 .. n |-> IF i = 0 THEN h ELSE ReleaseIfFree(G[i - 1], u[i])]
        BY <3>1
      <3> QED BY <3>2, <2>3 DEF LoopRun
    <2> HIDE DEF Step
    <2> QED BY <2>4, Zenon
  <1>5. ReleaseFreeArenas(h) = after[n]
    BY Zenon DEF ReleaseFreeArenas, u, n
  <1> HIDE DEF after
  <1> DEFINE S == {i \in 0 .. n : J(after[i], i)}
  <1>6. 0 \in S
    <2>1. after[0] = h
      BY <1>1, <1>4
    <2> HIDE DEF J
    <2> QED BY <2>1, <1>1, <1>2
  <1>7. \A i \in 1 .. n : i - 1 \in S => i \in S
    <2> SUFFICES ASSUME NEW i \in 1 .. n, i - 1 \in S PROVE i \in S
      OBVIOUS
    <2>1. after[i] = ReleaseIfFree(after[i - 1], u[i])
      BY <1>1, <1>4
    <2>2. J(after[i - 1], i - 1)
      OBVIOUS
    <2> HIDE DEF J
    <2>3. J(after[i], i)
      BY <2>1, <2>2, <1>3
    <2> QED BY <2>3, <1>1
  <1>8. n \in S
    <2> HIDE DEF S
    <2>1. 0 .. n \subseteq S
      BY <1>1, <1>6, <1>7, UpTo
    <2>2. n \in 0 .. n
      BY <1>1
    <2> QED BY <2>1, <2>2
  <1> HIDE DEF J
  <1>9. J(after[n], n)
    BY <1>8
  <1> DEFINE g == after[n]
  <1>10. \A a \in Arenas : ~FreeArena(g, a)
    <2> SUFFICES ASSUME NEW a \in Arenas, FreeArena(g, a) PROVE FALSE
      OBVIOUS
    <2>1. PICK i \in 1 .. n : u[i] = a
      BY <1>1, <1>9 DEF J
    <2> QED BY <2>1, <1>9 DEF J
  <1>11. Good(g) /\ Kin(g, h) /\ g.kept = h.kept /\ g.used = h.used
    BY <1>9 DEF J
  <1> HIDE DEF g
  <1> QED BY <1>5, <1>10, <1>11 DEF g

\* tinypy_internal_pool_trim.  g is h without its kept pools, wholly free
\* arenas and cached transient allocations.
Trimmed(g, h) ==
    /\ Settled(g) /\ (\A c \in Classes : g.kept[c] = NoPool) /\ (\A a \in Arenas : ~FreeArena(g, a))
    /\ g.cachedBytes = 0 /\ Rest(g) = Rest(h) /\ g.table = h.table
    /\ g.refused = h.refused /\ g.maxHeap = h.maxHeap
    /\ \A p \in Pools : g.pool[p].ref = h.pool[p].ref

\* Trimming settles a consistent heap, whatever its budget was before.
LEMMA TrimKeeps ==
  ASSUME NEW h, Good(h), EmptyKept(h, {})
  PROVE  Trimmed(Trim(h), h)
  <1> DEFINE b == h.bytes - h.cachedBytes
             x == [h EXCEPT !.bytes = b, !.cachedBytes = 0]
             y == DropKeptPools(x, Arenas)
             g == ReleaseFreeArenas(y)
  <1>1. h \in Heaps /\ b \in Int /\ h.bytes \in Int /\ h.cachedBytes \in Int /\ h.table \in Nat /\ h.active \in Int
    BY DEF Good, Heaps
  <1>2. Trim(h) = g
    <2>1. [h EXCEPT !.bytes = @ - h.cachedBytes, !.cachedBytes = 0] = x
      BY <1>1 DEF Heaps
    <2> HIDE DEF x
    <2> QED BY <2>1 DEF Trim
  <1>3. /\ x \in Heaps /\ SameLists(x, h) /\ x.bytes = b /\ x.cachedBytes = 0
        /\ x.maxHeap = h.maxHeap /\ x.refused = h.refused
    <2> DEFINE z == 0
               f == [h EXCEPT !.bytes = b, !.cachedBytes = z]
    <2>1. z \in Int
      OBVIOUS
    <2>2. x = f
      OBVIOUS
    <2> HIDE DEF b, x, z
    <2>3. f \in Heaps /\ f.bytes = b /\ f.cachedBytes = z /\ f.maxHeap = h.maxHeap /\ f.refused = h.refused
      BY <2>1, <1>1 DEF Heaps
    <2>4. SameLists(f, h)
      BY <2>1, <1>1 DEF Heaps, SameLists, SameArenas
    <2> QED BY <2>2, <2>3, <2>4 DEF z
  <1> HIDE DEF x
  <1>4. Good(x) /\ EmptyKept(x, {})
    BY <1>3, SameListsKeep
  <1>5. Rest(x) = Rest(h)
    <2> DEFINE t == h.table * TableEntry
               a == h.active * ArenaSize
               m == h.bytes
               n == h.cachedBytes
    <2>1. t \in Int /\ a \in Int /\ m \in Int /\ n \in Int
      BY <1>1, Sizing
    <2>2. Rest(x) = (m - n) - t - a - 0 /\ Rest(h) = m - t - a - n
      BY <1>3 DEF Rest, SameLists, SameArenas
    <2> HIDE DEF t, a, m, n
    <2>3. (m - n) - t - a - 0 = m - t - a - n
      BY <2>1
    <2> QED BY <2>2, <2>3
  <1>6. Good(y) /\ Fewer(y, x) /\ \A c \in Classes : y.kept[c] # NoPool => y.kept[c][1] \notin Arenas
    BY <1>4, DropKeptPoolsKeeps
  <1> HIDE DEF y
  <1>7. \A c \in Classes : y.kept[c] = NoPool
    <2> SUFFICES ASSUME NEW c \in Classes, y.kept[c] # NoPool PROVE FALSE
      OBVIOUS
    <2>1. y.kept[c] \in Pools
      BY <1>6 DEF Good, Heaps
    <2> QED BY <2>1, <1>6, Places
  <1>8. EmptyKept(y, {})
    <2>1. \A d \in Classes : \A q \in Range(y.used[d]) :
            q \in Range(x.used[d]) /\ (y.pool[q].ref = 0 /\ x.kept[d] = q => y.kept[d] = q)
      BY <1>6 DEF Fewer
    <2>2. \A p \in Pools : y.pool[p].ref = x.pool[p].ref
      BY <1>6 DEF Fewer, Kin
    <2> SUFFICES ASSUME NEW d \in Classes, NEW q \in Range(y.used[d]), y.pool[q].ref = 0
                 PROVE  y.kept[d] = q
      BY DEF EmptyKept
    <2>3. q \in Pools
      <3>1. y.used[d] \in Seq(Pools)
        BY <1>6 DEF Good, Heaps
      <3> QED BY <3>1, RangeElements
    <2>4. x.kept[d] = q
      BY <2>1, <2>2, <2>3, <1>4 DEF EmptyKept
    <2> QED BY <2>1, <2>4
  <1>9. /\ Good(g) /\ Kin(g, y) /\ g.kept = y.kept /\ g.used = y.used
        /\ \A a \in Arenas : ~FreeArena(g, a)
    BY <1>6, ReleaseFreeArenasKeeps
  <1> HIDE DEF g
  <1>10. EmptyKept(g, {})
    <2> SUFFICES ASSUME NEW d \in Classes, NEW q \in Range(g.used[d]), g.pool[q].ref = 0
                 PROVE  g.kept[d] = q
      BY DEF EmptyKept
    <2>1. q \in Pools
      <3>1. g.used[d] \in Seq(Pools)
        BY <1>9 DEF Good, Heaps
      <3> QED BY <3>1, RangeElements
    <2> QED BY <2>1, <1>8, <1>9 DEF EmptyKept, Kin
  <1>11. Hold(g, {})
    <2> SUFFICES ASSUME NEW a \in Arenas PROVE ~(g.arena[a].kept > 0)
      BY DEF Hold
    <2>1. KeptBy(g, a) = {}
      BY <1>7, <1>9 DEF KeptBy
    <2>2. g.arena[a].kept = Cardinality(KeptBy(g, a))
      BY <1>9 DEF Good, Core, ArenaOk
    <2> QED BY <2>1, <2>2, FS_EmptySet
  <1>12. Frugal(g, {})
    BY <1>7, <1>9 DEF Frugal
  <1>13. Kin(g, x)
    BY <1>6, <1>9, KinChain DEF Fewer
  <1>14. Trimmed(g, h)
    <2>1. \A p \in Pools : g.pool[p].ref = h.pool[p].ref
      BY <1>3, <1>13 DEF Kin, SameLists, SameArenas
    <2>2. /\ g.cachedBytes = 0 /\ Rest(g) = Rest(h) /\ g.table = h.table
          /\ g.refused = h.refused /\ g.maxHeap = h.maxHeap
      BY <1>3, <1>5, <1>13 DEF Kin, SameLists
    <2>3. Settled(g)
      BY <1>9, <1>10, <1>11, <1>12 DEF Settled
    <2> QED BY <2>1, <2>2, <2>3, <1>7, <1>9 DEF Trimmed
  <1> QED BY <1>2, <1>14

-----------------------------------------------------------------------------
(* The allocator and what its callers hold.                                *)

\* The bytes of the direct blocks callers hold.
Weights(big) == [s \in LargeSizes |-> s * big[s]]
Direct(big)  == FoldFunctionOnSet(+, 0, Weights(big), LargeSizes)

CacheOk(h) == \E k \in Nat : h.cachedBytes = k * TransientSize

\* The heap h serves callers that hold the blocks small and big.
Serves(h, small, big) ==
    /\ Settled(h) /\ small \in [Pools -> Nat] /\ big \in [LargeSizes -> Nat]
    /\ \A p \in Pools : h.pool[p].ref = small[p]
    /\ CacheOk(h) /\ Rest(h) = VmSize + Direct(big)

\* The sizes of direct blocks are finitely many positive numbers.
LEMMA LargeSet ==
  /\ IsFiniteSet(LargeSizes) /\ LargeSizes \subseteq Nat \ {0} /\ TransientSize \in LargeSizes
  /\ \A m \in Budgets : \A s \in Sizes[m] :
        s \in Nat \ {0} /\ (s > SmallRequest => s \in LargeSizes)
  <1> DEFINE U == UNION Range(Sizes)
             L == {r \in U : r > SmallRequest}
  <1>1. /\ IsFiniteSet(U) /\ Sizes \in [Budgets -> SUBSET (Nat \ {0})] /\ TransientSize \in Nat \ {0}
    BY PoolAssumption
  <1>2. \A m \in Budgets : \A s \in Sizes[m] : s \in U /\ s \in Nat \ {0}
    BY <1>1 DEF Range
  <1>3. U \subseteq Nat \ {0}
    BY <1>1 DEF Range
  <1> HIDE DEF U
  <1>4. L \subseteq U
    OBVIOUS
  <1>5. IsFiniteSet(L \cup {TransientSize})
    BY <1>1, <1>4, FS_Subset, FS_AddElement
  <1>6. LargeSizes = L \cup {TransientSize}
    BY DEF LargeSizes, U
  <1> QED BY <1>1, <1>2, <1>3, <1>5, <1>6

\* A direct block more or less changes the sum by its size.
LEMMA DirectChanges ==
  ASSUME NEW big \in [LargeSizes -> Nat], NEW s \in LargeSizes, NEW d \in Int, big[s] + d \in Nat
  PROVE  LET b == [big EXCEPT ![s] = @ + d]
         IN  b \in [LargeSizes -> Nat] /\ Direct(b) = Direct(big) + d * s /\ Direct(big) \in Int
  <1> DEFINE b == [big EXCEPT ![s] = @ + d]
             f == Weights(big)
             g == Weights(b)
  <1>1. IsFiniteSet(LargeSizes) /\ \A x \in LargeSizes : x \in Nat
    BY LargeSet
  <1>2. b \in [LargeSizes -> Nat] /\ b[s] = big[s] + d /\ \A x \in LargeSizes : x # s => b[x] = big[x]
    OBVIOUS
  <1> HIDE DEF b
  <1>3. \A x \in LargeSizes : f[x] = x * big[x] /\ g[x] = x * b[x] /\ f[x] \in Int /\ g[x] \in Int
    BY <1>1, <1>2 DEF Weights
  <1>4. f \in [LargeSizes -> Int] /\ g \in [LargeSizes -> Int]
    <2>1. \A x \in LargeSizes : x * big[x] \in Int /\ x * b[x] \in Int
      BY <1>1, <1>2
    <2> QED BY <2>1 DEF Weights
  <1>5. \A x \in LargeSizes : x # s => g[x] = f[x]
    BY <1>2, <1>3
  <1> HIDE DEF f, g
  <1>6. SumOf(g, LargeSizes) = SumOf(f, LargeSizes) + (g[s] - f[s]) /\ SumOf(f, LargeSizes) \in Int
    BY <1>1, <1>4, <1>5, SumChanges
  <1>7. g[s] - f[s] = d * s
    <2> DEFINE k == big[s]
    <2>1. g[s] = s * (k + d) /\ f[s] = s * k /\ s \in Int /\ k \in Int
      BY <1>1, <1>2, <1>3
    <2> HIDE DEF k
    <2>2. s * (k + d) = s * k + d * s
      BY <2>1
    <2> QED BY <2>1, <2>2
  <1>8. Direct(b) = SumOf(g, LargeSizes) /\ Direct(big) = SumOf(f, LargeSizes)
    BY DEF Direct, SumOf, f, g
  <1> QED BY <1>2, <1>6, <1>7, <1>8 DEF b

\* The bytes of direct blocks are natural, and none when none is held.
LEMMA DirectNatural ==
  ASSUME NEW big \in [LargeSizes -> Nat]
  PROVE  Direct(big) \in Nat /\ ((\A s \in LargeSizes : big[s] = 0) => Direct(big) = 0)
  <1> DEFINE f == Weights(big)
  <1>1. IsFiniteSet(LargeSizes) /\ \A x \in LargeSizes : x \in Nat
    BY LargeSet
  <1>2. \A x \in LargeSizes : x * big[x] \in Nat /\ f[x] = x * big[x]
    BY <1>1 DEF Weights
  <1>3. f \in [LargeSizes -> Nat]
    BY <1>2 DEF Weights
  <1>4. (\A s \in LargeSizes : big[s] = 0) => \A s \in LargeSizes : f[s] = 0
    BY <1>1, <1>2
  <1> HIDE DEF f
  <1>5. SumOf(f, LargeSizes) \in Nat /\ ((\A x \in LargeSizes : f[x] = 0) => SumOf(f, LargeSizes) = 0)
    BY <1>1, <1>3, SumNatural
  <1>6. Direct(big) = SumOf(f, LargeSizes)
    BY DEF Direct, SumOf, f
  <1> QED BY <1>4, <1>5, <1>6

\* A settled heap with the same blocks and bytes serves the same callers.
LEMMA ServesStill ==
  ASSUME NEW h, NEW small, NEW big, Serves(h, small, big), NEW g, Settled(g), CacheOk(g), Rest(g) = Rest(h),
         \A p \in Pools : g.pool[p].ref = h.pool[p].ref
  PROVE  Serves(g, small, big)
  BY DEF Serves

\* A met request serves a caller that holds one block more.
LEMMA ServesGave ==
  ASSUME NEW h, NEW small, NEW big, Serves(h, small, big), NEW g, NEW p, NEW checked, Gave(g, h, p, checked)
  PROVE  Serves(g, [small EXCEPT ![p] = @ + 1], big)
  <1> DEFINE l == [small EXCEPT ![p] = @ + 1]
  <1>1. /\ Settled(h) /\ small \in [Pools -> Nat] /\ big \in [LargeSizes -> Nat]
        /\ \A q \in Pools : h.pool[q].ref = small[q]
        /\ CacheOk(h) /\ Rest(h) = VmSize + Direct(big)
    BY DEF Serves
  <1>2. Settled(g) /\ p \in Pools /\ g.cachedBytes = h.cachedBytes /\ Rest(g) = Rest(h)
    BY DEF Gave, Counts
  <1>3. \A q \in Pools : g.pool[q].ref = IF q = p THEN h.pool[q].ref + 1 ELSE h.pool[q].ref
    BY DEF Gave, Counts
  <1>4. l \in [Pools -> Nat] /\ \A q \in Pools : l[q] = IF q = p THEN small[q] + 1 ELSE small[q]
    BY <1>1, <1>2
  <1>5. \A q \in Pools : g.pool[q].ref = l[q]
    BY <1>1, <1>3, <1>4
  <1>6. CacheOk(g)
    BY <1>1, <1>2 DEF CacheOk
  <1> HIDE DEF l
  <1>7. Serves(g, l, big)
    BY <1>1, <1>2, <1>4, <1>5, <1>6 DEF Serves
  <1> QED BY <1>7 DEF l

\* tinypy_internal_pool_deallocate of a small block serves what is left.
LEMMA ServesFreed ==
  ASSUME NEW h, NEW small, NEW big, Serves(h, small, big), NEW p \in Pools, small[p] > 0
  PROVE  Serves(FreeSmall(h, p), [small EXCEPT ![p] = @ - 1], big) /\ FreeSmall(h, p).table = h.table
  <1> DEFINE l == [small EXCEPT ![p] = @ - 1]
             g == FreeSmall(h, p)
  <1>1. /\ Settled(h) /\ small \in [Pools -> Nat] /\ big \in [LargeSizes -> Nat]
        /\ \A q \in Pools : h.pool[q].ref = small[q]
        /\ CacheOk(h) /\ Rest(h) = VmSize + Direct(big)
    BY DEF Serves
  <1>2. h.pool[p].ref # 0
    BY <1>1
  <1>3. Settled(g) /\ Counts(g, h, p, -1) /\ g.table = h.table
    BY <1>1, <1>2, FreeSmallKeeps
  <1> HIDE DEF g
  <1>4. l \in [Pools -> Nat] /\ \A q \in Pools : l[q] = IF q = p THEN small[q] - 1 ELSE small[q]
    BY <1>1
  <1>5. \A q \in Pools : g.pool[q].ref = IF q = p THEN h.pool[q].ref + (-1) ELSE h.pool[q].ref
    BY <1>3 DEF Counts
  <1>6. \A q \in Pools : g.pool[q].ref = l[q]
    <2> SUFFICES ASSUME NEW q \in Pools PROVE g.pool[q].ref = l[q]
      OBVIOUS
    <2>1. small[q] \in Int /\ h.pool[q].ref = small[q] /\ small[q] + (-1) = small[q] - 1
      BY <1>1
    <2> QED BY <2>1, <1>4, <1>5
  <1>7. CacheOk(g) /\ Rest(g) = Rest(h)
    BY <1>1, <1>3 DEF CacheOk, Counts
  <1> HIDE DEF l
  <1>8. Serves(g, l, big)
    BY <1>1, <1>3, <1>4, <1>6, <1>7 DEF Serves
  <1> QED BY <1>3, <1>8 DEF g, l

\* A direct block given or taken: only numbers of the heap change.
LEMMA ServesDirect ==
  ASSUME NEW h, NEW small, NEW big, Serves(h, small, big), NEW s \in LargeSizes, NEW d \in Int, big[s] + d \in Nat,
         NEW g \in Heaps, SameLists(g, h), g.maxHeap = h.maxHeap, CacheOk(g), Rest(g) = Rest(h) + d * s
  PROVE  Serves(g, small, [big EXCEPT ![s] = @ + d])
  <1> DEFINE b == [big EXCEPT ![s] = @ + d]
  <1>1. /\ Settled(h) /\ small \in [Pools -> Nat] /\ big \in [LargeSizes -> Nat]
        /\ \A q \in Pools : h.pool[q].ref = small[q]
        /\ Rest(h) = VmSize + Direct(big)
    BY DEF Serves
  <1>2. b \in [LargeSizes -> Nat] /\ Direct(b) = Direct(big) + d * s /\ Direct(big) \in Int
    BY <1>1, DirectChanges
  <1> HIDE DEF b
  <1>3. Settled(g)
    BY <1>1, SameListsKeep DEF Settled
  <1>4. Rest(g) = VmSize + Direct(b)
    <2>1. VmSize \in Int /\ s \in Int
      BY Sizing, LargeSet
    <2>2. d * s \in Int
      BY <2>1
    <2> QED BY <2>1, <2>2, <1>1, <1>2
  <1>5. \A q \in Pools : g.pool[q].ref = small[q]
    BY <1>1 DEF SameLists, SameArenas
  <1>6. Serves(g, small, b)
    BY <1>1, <1>2, <1>3, <1>4, <1>5 DEF Serves
  <1> QED BY <1>6 DEF b

\* Charging fewer bytes changes the accounting only.
LEMMA BytesFields ==
  ASSUME NEW h \in Heaps, NEW n \in Int
  PROVE  LET g == [h EXCEPT !.bytes = @ - n]
         IN  /\ g \in Heaps /\ SameLists(g, h) /\ g.maxHeap = h.maxHeap /\ g.cachedBytes = h.cachedBytes
             /\ g.refused = h.refused /\ g.bytes = h.bytes - n /\ Rest(g) = Rest(h) - n
  <1> DEFINE b == h.bytes - n
             g == [h EXCEPT !.bytes = b]
  <1>1. b \in Int /\ h.bytes \in Int /\ h.table \in Nat /\ h.active \in Int /\ h.cachedBytes \in Int
    BY DEF Heaps
  <1>2. [h EXCEPT !.bytes = @ - n] = g
    BY DEF Heaps
  <1> HIDE DEF b
  <1>3. /\ g \in Heaps /\ SameLists(g, h) /\ g.maxHeap = h.maxHeap /\ g.cachedBytes = h.cachedBytes
        /\ g.refused = h.refused /\ g.bytes = b
    BY <1>1 DEF Heaps, SameLists, SameArenas
  <1> HIDE DEF g
  <1>4. Rest(g) = Rest(h) - n
    <2> DEFINE t == h.table * TableEntry
               a == h.active * ArenaSize
               m == h.bytes
               c == h.cachedBytes
    <2>1. t \in Int /\ a \in Int /\ m \in Int /\ c \in Int
      BY <1>1, Sizing
    <2>2. Rest(g) = (m - n) - t - a - c /\ Rest(h) = m - t - a - c
      BY <1>3 DEF Rest, SameLists, SameArenas, b
    <2> HIDE DEF t, a, m, c
    <2>3. (m - n) - t - a - c = (m - t - a - c) - n
      BY <2>1
    <2> QED BY <2>2, <2>3
  <1> QED BY <1>2, <1>3, <1>4 DEF b

\* A change of the cached bytes changes the accounting only.
LEMMA CacheFields ==
  ASSUME NEW h \in Heaps, NEW n \in Int
  PROVE  LET g == [h EXCEPT !.cachedBytes = @ + n]
         IN  /\ g \in Heaps /\ SameLists(g, h) /\ g.maxHeap = h.maxHeap /\ g.cachedBytes = h.cachedBytes + n
             /\ g.bytes = h.bytes /\ g.refused = h.refused /\ Rest(g) = Rest(h) - n
  <1> DEFINE b == h.cachedBytes + n
             g == [h EXCEPT !.cachedBytes = b]
  <1>1. b \in Int /\ h.bytes \in Int /\ h.table \in Nat /\ h.active \in Int /\ h.cachedBytes \in Int
    BY DEF Heaps
  <1>2. [h EXCEPT !.cachedBytes = @ + n] = g
    BY DEF Heaps
  <1> HIDE DEF b
  <1>3. /\ g \in Heaps /\ SameLists(g, h) /\ g.maxHeap = h.maxHeap /\ g.cachedBytes = b
        /\ g.refused = h.refused /\ g.bytes = h.bytes
    BY <1>1 DEF Heaps, SameLists, SameArenas
  <1> HIDE DEF g
  <1>4. Rest(g) = Rest(h) - n
    <2> DEFINE t == h.table * TableEntry
               a == h.active * ArenaSize
               m == h.bytes
               c == h.cachedBytes
    <2>1. t \in Int /\ a \in Int /\ m \in Int /\ c \in Int
      BY <1>1, Sizing
    <2>2. Rest(g) = m - t - a - (c + n) /\ Rest(h) = m - t - a - c
      BY <1>3 DEF Rest, SameLists, SameArenas, b
    <2> HIDE DEF t, a, m, c
    <2>3. m - t - a - (c + n) = (m - t - a - c) - n
      BY <2>1
    <2> QED BY <2>2, <2>3
  <1> QED BY <1>2, <1>3, <1>4 DEF b

\* The allocator before its first and after its last request.
LEMMA EmptiedFields ==
  ASSUME NEW b \in Int, NEW r \in BOOLEAN, NEW m \in Budgets
  PROVE  LET g == Emptied(b, r, m)
         IN  /\ g \in Heaps /\ g.unused = <<>> /\ g.usable = <<>> /\ g.table = 0 /\ g.active = 0
             /\ g.cachedBytes = 0 /\ g.bytes = b /\ g.refused = r /\ g.maxHeap = m
             /\ \A a \in Arenas : g.arena[a] = UnusedArena
             /\ \A p \in Pools : g.pool[p] = RawPool
             /\ \A c \in Classes : g.used[c] = <<>> /\ g.kept[c] = NoPool
  <1> DEFINE A == [a \in Arenas |-> UnusedArena]
             P == [p \in Pools |-> RawPool]
             U == [c \in Classes |-> <<>>]
             K == [c \in Classes |-> NoPool]
             z == 0
             g == [arena |-> A, pool |-> P, used |-> U, kept |-> K, unused |-> <<>>, usable |-> <<>>,
                   table |-> z, active |-> z, cachedBytes |-> z, bytes |-> b, refused |-> r, maxHeap |-> m]
  <1>1. UnusedArena \in ArenaShape /\ RawPool \in PoolShape
    <2>1. <<>> \in Seq(Pools) /\ 1 \in Nat \ {0} /\ 0 \in Int /\ 0 \in 0 .. ArenaPools
      BY Sizing
    <2> QED BY <2>1 DEF UnusedArena, ArenaShape, RawPool, PoolShape
  <1>2. /\ A \in [Arenas -> ArenaShape] /\ P \in [Pools -> PoolShape]
        /\ U \in [Classes -> Seq(Pools)] /\ K \in [Classes -> Pools \cup {NoPool}]
    BY <1>1
  <1>3. /\ \A a \in Arenas : A[a] = UnusedArena
        /\ \A p \in Pools : P[p] = RawPool
        /\ \A c \in Classes : U[c] = <<>> /\ K[c] = NoPool
    OBVIOUS
  <1>4. Emptied(b, r, m) = g
    BY DEF Emptied
  <1>5. z \in Nat /\ z \in Int
    OBVIOUS
  <1> HIDE DEF A, P, U, K, z
  <1>6. /\ g \in Heaps /\ g.arena = A /\ g.pool = P /\ g.used = U /\ g.kept = K
        /\ g.unused = <<>> /\ g.usable = <<>> /\ g.table = z /\ g.active = z
        /\ g.cachedBytes = z /\ g.bytes = b /\ g.refused = r /\ g.maxHeap = m
    BY <1>2, <1>5 DEF Heaps
  <1> HIDE DEF g
  <1> QED BY <1>3, <1>4, <1>6 DEF z

\* An allocator without arenas satisfies the invariant.
LEMMA EmptiedSettled ==
  ASSUME NEW b \in Int, NEW r \in BOOLEAN, NEW m \in Budgets
  PROVE  Settled(Emptied(b, r, m))
  <1> DEFINE g == Emptied(b, r, m)
  <1>1. /\ g \in Heaps /\ g.unused = <<>> /\ g.usable = <<>> /\ g.table = 0 /\ g.active = 0
        /\ \A a \in Arenas : g.arena[a] = UnusedArena
        /\ \A p \in Pools : g.pool[p] = RawPool
        /\ \A c \in Classes : g.used[c] = <<>> /\ g.kept[c] = NoPool
    BY EmptiedFields
  <1> HIDE DEF g
  <1>2. /\ \A p \in Pools : ~Carved(g, p) /\ ~InUse(g, p)
        /\ \A a : KeptBy(g, a) = {}
        /\ Active(g) = {}
        /\ \A a \in Arenas : ~FreeArena(g, a)
    <2>1. \A p \in Pools : ~Carved(g, p)
      <3> SUFFICES ASSUME NEW p \in Pools PROVE ~Carved(g, p)
        OBVIOUS
      <3>1. p[1] \in Arenas /\ p[2] \in Nat /\ p[2] >= 1
        BY Places, Sizing
      <3>2. g.arena[p[1]].bump = 1
        BY <3>1, <1>1 DEF UnusedArena
      <3> QED BY <3>1, <3>2 DEF Carved
    <2> QED BY <2>1, <1>1 DEF InUse, KeptBy, Active, FreeArena, UnusedArena
  <1>3. /\ IsInjective(<<>>) /\ Range(<<>>) = {} /\ Len(<<>>) = 0 /\ Cardinality({}) = 0 /\ DOMAIN <<>> = {}
    BY FS_EmptySet DEF IsInjective, Range
  <1>4. \A a \in Arenas : ArenaOk(g, a)
    <2> SUFFICES ASSUME NEW a \in Arenas PROVE ArenaOk(g, a)
      OBVIOUS
    <2> DEFINE x == g.arena[a]
    <2>1. x.total = 0 /\ x.bump = 1 /\ x.free = 0 /\ x.freePools = <<>> /\ x.kept = 0
      BY <1>1 DEF UnusedArena
    <2>2. KeptBy(g, a) = {}
      BY <1>2
    <2> HIDE DEF x
    <2>3. /\ x.total \in {0, ArenaPools - 1, ArenaPools} /\ x.bump <= x.total + 1
          /\ x.free = x.total - (x.bump - 1) + Len(x.freePools)
          /\ IsInjective(x.freePools) /\ Range(x.freePools) = {} /\ x.kept = Cardinality(KeptBy(g, a))
      BY <2>1, <2>2, <1>3
    <2> QED BY <2>3 DEF ArenaOk, x
  <1>5. \A p \in Pools : PoolOk(g, p)
    BY <1>1, <1>2 DEF PoolOk
  <1>6. \A c \in Classes : UsedOk(g, c) /\ KeptOk(g, c)
    BY <1>1, <1>2, <1>3 DEF UsedOk, KeptOk
  <1>7. TableOk(g)
    <2>1. 1 .. 0 = {}
      OBVIOUS
    <2> QED BY <2>1, <1>1, <1>2, <1>3 DEF TableOk
  <1>8. UsableOk(g) /\ OneFree(g)
    BY <1>1, <1>2, <1>3 DEF UsableOk, Listed, Sorted, OneFree, FreeLast, UnusedArena
  <1>9. EmptyKept(g, {}) /\ Hold(g, {}) /\ Frugal(g, {})
    BY <1>1, <1>2, <1>3 DEF EmptyKept, Hold, Frugal, UnusedArena
  <1> QED BY <1>1, <1>4, <1>5, <1>6, <1>7, <1>8, <1>9 DEF Settled, Good, Core, g

\* A heap trimmed when no block of a pool is out has no arena.
LEMMA TrimmedEmpty ==
  ASSUME NEW g, Settled(g), \A c \in Classes : g.kept[c] = NoPool, \A a \in Arenas : ~FreeArena(g, a),
         \A p \in Pools : g.pool[p].ref = 0
  PROVE  g.active = 0
  <1>1. g \in Heaps /\ Core(g) /\ EmptyKept(g, {})
    BY DEF Settled, Good
  <1>2. \A p \in Pools : ~InUse(g, p)
    <2> SUFFICES ASSUME NEW p \in Pools, InUse(g, p) PROVE FALSE
      OBVIOUS
    <2> DEFINE c == g.pool[p].class
    <2>1. c \in Classes /\ g.pool[p].free \in Nat /\ g.pool[p].free > 0
      <3>1. PoolOk(g, p) /\ Carved(g, p) /\ g.pool[p].ref = 0
        BY <1>1 DEF Core, InUse
      <3>2. c \in Classes /\ g.pool[p].free \in Nat /\ 0 + g.pool[p].free >= 2
        BY <3>1 DEF PoolOk
      <3> QED BY <3>2
    <2>2. p \in Range(g.used[c])
      BY <2>1, <1>1 DEF Core, UsedOk
    <2>3. g.kept[c] = p
      BY <2>1, <2>2, <1>1 DEF EmptyKept
    <2> QED BY <2>1, <2>3, Places
  <1>3. \A a \in Arenas : ~(g.arena[a].total > 0)
    <2> SUFFICES ASSUME NEW a \in Arenas PROVE ~(g.arena[a].total > 0)
      OBVIOUS
    <2>1. ArenaOk(g, a)
      BY <1>1 DEF Core
    <2>2. g.arena[a].free = g.arena[a].total
      BY <2>1, <1>1, <1>2, AllBack
    <2> QED BY <2>2 DEF FreeArena
  <1>4. Active(g) = {}
    BY <1>3 DEF Active
  <1> QED BY <1>1, <1>4, FS_EmptySet DEF Core, TableOk

-----------------------------------------------------------------------------
(* The invariant, operation by operation.                                  *)

PoolInv ==
    /\ Serves(al, live, large)
    /\ phase \in {"bootstrap", "live", "destroying", "finalized"}
    /\ phase = "finalized" => al.bytes = VmSize

\* The table grows only while no list points into it.
TableSafe == al'.table > al.table => al.usable = <<>> /\ al.unused = <<>>

\* A table that is the same did not grow.
LEMMA TableStays ==
  ASSUME NEW h \in Heaps, NEW g, g.table = h.table
  PROVE  ~(g.table > h.table)
  <1>1. h.table \in Nat
    BY DEF Heaps
  <1> QED BY <1>1

\* What the invariant says of the types of the state.
LEMMA InvFacts ==
  ASSUME PoolInv
  PROVE  /\ al \in Heaps /\ Settled(al) /\ live \in [Pools -> Nat] /\ large \in [LargeSizes -> Nat]
         /\ al.maxHeap \in Budgets /\ CacheOk(al)
         /\ al.bytes \in Int /\ al.cachedBytes \in Int /\ al.table \in Nat
  <1>1. Settled(al) /\ live \in [Pools -> Nat] /\ large \in [LargeSizes -> Nat] /\ CacheOk(al)
    BY DEF PoolInv, Serves
  <1>2. al \in Heaps
    BY <1>1 DEF Settled, Good
  <1> QED BY <1>1, <1>2 DEF Heaps

\* What a small request may come to.
LEMMA RequestSmall ==
  ASSUME PoolInv, NEW size \in Requests, size <= SmallRequest, WithinBounds(size), NEW checked \in BOOLEAN,
         NEW r, r \in SmallOutcomes(al, SizeClass(size), checked)
  PROVE  /\ r[2] = NoPool => Refused(r[1], al, checked) /\ Serves(r[1], live, large)
         /\ r[2] # NoPool => Gave(r[1], al, r[2], checked) /\ Serves(r[1], [live EXCEPT ![r[2]] = @ + 1], large)
         /\ r[1].table # al.table => al.usable = <<>> /\ al.unused = <<>>
  <1>1. al \in Heaps /\ Settled(al) /\ al.maxHeap \in Budgets /\ Serves(al, live, large) /\ CacheOk(al)
    BY InvFacts DEF PoolInv
  <1>2. SizeClass(size) \in Classes
    <2>1. size \in Nat \ {0}
      BY <1>1, LargeSet DEF Requests
    <2> QED BY <2>1, Blocks
  <1>3. al.used[SizeClass(size)] = <<>> /\ al.usable = <<>> =>
          (IF al.unused # <<>> THEN Head(al.unused) ELSE al.table + 1) \in Arenas
    BY DEF WithinBounds, NeedsArena, NextArena
  <1>4. r[2] = NoPool => Refused(r[1], al, checked)
    BY <1>1, <1>2, <1>3, SmallAnswers
  <1>5. r[2] # NoPool => Gave(r[1], al, r[2], checked)
    BY <1>1, <1>2, <1>3, SmallAnswers
  <1>6. r[1].table # al.table => al.usable = <<>> /\ al.unused = <<>>
    BY <1>1, <1>2, <1>3, SmallAnswers
  <1>7. ASSUME r[2] = NoPool PROVE Serves(r[1], live, large)
    <2>1. /\ Settled(r[1]) /\ r[1].cachedBytes = al.cachedBytes /\ Rest(r[1]) = Rest(al)
          /\ \A q \in Pools : r[1].pool[q].ref = al.pool[q].ref
      BY <1>4, <1>7 DEF Refused
    <2>2. CacheOk(r[1])
      BY <2>1, <1>1 DEF CacheOk
    <2> QED BY <2>1, <2>2, <1>1, ServesStill
  <1>8. ASSUME r[2] # NoPool PROVE Serves(r[1], [live EXCEPT ![r[2]] = @ + 1], large)
    BY <1>1, <1>5, <1>8, ServesGave
  <1> QED BY <1>4, <1>5, <1>6, <1>7, <1>8

\* What a request for a direct block may come to.
LEMMA RequestLarge ==
  ASSUME NEW h, NEW small, NEW big, Serves(h, small, big), NEW size \in LargeSizes, NEW checked \in BOOLEAN,
         NEW r, r \in HostOutcomes(h, size, checked)
  PROVE  /\ r[2] \in BOOLEAN
         /\ ~r[2] => Serves(r[1], small, big) /\ r[1].bytes = h.bytes /\ (r[1].refused \/ r[1] = h)
         /\ r[2] => /\ Serves(r[1], small, [big EXCEPT ![size] = @ + 1]) /\ r[1].bytes = h.bytes + size
                    /\ checked => Fits(h, size)
         /\ r[1].table = h.table /\ r[1].maxHeap = h.maxHeap
  <1>1. h \in Heaps /\ Settled(h) /\ big \in [LargeSizes -> Nat] /\ CacheOk(h)
    BY DEF Serves, Settled, Good
  <1>2. size \in Nat \ {0} /\ size \in Int
    BY LargeSet
  <1> DEFINE g == r[1]
  <1>3. /\ g \in Heaps /\ r[2] \in BOOLEAN /\ SameLists(g, h)
        /\ g.maxHeap = h.maxHeap /\ g.cachedBytes = h.cachedBytes
    BY <1>1, <1>2, HostAnswers
  <1>4. /\ r[2] => g.bytes = h.bytes + size /\ (checked /\ size > 0 => Fits(h, size))
        /\ ~r[2] => g.bytes = h.bytes /\ (g.refused \/ g = h)
    BY <1>1, <1>2, HostAnswers
  <1> HIDE DEF g
  <1>5. /\ g.table = h.table /\ g.active = h.active /\ CacheOk(g) /\ h.bytes \in Int
        /\ h.table * TableEntry \in Int /\ h.active * ArenaSize \in Int /\ h.cachedBytes \in Int
    <2>1. g.table = h.table /\ g.active = h.active
      BY <1>3 DEF SameLists, SameArenas
    <2>2. h.bytes \in Int /\ h.table \in Nat /\ h.active \in Int /\ h.cachedBytes \in Int
      BY <1>1 DEF Heaps
    <2>3. CacheOk(g)
      BY <1>1, <1>3 DEF CacheOk
    <2> QED BY <2>1, <2>2, <2>3, Sizing
  <1>6. CASE r[2]
    <2>1. Rest(g) = Rest(h) + 1 * size
      <3> DEFINE b == h.bytes
                 t == h.table * TableEntry
                 a == h.active * ArenaSize
                 c == h.cachedBytes
      <3>1. Rest(g) = (b + size) - t - a - c /\ Rest(h) = b - t - a - c
        BY <1>3, <1>4, <1>5, <1>6 DEF Rest
      <3>2. b \in Int /\ t \in Int /\ a \in Int /\ c \in Int
        BY <1>5
      <3> HIDE DEF b, t, a, c
      <3> QED BY <3>1, <3>2, <1>2
    <2>2. big[size] + 1 \in Nat
      BY <1>1
    <2>3. Serves(g, small, [big EXCEPT ![size] = @ + 1])
      BY <2>1, <2>2, <1>3, <1>5, ServesDirect
    <2> QED BY <2>3, <1>2, <1>3, <1>4, <1>5, <1>6 DEF g
  <1>7. CASE ~r[2]
    <2>1. Rest(g) = Rest(h)
      BY <1>3, <1>4, <1>5, <1>7 DEF Rest
    <2>2. Settled(g)
      BY <1>1, <1>3, SameListsKeep DEF Settled
    <2>3. Serves(g, small, big)
      BY <2>1, <2>2, <1>3, <1>5, ServesStill DEF SameLists, SameArenas
    <2> QED BY <2>3, <1>3, <1>4, <1>5, <1>7 DEF g
  <1> QED BY <1>3, <1>6, <1>7

\* tinypy_internal_pool_allocate keeps the invariant.
LEMMA InvAllocate ==
  ASSUME PoolInv, NEW size \in Requests, NEW checked \in BOOLEAN, Allocate(size, checked)
  PROVE  PoolInv' /\ TableSafe
  <1>1. al \in Heaps /\ Serves(al, live, large) /\ al.maxHeap \in Budgets
    BY InvFacts DEF PoolInv
  <1>2. WithinBounds(size) /\ phase \in {"bootstrap", "live"} /\ phase' = phase
    BY DEF Allocate, Running
  <1>3. CASE size <= SmallRequest
    <2>1. PICK r \in SmallOutcomes(al, SizeClass(size), checked) :
            /\ al' = r[1]
            /\ live' = IF r[2] = NoPool THEN live ELSE [live EXCEPT ![r[2]] = @ + 1]
            /\ large' = large
      BY <1>3 DEF Allocate
    <2>2. r[2] = NoPool => Serves(r[1], live, large)
      BY <1>2, <1>3, RequestSmall
    <2>3. r[2] # NoPool => Serves(r[1], [live EXCEPT ![r[2]] = @ + 1], large)
      BY <1>2, <1>3, RequestSmall
    <2>4. r[1].table # al.table => al.usable = <<>> /\ al.unused = <<>>
      BY <1>2, <1>3, RequestSmall
    <2>5. Serves(al', live', large')
      BY <2>1, <2>2, <2>3
    <2>6. TableSafe
      BY <2>1, <2>4, <1>1, TableStays DEF TableSafe
    <2> QED BY <2>5, <2>6, <1>2 DEF PoolInv
  <1>4. CASE ~(size <= SmallRequest)
    <2>1. PICK r \in HostOutcomes(al, size, checked) :
            /\ al' = r[1]
            /\ large' = IF r[2] THEN [large EXCEPT ![size] = @ + 1] ELSE large
            /\ live' = live
      BY <1>4 DEF Allocate
    <2>2. size \in LargeSizes
      <3>1. size \in Nat /\ (size > SmallRequest => size \in LargeSizes)
        BY <1>1, LargeSet DEF Requests
      <3> QED BY <3>1, <1>4, Sizing
    <2>3. /\ r[2] \in BOOLEAN
          /\ ~r[2] => Serves(r[1], live, large)
          /\ r[2] => Serves(r[1], live, [large EXCEPT ![size] = @ + 1])
          /\ r[1].table = al.table
      BY <2>1, <2>2, <1>1, RequestLarge
    <2>4. Serves(al', live', large')
      BY <2>1, <2>3
    <2>5. TableSafe
      BY <2>1, <2>3, <1>1, TableStays DEF TableSafe
    <2> QED BY <2>4, <2>5, <1>2 DEF PoolInv
  <1> QED BY <1>3, <1>4

\* tinypy_internal_pool_deallocate of a small block keeps the invariant.
LEMMA InvDeallocateSmall ==
  ASSUME PoolInv, NEW p \in Pools, DeallocateSmall(p)
  PROVE  PoolInv' /\ TableSafe
  <1>1. al \in Heaps /\ Serves(al, live, large)
    BY InvFacts DEF PoolInv
  <1>2. /\ phase # "finalized" /\ live[p] > 0 /\ al' = FreeSmall(al, p)
        /\ live' = [live EXCEPT ![p] = @ - 1] /\ phase' = phase /\ large' = large
    BY DEF DeallocateSmall
  <1>3. Serves(FreeSmall(al, p), [live EXCEPT ![p] = @ - 1], large) /\ FreeSmall(al, p).table = al.table
    BY <1>1, <1>2, ServesFreed
  <1>4. TableSafe
    BY <1>1, <1>2, <1>3, TableStays DEF TableSafe
  <1> QED BY <1>2, <1>3, <1>4 DEF PoolInv

\* A direct block of size given back to the host.
LEMMA DirectBack ==
  ASSUME NEW h, NEW small, NEW big, Serves(h, small, big), NEW size \in LargeSizes, big[size] > 0
  PROVE  LET g == [h EXCEPT !.bytes = @ - size]
         IN  /\ Serves(g, small, [big EXCEPT ![size] = @ - 1]) /\ g.table = h.table /\ g.maxHeap = h.maxHeap
             /\ g.bytes = h.bytes - size /\ g.refused = h.refused
  <1> DEFINE g == [h EXCEPT !.bytes = @ - size]
             d == -1
  <1>1. h \in Heaps /\ CacheOk(h) /\ big \in [LargeSizes -> Nat]
    BY DEF Serves, Settled, Good
  <1>2. size \in Nat /\ size \in Int
    BY LargeSet
  <1>3. /\ g \in Heaps /\ SameLists(g, h) /\ g.maxHeap = h.maxHeap /\ g.cachedBytes = h.cachedBytes
        /\ g.refused = h.refused /\ g.bytes = h.bytes - size /\ Rest(g) = Rest(h) - size
    BY <1>1, <1>2, BytesFields
  <1> HIDE DEF g
  <1>4. CacheOk(g) /\ g.table = h.table
    BY <1>1, <1>3 DEF CacheOk, SameLists
  <1>5. Rest(h) \in Int
    <2>1. h.bytes \in Int /\ h.table \in Nat /\ h.active \in Int /\ h.cachedBytes \in Int
      BY <1>1 DEF Heaps
    <2>2. h.table * TableEntry \in Int /\ h.active * ArenaSize \in Int
      BY <2>1, Sizing
    <2> QED BY <2>1, <2>2 DEF Rest
  <1>6. d \in Int /\ big[size] + d \in Nat /\ Rest(g) = Rest(h) + d * size /\ big[size] + d = big[size] - 1
    <2> DEFINE k == big[size]
               x == Rest(h)
    <2>1. k \in Nat /\ k > 0 /\ x \in Int /\ Rest(g) = x - size
      BY <1>1, <1>3, <1>5
    <2> HIDE DEF k, x
    <2>2. d \in Int /\ k + d \in Nat /\ k + d = k - 1 /\ x - size = x + d * size
      BY <2>1, <1>2
    <2> QED BY <2>1, <2>2 DEF k, x
  <1> HIDE DEF d
  <1>7. Serves(g, small, [big EXCEPT ![size] = @ + d])
    BY <1>3, <1>4, <1>6, ServesDirect
  <1>8. [big EXCEPT ![size] = @ + d] = [big EXCEPT ![size] = @ - 1]
    BY <1>6
  <1> QED BY <1>3, <1>4, <1>7, <1>8 DEF g

\* tinypy_internal_pool_deallocate of a direct block keeps the invariant.
LEMMA InvDeallocateLarge ==
  ASSUME PoolInv, NEW size \in LargeSizes, DeallocateLarge(size)
  PROVE  PoolInv' /\ TableSafe
  <1>1. al \in Heaps /\ Serves(al, live, large)
    BY InvFacts DEF PoolInv
  <1>2. /\ phase # "finalized" /\ large[size] > 0 /\ al' = [al EXCEPT !.bytes = @ - size]
        /\ large' = [large EXCEPT ![size] = @ - 1] /\ phase' = phase /\ live' = live
    BY DEF DeallocateLarge
  <1>3. Serves(al', live', large') /\ al'.table = al.table
    BY <1>1, <1>2, DirectBack
  <1>4. TableSafe
    BY <1>1, <1>3, TableStays DEF TableSafe
  <1> QED BY <1>2, <1>3, <1>4 DEF PoolInv

\* Nothing changes the table on this path.
LEMMA NoTable ==
  ASSUME PoolInv, al'.table = al.table
  PROVE  TableSafe
  <1>1. al \in Heaps
    BY InvFacts
  <1> QED BY <1>1, TableStays DEF TableSafe

\* tinypy_internal_pool_reallocate of a small block keeps the invariant.
LEMMA InvReallocateSmall ==
  ASSUME PoolInv, NEW p \in Pools, NEW size \in Requests, NEW checked \in BOOLEAN,
         ReallocateSmall(p, size, checked)
  PROVE  PoolInv' /\ TableSafe
  <1>1. /\ al \in Heaps /\ Serves(al, live, large) /\ al.maxHeap \in Budgets
        /\ live \in [Pools -> Nat] /\ large \in [LargeSizes -> Nat]
    BY InvFacts DEF PoolInv
  <1>2. WithinBounds(size) /\ live[p] > 0 /\ phase \in {"bootstrap", "live"} /\ phase' = phase
    BY DEF ReallocateSmall, Running
  <1>3. CASE size <= SmallRequest
    <2>1. PICK r \in SmallOutcomes(al, SizeClass(size), checked) :
            IF r[2] = NoPool
              THEN al' = r[1] /\ live' = live /\ large' = large
              ELSE /\ al' = FreeSmall(r[1], p)
                   /\ live' = [[live EXCEPT ![r[2]] = @ + 1] EXCEPT ![p] = @ - 1]
                   /\ large' = large
      BY <1>3 DEF ReallocateSmall
    <2>2. r[2] = NoPool => Serves(r[1], live, large)
      BY <1>2, <1>3, RequestSmall
    <2>3. r[2] # NoPool => /\ Serves(r[1], [live EXCEPT ![r[2]] = @ + 1], large)
                           /\ Gave(r[1], al, r[2], checked)
      BY <1>2, <1>3, RequestSmall
    <2>4. r[1].table # al.table => al.usable = <<>> /\ al.unused = <<>>
      BY <1>2, <1>3, RequestSmall
    <2>5. CASE r[2] = NoPool
      <3>1. al' = r[1] /\ live' = live /\ large' = large
        BY <2>1, <2>5
      <3>2. TableSafe
        BY <3>1, <2>4, <1>1, TableStays DEF TableSafe
      <3> QED BY <3>1, <3>2, <2>2, <2>5, <1>2 DEF PoolInv
    <2>6. CASE r[2] # NoPool
      <3> DEFINE l == [live EXCEPT ![r[2]] = @ + 1]
      <3>1. r[2] \in Pools
        BY <2>3, <2>6 DEF Gave
      <3>2. l[p] > 0
        BY <3>1, <1>1, <1>2
      <3>3. Serves(r[1], l, large)
        BY <2>3, <2>6
      <3>4. al' = FreeSmall(r[1], p) /\ live' = [l EXCEPT ![p] = @ - 1] /\ large' = large
        BY <2>1, <2>6
      <3> HIDE DEF l
      <3>5. Serves(al', live', large') /\ al'.table = r[1].table
        BY <3>2, <3>3, <3>4, ServesFreed
      <3>6. TableSafe
        BY <3>5, <2>4, <1>1, TableStays DEF TableSafe
      <3> QED BY <3>5, <3>6, <1>2 DEF PoolInv
    <2> QED BY <2>5, <2>6
  <1>4. CASE ~(size <= SmallRequest)
    <2>1. PICK r \in HostOutcomes(al, size, checked) :
            IF r[2]
              THEN /\ al' = FreeSmall(r[1], p)
                   /\ live' = [live EXCEPT ![p] = @ - 1]
                   /\ large' = [large EXCEPT ![size] = @ + 1]
              ELSE al' = r[1] /\ live' = live /\ large' = large
      BY <1>4 DEF ReallocateSmall
    <2>2. size \in LargeSizes
      <3>1. size \in Nat /\ (size > SmallRequest => size \in LargeSizes)
        BY <1>1, LargeSet DEF Requests
      <3> QED BY <3>1, <1>4, Sizing
    <2>3. /\ r[2] \in BOOLEAN
          /\ ~r[2] => Serves(r[1], live, large)
          /\ r[2] => Serves(r[1], live, [large EXCEPT ![size] = @ + 1])
          /\ r[1].table = al.table
      <3>1. r \in HostOutcomes(al, size, checked)
        BY <2>1
      <3>2. Serves(al, live, large)
        BY <1>1
      <3> QED BY <3>1, <3>2, <2>2, RequestLarge, SMTT(30)
    <2>4. Serves(al', live', large') /\ al'.table = al.table
      <3>1. CASE r[2]
        <4>1. Serves(FreeSmall(r[1], p), [live EXCEPT ![p] = @ - 1], [large EXCEPT ![size] = @ + 1])
              /\ FreeSmall(r[1], p).table = r[1].table
          BY <3>1, <2>3, <1>2, ServesFreed
        <4> QED BY <3>1, <4>1, <2>1, <2>3
      <3>2. CASE ~r[2]
        BY <3>2, <2>1, <2>3
      <3> QED BY <3>1, <3>2, <2>3
    <2> QED BY <2>4, <1>2, NoTable DEF PoolInv
  <1> QED BY <1>3, <1>4

\* The host resized a direct block of old bytes, or refused to.
LEMMA Resized ==
  ASSUME NEW h, NEW small, NEW big, Serves(h, small, big), NEW old \in LargeSizes, NEW size \in LargeSizes,
         big[old] > 0, size # old, NEW checked \in BOOLEAN, NEW r, r \in HostOutcomes(h, size - old, checked)
  PROVE  /\ r[2] \in BOOLEAN
         /\ ~r[2] => Serves(r[1], small, big)
         /\ r[2] => Serves(r[1], small, [big EXCEPT ![old] = @ - 1, ![size] = @ + 1])
         /\ r[1].table = h.table
  <1>1. h \in Heaps /\ Settled(h) /\ big \in [LargeSizes -> Nat] /\ CacheOk(h)
    BY DEF Serves, Settled, Good
  <1>2. size \in Nat /\ old \in Nat /\ size \in Int /\ old \in Int /\ size - old \in Int
    BY LargeSet
  <1> DEFINE g == r[1]
             n == size - old
  <1>3. /\ g \in Heaps /\ r[2] \in BOOLEAN /\ SameLists(g, h)
        /\ g.maxHeap = h.maxHeap /\ g.cachedBytes = h.cachedBytes
        /\ r[2] => g.bytes = h.bytes + n
        /\ ~r[2] => g.bytes = h.bytes
    <2>1. n \in Int
      BY <1>2
    <2> HIDE DEF n
    <2>2. r \in HostOutcomes(h, n, checked)
      BY DEF n
    <2>3. g \in Heaps /\ r[2] \in BOOLEAN /\ SameLists(g, h)
      BY <2>1, <2>2, <1>1, HostAnswers
    <2>4. g.maxHeap = h.maxHeap /\ g.cachedBytes = h.cachedBytes
      BY <2>1, <2>2, <1>1, HostAnswers
    <2>5. (r[2] => g.bytes = h.bytes + n) /\ (~r[2] => g.bytes = h.bytes)
      BY <2>1, <2>2, <1>1, HostAnswers
    <2> QED BY <2>3, <2>4, <2>5
  <1>4. /\ g.table = h.table /\ g.active = h.active /\ CacheOk(g) /\ h.bytes \in Int
        /\ h.table * TableEntry \in Int /\ h.active * ArenaSize \in Int /\ h.cachedBytes \in Int
    <2>1. g.table = h.table /\ g.active = h.active
      BY <1>3 DEF SameLists, SameArenas
    <2>2. h.bytes \in Int /\ h.table \in Nat /\ h.active \in Int /\ h.cachedBytes \in Int
      BY <1>1 DEF Heaps
    <2>3. CacheOk(g)
      BY <1>1, <1>3 DEF CacheOk
    <2> QED BY <2>1, <2>2, <2>3, Sizing
  <1> HIDE DEF g
  <1>5. CASE r[2]
    <2> DEFINE x == [h EXCEPT !.bytes = @ - old]
               b == [big EXCEPT ![old] = @ - 1]
    <2>1. Serves(x, small, b)
      BY <1>1, DirectBack
    <2>2. /\ x \in Heaps /\ SameLists(x, h) /\ x.maxHeap = h.maxHeap
          /\ x.cachedBytes = h.cachedBytes /\ Rest(x) = Rest(h) - old
      BY <1>1, <1>2, BytesFields
    <2>3. b \in [LargeSizes -> Nat] /\ b[size] = big[size]
      BY <1>1
    <2> HIDE DEF x, b
    <2>4. Rest(g) = Rest(x) + 1 * size
      <3> DEFINE m == h.bytes
                 t == h.table * TableEntry
                 a == h.active * ArenaSize
                 c == h.cachedBytes
      <3>1. Rest(g) = (m + (size - old)) - t - a - c /\ Rest(h) = m - t - a - c
        BY <1>3, <1>4, <1>5 DEF Rest, n
      <3>2. m \in Int /\ t \in Int /\ a \in Int /\ c \in Int
        BY <1>4
      <3> HIDE DEF m, t, a, c, n
      <3>3. (m + (size - old)) - t - a - c = ((m - t - a - c) - old) + 1 * size
        BY <3>2, <1>2
      <3> QED BY <3>1, <3>3, <2>2
    <2>5. b[size] + 1 \in Nat /\ SameLists(g, x) /\ g.maxHeap = x.maxHeap
      <3>1. SameLists(g, x)
        BY <1>3, <2>2 DEF SameLists, SameArenas
      <3>2. b[size] \in Nat
        BY <2>3
      <3> QED BY <3>1, <3>2, <1>3, <2>2
    <2>6. Serves(g, small, [b EXCEPT ![size] = @ + 1])
      <3>1. g \in Heaps /\ CacheOk(g) /\ 1 \in Int
        BY <1>3, <1>4
      <3> QED BY <2>1, <2>4, <2>5, <3>1, ServesDirect, SMTT(30)
    <2>7. [b EXCEPT ![size] = @ + 1] = [big EXCEPT ![old] = @ - 1, ![size] = @ + 1]
      BY DEF b
    <2> QED BY <2>6, <2>7, <1>3, <1>4, <1>5 DEF g
  <1>6. CASE ~r[2]
    <2>1. Rest(g) = Rest(h)
      BY <1>3, <1>4, <1>6 DEF Rest
    <2>2. Settled(g)
      BY <1>1, <1>3, SameListsKeep DEF Settled
    <2>3. Serves(g, small, big)
      BY <2>1, <2>2, <1>3, <1>4, ServesStill DEF SameLists, SameArenas
    <2> QED BY <2>3, <1>3, <1>4, <1>6 DEF g
  <1> QED BY <1>3, <1>5, <1>6

\* tinypy_internal_pool_reallocate of a direct block keeps the invariant.
LEMMA InvReallocateLarge ==
  ASSUME PoolInv, NEW old \in LargeSizes, NEW size \in Requests, NEW checked \in BOOLEAN,
         ReallocateLarge(old, size, checked)
  PROVE  PoolInv' /\ TableSafe
  <1>1. /\ al \in Heaps /\ Serves(al, live, large) /\ al.maxHeap \in Budgets
        /\ live \in [Pools -> Nat] /\ large \in [LargeSizes -> Nat]
    BY InvFacts DEF PoolInv
  <1>2. WithinBounds(size) /\ large[old] > 0 /\ size # old /\ phase \in {"bootstrap", "live"} /\ phase' = phase
    BY DEF ReallocateLarge, Running
  <1>3. CASE size <= SmallRequest
    <2>1. PICK r \in SmallOutcomes(al, SizeClass(size), checked) :
            IF r[2] = NoPool
              THEN al' = r[1] /\ live' = live /\ large' = large
              ELSE /\ al' = [r[1] EXCEPT !.bytes = @ - old]
                   /\ live' = [live EXCEPT ![r[2]] = @ + 1]
                   /\ large' = [large EXCEPT ![old] = @ - 1]
      BY <1>3 DEF ReallocateLarge
    <2>2. r[2] = NoPool => Serves(r[1], live, large)
      BY <1>2, <1>3, RequestSmall
    <2>3. r[2] # NoPool => Serves(r[1], [live EXCEPT ![r[2]] = @ + 1], large)
      BY <1>2, <1>3, RequestSmall
    <2>4. r[1].table # al.table => al.usable = <<>> /\ al.unused = <<>>
      BY <1>2, <1>3, RequestSmall
    <2>5. CASE r[2] = NoPool
      <3>1. al' = r[1] /\ live' = live /\ large' = large
        BY <2>1, <2>5
      <3>2. TableSafe
        BY <3>1, <2>4, <1>1, TableStays DEF TableSafe
      <3> QED BY <3>1, <3>2, <2>2, <2>5, <1>2 DEF PoolInv
    <2>6. CASE r[2] # NoPool
      <3> DEFINE l == [live EXCEPT ![r[2]] = @ + 1]
      <3>1. Serves(r[1], l, large)
        BY <2>3, <2>6
      <3>2. al' = [r[1] EXCEPT !.bytes = @ - old] /\ live' = l /\ large' = [large EXCEPT ![old] = @ - 1]
        BY <2>1, <2>6
      <3> HIDE DEF l
      <3>3. /\ Serves([r[1] EXCEPT !.bytes = @ - old], l, [large EXCEPT ![old] = @ - 1])
            /\ [r[1] EXCEPT !.bytes = @ - old].table = r[1].table
        BY <3>1, <1>2, DirectBack
      <3>4. Serves(al', live', large') /\ al'.table = r[1].table
        BY <3>2, <3>3
      <3>5. TableSafe
        BY <3>4, <2>4, <1>1, TableStays DEF TableSafe
      <3> QED BY <3>4, <3>5, <1>2 DEF PoolInv
    <2> QED BY <2>5, <2>6
  <1>4. CASE ~(size <= SmallRequest)
    <2>1. PICK r \in HostOutcomes(al, size - old, checked) :
            /\ al' = r[1]
            /\ large' = IF r[2] THEN [large EXCEPT ![old] = @ - 1, ![size] = @ + 1] ELSE large
            /\ live' = live
      BY <1>4 DEF ReallocateLarge
    <2>2. size \in LargeSizes
      <3>1. size \in Nat /\ (size > SmallRequest => size \in LargeSizes)
        BY <1>1, LargeSet DEF Requests
      <3> QED BY <3>1, <1>4, Sizing
    <2>3. /\ r[2] \in BOOLEAN
          /\ ~r[2] => Serves(r[1], live, large)
          /\ r[2] => Serves(r[1], live, [large EXCEPT ![old] = @ - 1, ![size] = @ + 1])
          /\ r[1].table = al.table
      <3>1. r \in HostOutcomes(al, size - old, checked)
        BY <2>1
      <3>2. Serves(al, live, large) /\ large[old] > 0 /\ size # old
        BY <1>1, <1>2
      <3> QED BY <3>1, <3>2, <2>2, Resized
    <2>4. Serves(al', live', large') /\ al'.table = al.table
      BY <2>1, <2>3
    <2> QED BY <2>4, <1>2, NoTable DEF PoolInv
  <1> QED BY <1>3, <1>4

\* d blocks moved from the cache of transient blocks to a caller, or back.
LEMMA CacheServes ==
  ASSUME NEW h, NEW small, NEW big, Serves(h, small, big), NEW d \in Int, big[TransientSize] + d \in Nat,
         NEW n \in Int, n = -(d * TransientSize), CacheOk([h EXCEPT !.cachedBytes = @ + n])
  PROVE  LET g == [h EXCEPT !.cachedBytes = @ + n]
         IN  Serves(g, small, [big EXCEPT ![TransientSize] = @ + d]) /\ g.table = h.table /\ g.bytes = h.bytes
  <1> DEFINE g == [h EXCEPT !.cachedBytes = @ + n]
  <1>1. h \in Heaps /\ TransientSize \in LargeSizes /\ TransientSize \in Nat
    BY LargeSet DEF Serves, Settled, Good
  <1>2. /\ g \in Heaps /\ SameLists(g, h) /\ g.maxHeap = h.maxHeap /\ g.bytes = h.bytes
        /\ Rest(g) = Rest(h) - n
    BY <1>1, CacheFields
  <1>3. CacheOk(g)
    OBVIOUS
  <1> HIDE DEF g
  <1>4. Rest(g) = Rest(h) + d * TransientSize
    <2> DEFINE x == Rest(h)
    <2>1. x \in Int
      <3>1. h.bytes \in Int /\ h.table \in Nat /\ h.active \in Int /\ h.cachedBytes \in Int
        BY <1>1 DEF Heaps
      <3>2. h.table * TableEntry \in Int /\ h.active * ArenaSize \in Int
        BY <3>1, Sizing
      <3> QED BY <3>1, <3>2 DEF Rest
    <2>2. Rest(g) = x - n
      BY <1>2
    <2> HIDE DEF x
    <2>3. d * TransientSize \in Int
      BY <1>1
    <2>4. x - n = x + d * TransientSize
      BY <2>1, <2>3
    <2> QED BY <2>2, <2>4 DEF x
  <1>5. Serves(g, small, [big EXCEPT ![TransientSize] = @ + d])
    BY <1>1, <1>2, <1>3, <1>4, ServesDirect
  <1> QED BY <1>2, <1>5 DEF g, SameLists

\* Taking a cached transient block keeps the invariant.
LEMMA InvTransientTake ==
  ASSUME PoolInv, TransientTake
  PROVE  PoolInv' /\ TableSafe
  <1> DEFINE n == -TransientSize
  <1>1. al \in Heaps /\ Serves(al, live, large) /\ CacheOk(al) /\ al.cachedBytes \in Int /\ large \in [LargeSizes -> Nat]
    BY InvFacts DEF PoolInv
  <1>2. /\ al.cachedBytes > 0 /\ al' = [al EXCEPT !.cachedBytes = @ - TransientSize]
        /\ large' = [large EXCEPT ![TransientSize] = @ + 1]
        /\ phase \in {"bootstrap", "live"} /\ phase' = phase /\ live' = live
    BY DEF TransientTake, Running
  <1>3. TransientSize \in Nat \ {0} /\ TransientSize \in LargeSizes /\ n \in Int
    BY LargeSet
  <1>4. al.cachedBytes + n = al.cachedBytes - TransientSize /\ n = -(1 * TransientSize)
    BY <1>1, <1>3
  <1>5. al' = [al EXCEPT !.cachedBytes = @ + n]
    BY <1>2, <1>4
  <1> HIDE DEF n
  <1>6. CacheOk([al EXCEPT !.cachedBytes = @ + n])
    <2>1. PICK k \in Nat : al.cachedBytes = k * TransientSize
      BY <1>1 DEF CacheOk
    <2>2. k # 0
      BY <2>1, <1>2, <1>3
    <2>3. k - 1 \in Nat /\ (k - 1) * TransientSize = k * TransientSize - TransientSize
      BY <2>2, <1>3
    <2>4. [al EXCEPT !.cachedBytes = @ + n].cachedBytes = al.cachedBytes + n
      BY <1>1, <1>3, CacheFields
    <2> QED BY <2>1, <2>3, <2>4, <1>4 DEF CacheOk
  <1>7. large[TransientSize] + 1 \in Nat
    BY <1>1, <1>3
  <1>8. Serves(al', live', large') /\ al'.table = al.table
    <2>1. Serves(al, live, large) /\ n \in Int /\ 1 \in Int /\ n = -(1 * TransientSize)
      BY <1>1, <1>3, <1>4
    <2> DEFINE g == [al EXCEPT !.cachedBytes = @ + n]
    <2>2. Serves(g, live, [large EXCEPT ![TransientSize] = @ + 1]) /\ g.table = al.table
      BY <2>1, <1>6, <1>7, CacheServes
    <2> HIDE DEF g
    <2> QED BY <2>2, <1>2, <1>5 DEF g
  <1> QED BY <1>2, <1>8, NoTable DEF PoolInv

\* Caching a transient block keeps the invariant.
LEMMA InvTransientPut ==
  ASSUME PoolInv, TransientPut
  PROVE  PoolInv' /\ TableSafe
  <1> DEFINE n == TransientSize
             d == -1
  <1>1. al \in Heaps /\ Serves(al, live, large) /\ CacheOk(al) /\ al.cachedBytes \in Int /\ large \in [LargeSizes -> Nat]
    BY InvFacts DEF PoolInv
  <1>2. /\ al' = [al EXCEPT !.cachedBytes = @ + n] /\ large[TransientSize] > 0
        /\ large' = [large EXCEPT ![TransientSize] = @ - 1]
        /\ phase # "finalized" /\ phase' = phase /\ live' = live
    BY DEF TransientPut
  <1>3. TransientSize \in Nat \ {0} /\ TransientSize \in LargeSizes /\ n \in Int /\ n = -(d * TransientSize)
    BY LargeSet
  <1>4. CacheOk([al EXCEPT !.cachedBytes = @ + n])
    <2>1. PICK k \in Nat : al.cachedBytes = k * TransientSize
      BY <1>1 DEF CacheOk
    <2>2. k + 1 \in Nat /\ (k + 1) * TransientSize = k * TransientSize + TransientSize
      BY <1>3
    <2>3. [al EXCEPT !.cachedBytes = @ + n].cachedBytes = al.cachedBytes + n
      BY <1>1, <1>3, CacheFields
    <2> QED BY <2>1, <2>2, <2>3 DEF CacheOk
  <1>5. d \in Int /\ large[TransientSize] + d \in Nat /\ large[TransientSize] + d = large[TransientSize] - 1
    BY <1>1, <1>2, <1>3
  <1>6. large' = [large EXCEPT ![TransientSize] = @ + d]
    BY <1>2, <1>5
  <1> HIDE DEF n, d
  <1>7. Serves(al', live', large') /\ al'.table = al.table
    <2>1. Serves(al, live, large) /\ n \in Int /\ n = -(d * TransientSize)
      BY <1>1, <1>3
    <2> DEFINE g == [al EXCEPT !.cachedBytes = @ + n]
    <2>2. Serves(g, live, [large EXCEPT ![TransientSize] = @ + d]) /\ g.table = al.table
      BY <2>1, <1>4, <1>5, CacheServes
    <2> HIDE DEF g
    <2> QED BY <2>2, <1>2, <1>6 DEF g
  <1> QED BY <1>2, <1>7, NoTable DEF PoolInv

\* A trimmed heap serves the same callers.
LEMMA TrimServes ==
  ASSUME NEW h, NEW small, NEW big, Good(h), EmptyKept(h, {}), NEW x, Serves(x, small, big), Rest(h) = Rest(x),
         \A p \in Pools : h.pool[p].ref = x.pool[p].ref
  PROVE  Serves(Trim(h), small, big) /\ Trim(h).table = h.table
  <1> DEFINE g == Trim(h)
  <1>1. /\ Settled(g) /\ g.cachedBytes = 0 /\ Rest(g) = Rest(h) /\ g.table = h.table
        /\ \A p \in Pools : g.pool[p].ref = h.pool[p].ref
    BY TrimKeeps DEF Trimmed
  <1> HIDE DEF g
  <1>2. CacheOk(g)
    <2>1. 0 \in Nat /\ 0 = 0 * TransientSize
      BY LargeSet
    <2> QED BY <2>1, <1>1 DEF CacheOk
  <1>3. Serves(g, small, big)
    BY <1>1, <1>2, ServesStill
  <1> QED BY <1>1, <1>3 DEF g

\* The end of tinypy_vm_create keeps the invariant, under a budget by trimming.
LEMMA InvFinishCreate ==
  ASSUME PoolInv, NEW budget \in Budgets, FinishCreate(budget)
  PROVE  PoolInv' /\ TableSafe
  <1> DEFINE h == [al EXCEPT !.maxHeap = budget]
  <1>1. al \in Heaps /\ Settled(al) /\ Serves(al, live, large) /\ CacheOk(al)
    BY InvFacts DEF PoolInv
  <1>2. live' = live /\ large' = large
    BY DEF FinishCreate
  <1>3. CASE al.refused \/ (budget # 0 /\ al.bytes > budget)
    <2>1. al' = al /\ phase' = "destroying"
      BY <1>3 DEF FinishCreate
    <2> QED BY <2>1, <1>1, <1>2, NoTable DEF PoolInv
  <1>4. CASE ~(al.refused \/ (budget # 0 /\ al.bytes > budget))
    <2>1. phase' = "live" /\ al' = IF budget # 0 THEN Trim(h) ELSE h
      BY <1>4 DEF FinishCreate
    <2>2. /\ h \in Heaps /\ SameLists(h, al) /\ h.maxHeap = budget
          /\ h.cachedBytes = al.cachedBytes /\ h.bytes = al.bytes
      BY <1>1 DEF Heaps, SameLists, SameArenas
    <2> HIDE DEF h
    <2>3. Good(h) /\ EmptyKept(h, {}) /\ Hold(h, {})
      BY <1>1, <2>2, SameListsKeep DEF Settled
    <2>4. /\ Rest(h) = Rest(al) /\ h.table = al.table /\ CacheOk(h)
          /\ \A p \in Pools : h.pool[p].ref = al.pool[p].ref
      BY <1>1, <2>2 DEF Rest, SameLists, SameArenas, CacheOk
    <2>5. CASE budget # 0
      <3>1. al' = Trim(h)
        BY <2>1, <2>5
      <3>2. Serves(Trim(h), live, large) /\ Trim(h).table = h.table
        BY <1>1, <2>3, <2>4, TrimServes
      <3> QED BY <3>1, <3>2, <2>1, <2>4, <1>2, NoTable DEF PoolInv
    <2>6. CASE budget = 0
      <3>1. al' = h
        BY <2>1, <2>6
      <3>2. Frugal(h, {})
        BY <2>2, <2>6 DEF Frugal
      <3>3. Serves(h, live, large)
        BY <3>2, <2>3, <2>4, <1>1, ServesStill DEF Settled
      <3> QED BY <3>1, <3>3, <2>1, <2>4, <1>2, NoTable DEF PoolInv
    <2> QED BY <2>5, <2>6
  <1> QED BY <1>3, <1>4

\* An allocator without arenas serves callers that hold nothing.
LEMMA EmptiedServes ==
  ASSUME NEW r \in BOOLEAN, NEW m \in Budgets, NEW small \in [Pools -> Nat], NEW big \in [LargeSizes -> Nat],
         \A p \in Pools : small[p] = 0, \A s \in LargeSizes : big[s] = 0
  PROVE  Serves(Emptied(VmSize, r, m), small, big)
  <1> DEFINE g == Emptied(VmSize, r, m)
  <1>1. VmSize \in Int /\ TableEntry \in Int /\ ArenaSize \in Int /\ TransientSize \in Int
    BY Sizing, LargeSet
  <1>2. /\ Settled(g) /\ g.table = 0 /\ g.active = 0 /\ g.cachedBytes = 0 /\ g.bytes = VmSize
        /\ \A p \in Pools : g.pool[p].ref = 0
    BY <1>1, EmptiedSettled, EmptiedFields DEF RawPool
  <1> HIDE DEF g
  <1>3. Rest(g) = VmSize
    <2>1. VmSize - 0 * TableEntry - 0 * ArenaSize - 0 = VmSize
      BY <1>1
    <2> QED BY <2>1, <1>2 DEF Rest
  <1>4. VmSize + Direct(big) = VmSize
    <2>1. Direct(big) = 0
      BY DirectNatural
    <2> QED BY <2>1, <1>1
  <1>5. CacheOk(g)
    <2>1. 0 \in Nat /\ 0 = 0 * TransientSize
      BY <1>1
    <2> QED BY <2>1, <1>2 DEF CacheOk
  <1>6. Serves(g, small, big)
    BY <1>2, <1>3, <1>4, <1>5 DEF Serves
  <1> QED BY <1>6 DEF g

\* tinypy_internal_pool_finalize leaves the bytes of the VM alone.
LEMMA InvFinalize ==
  ASSUME PoolInv, Finalize
  PROVE  PoolInv' /\ TableSafe
  <1> DEFINE h == Trim(al)
  <1>1. /\ al \in Heaps /\ Settled(al) /\ Serves(al, live, large) /\ al.maxHeap \in Budgets
        /\ live \in [Pools -> Nat] /\ large \in [LargeSizes -> Nat] /\ al.table \in Nat
    BY InvFacts DEF PoolInv
  <1>2. /\ \A p \in Pools : live[p] = 0
        /\ \A s \in LargeSizes : large[s] = 0
        /\ al' = Emptied(h.bytes - h.table * TableEntry, h.refused, h.maxHeap)
        /\ phase' = "finalized" /\ live' = live /\ large' = large
    BY DEF Finalize
  <1>3. Trimmed(h, al)
    BY <1>1, TrimKeeps DEF Settled
  <1> HIDE DEF h
  <1>4. /\ h \in Heaps /\ Settled(h) /\ h.cachedBytes = 0 /\ Rest(h) = Rest(al) /\ h.maxHeap \in Budgets
        /\ h.refused \in BOOLEAN /\ \A p \in Pools : h.pool[p].ref = 0
    <2>1. h \in Heaps
      BY <1>3 DEF Trimmed, Settled, Good
    <2>2. \A p \in Pools : h.pool[p].ref = al.pool[p].ref /\ al.pool[p].ref = live[p]
      BY <1>1, <1>3 DEF Trimmed, Serves
    <2>3. h.maxHeap \in Budgets /\ h.refused \in BOOLEAN
      BY <2>1 DEF Heaps
    <2> QED BY <2>1, <2>2, <2>3, <1>2, <1>3 DEF Trimmed
  <1>5. h.active = 0
    BY <1>3, <1>4, TrimmedEmpty DEF Trimmed
  <1>6. h.bytes - h.table * TableEntry = VmSize
    <2> DEFINE b == h.bytes
               t == h.table * TableEntry
    <2>1. Rest(h) = VmSize
      <3>1. Direct(large) = 0 /\ VmSize \in Int
        BY <1>1, <1>2, DirectNatural, Sizing
      <3>2. Rest(h) = VmSize + Direct(large)
        BY <1>1, <1>4 DEF Serves
      <3> QED BY <3>1, <3>2
    <2>2. b \in Int /\ t \in Int
      <3>1. h.bytes \in Int /\ h.table \in Nat
        BY <1>4 DEF Heaps
      <3> QED BY <3>1, Sizing
    <2>3. Rest(h) = b - t - 0 * ArenaSize - 0 /\ ArenaSize \in Int
      BY <1>4, <1>5, Sizing DEF Rest
    <2> HIDE DEF b, t
    <2>4. b - t - 0 * ArenaSize - 0 = b - t
      BY <2>2, <2>3
    <2> QED BY <2>1, <2>3, <2>4 DEF b, t
  <1>7. al' = Emptied(VmSize, h.refused, h.maxHeap)
    BY <1>2, <1>6
  <1>8. Serves(al', live', large')
    BY <1>1, <1>2, <1>4, <1>7, EmptiedServes
  <1>9. al'.bytes = VmSize /\ al'.table = 0
    <2> DEFINE r == h.refused
               m == h.maxHeap
    <2>1. r \in BOOLEAN /\ m \in Budgets /\ VmSize \in Int
      BY <1>4, Sizing
    <2>2. al' = Emptied(VmSize, r, m)
      BY <1>7
    <2> HIDE DEF r, m
    <2>3. Emptied(VmSize, r, m).bytes = VmSize /\ Emptied(VmSize, r, m).table = 0
      BY <2>1, EmptiedFields
    <2> QED BY <2>2, <2>3
  <1>10. TableSafe
    BY <1>1, <1>9 DEF TableSafe
  <1> QED BY <1>2, <1>8, <1>9, <1>10 DEF PoolInv

\* A new allocator satisfies the invariant.
LEMMA InvInit ==
  ASSUME Init
  PROVE  PoolInv
  <1>1. /\ al = Emptied(VmSize, FALSE, 0) /\ phase = "bootstrap"
        /\ live = [p \in Pools |-> 0] /\ large = [s \in LargeSizes |-> 0]
    BY DEF Init, PoolInitialize
  <1>2. /\ live \in [Pools -> Nat] /\ large \in [LargeSizes -> Nat]
        /\ \A p \in Pools : live[p] = 0
        /\ \A s \in LargeSizes : large[s] = 0
    BY <1>1
  <1>3. 0 \in Budgets
    BY PoolAssumption
  <1>4. Serves(al, live, large)
    BY <1>1, <1>2, <1>3, EmptiedServes
  <1> QED BY <1>1, <1>4 DEF PoolInv

\* Every step keeps the invariant, and a step that grows the table is safe.
LEMMA InvNext ==
  ASSUME PoolInv, [Next]_vars
  PROVE  PoolInv' /\ (TableSafe \/ UNCHANGED vars)
  <1>1. CASE \E size \in Requests, checked \in BOOLEAN : Allocate(size, checked)
    BY <1>1, InvAllocate
  <1>2. CASE \E p \in Pools : DeallocateSmall(p)
    BY <1>2, InvDeallocateSmall
  <1>3. CASE \E size \in LargeSizes : DeallocateLarge(size)
    BY <1>3, InvDeallocateLarge
  <1>4. CASE \E p \in Pools, size \in Requests, checked \in BOOLEAN : ReallocateSmall(p, size, checked)
    BY <1>4, InvReallocateSmall
  <1>5. CASE \E old \in LargeSizes, size \in Requests, checked \in BOOLEAN : ReallocateLarge(old, size, checked)
    BY <1>5, InvReallocateLarge
  <1>6. CASE TransientTake
    BY <1>6, InvTransientTake
  <1>7. CASE TransientPut
    BY <1>7, InvTransientPut
  <1>8. CASE \E budget \in Budgets : FinishCreate(budget)
    BY <1>8, InvFinishCreate
  <1>9. CASE Destroy
    <2>1. al' = al /\ live' = live /\ large' = large /\ phase' = "destroying"
      BY <1>9 DEF Destroy
    <2> QED BY <2>1, NoTable DEF PoolInv
  <1>10. CASE Finalize
    BY <1>10, InvFinalize
  <1>11. CASE UNCHANGED vars
    BY <1>11 DEF vars, PoolInv
  <1> QED BY <1>1, <1>2, <1>3, <1>4, <1>5, <1>6, <1>7, <1>8, <1>9, <1>10, <1>11 DEF Next

\* The allocator serves its callers in every state of every behaviour: the
\* inductive invariant behind all the properties below.
THEOREM Invariant == Spec => []PoolInv
  <1>1. Init => PoolInv
    BY InvInit
  <1>2. PoolInv /\ [Next]_vars => PoolInv'
    BY InvNext
  <1> QED BY <1>1, <1>2, PTL DEF Spec

-----------------------------------------------------------------------------
(* The properties.                                                         *)

\* The arenas and pools have their types, with no count below zero.
LEMMA PlacesTyped ==
  ASSUME PoolInv
  PROVE  /\ al.arena \in [Arenas -> ArenaRecord] /\ al.pool \in [Pools -> PoolRecord]
         /\ \A a \in Arenas : al.arena[a].total \in Nat /\ al.arena[a].bump \in Nat
  <1>1. al \in Heaps /\ Core(al)
    BY InvFacts DEF Settled, Good
  <1>2. ASSUME NEW a \in Arenas
        PROVE  al.arena[a] \in ArenaRecord /\ al.arena[a].total \in Nat /\ al.arena[a].bump \in Nat
    <2> DEFINE x == al.arena[a]
               f == x.free
               t == x.total
               k == x.kept
               b == x.bump
    <2>1. x \in ArenaShape
      BY <1>1 DEF Heaps
    <2>2. x = [free |-> f, total |-> t, kept |-> k, freePools |-> x.freePools, bump |-> b] /\ x.freePools \in Seq(Pools)
          /\ b \in Nat \ {0} /\ t \in 0 .. ArenaPools
      BY <2>1 DEF ArenaShape
    <2>3. f \in Nat /\ k \in Nat /\ t \in Nat /\ f + k <= t
      BY <1>1, ArenaNumbers
    <2>4. b <= t + 1
      BY <1>1 DEF Core, ArenaOk
    <2> HIDE DEF x, f, t, k, b
    <2>5. /\ f \in 0 .. ArenaPools /\ t \in 0 .. ArenaPools /\ k \in 0 .. ArenaPools
          /\ b \in 1 .. ArenaPools + 1 /\ b \in Nat
      <3>1. ArenaPools \in Nat /\ t <= ArenaPools /\ b >= 1 /\ b \in Nat
        <4>1. ArenaPools \in Nat
          BY Sizing
        <4>2. t \in 0 .. ArenaPools /\ b \in Nat /\ b # 0
          BY <2>2
        <4> QED BY <4>1, <4>2
      <3>2. f <= ArenaPools /\ k <= ArenaPools /\ b <= ArenaPools + 1
        BY <3>1, <2>3, <2>4
      <3> QED BY <3>1, <3>2, <2>3
    <2>6. x \in ArenaRecord
      BY <2>2, <2>5 DEF ArenaRecord
    <2> QED BY <2>3, <2>5, <2>6 DEF x, t, b
  <1>3. ASSUME NEW p \in Pools PROVE al.pool[p] \in PoolRecord
    <2> DEFINE q == al.pool[p]
               r == q.ref
               f == q.free
               n == q.next
               c == q.class
    <2>1. q \in PoolShape
      BY <1>1 DEF Heaps
    <2>2. q = [ref |-> r, class |-> c, free |-> f, next |-> n] /\ c \in Classes \cup {DummyClass} /\ n \in Int
      BY <2>1 DEF PoolShape
    <2>3. PoolOk(al, p)
      BY <1>1 DEF Core
    <2>4. CASE Carved(al, p)
      <3>1. r \in Nat /\ f \in Nat /\ c \in Classes /\ n = PoolHeader + (r + f) * BlockSize(c) /\ n <= PoolSize
        BY <2>3, <2>4 DEF PoolOk
      <3> DEFINE z == BlockSize(c)
      <3>2. z \in Nat
        BY <3>1, Blocks
      <3> HIDE DEF r, f, n, c, z
      <3>3. (r + f) * z \in Nat
        BY <3>1, <3>2
      <3>4. n \in 0 .. PoolSize
        BY <3>1, <3>3, <2>2, Sizing DEF z
      <3>5. q = [ref |-> r, class |-> c, free |-> f, next |-> n]
        BY <2>2
      <3> HIDE DEF q
      <3>6. q \in PoolRecord
        BY <3>1, <3>4, <3>5 DEF PoolRecord
      <3> QED BY <3>6 DEF q
    <2>5. CASE ~Carved(al, p)
      <3>1. q = RawPool
        BY <2>3, <2>5 DEF PoolOk
      <3>2. RawPool \in PoolRecord
        <4>1. 0 \in Nat /\ 0 \in 0 .. PoolSize
          BY Sizing
        <4> QED BY <4>1 DEF RawPool, PoolRecord
      <3> QED BY <3>1, <3>2
    <2> QED BY <2>4, <2>5
  <1>4. /\ al.arena = [a \in Arenas |-> al.arena[a]]
        /\ al.pool = [p \in Pools |-> al.pool[p]]
    BY <1>1 DEF Heaps
  <1> QED BY <1>2, <1>3, <1>4

\* The bytes of the heap are those of its parts.
LEMMA BytesOfParts ==
  ASSUME PoolInv
  PROVE  /\ al.active = Cardinality(ActiveArenas) /\ al.active \in Nat /\ al.cachedBytes \in Nat /\ al.bytes \in Nat
         /\ al.bytes = VmSize + al.table * TableEntry + al.active * ArenaSize + al.cachedBytes + Direct(large)
  <1>1. /\ al \in Heaps /\ Core(al) /\ large \in [LargeSizes -> Nat] /\ Rest(al) = VmSize + Direct(large) /\ CacheOk(al)
        /\ al.bytes \in Int
    BY InvFacts DEF PoolInv, Serves, Settled, Good
  <1>2. ActiveArenas = Active(al) /\ al.active = Cardinality(ActiveArenas)
    BY <1>1 DEF ActiveArenas, Active, Core, TableOk
  <1>3. al.active \in Nat
    <2>1. IsFiniteSet(Arenas)
      BY Sizing, FS_Interval DEF Arenas
    <2>2. Active(al) \in SUBSET Arenas
      BY DEF Active
    <2>3. IsFiniteSet(Active(al))
      BY <2>1, <2>2, FS_Subset
    <2> QED BY <2>3, <1>2, FS_CardinalityType
  <1>4. al.cachedBytes \in Nat
    <2>1. PICK k \in Nat : al.cachedBytes = k * TransientSize
      BY <1>1 DEF CacheOk
    <2> QED BY <2>1, Sizing
  <1> DEFINE b == al.bytes
             t == al.table * TableEntry
             a == al.active * ArenaSize
             c == al.cachedBytes
             d == Direct(large)
  <1>5. b \in Int /\ t \in Nat /\ a \in Nat /\ c \in Nat /\ d \in Nat /\ VmSize \in Nat
    <2>1. al.table \in Nat
      BY <1>1 DEF Heaps
    <2> QED BY <2>1, <1>1, <1>3, <1>4, Sizing, DirectNatural
  <1>6. b - t - a - c = VmSize + d
    BY <1>1 DEF Rest
  <1> HIDE DEF b, t, a, c, d
  <1>7. b = VmSize + t + a + c + d /\ b \in Nat
    BY <1>5, <1>6
  <1> QED BY <1>2, <1>3, <1>4, <1>7 DEF b, t, a, c, d

\* The invariant implies the types.
LEMMA InvTypeOk ==
  ASSUME PoolInv
  PROVE  TypeOk
  <1>1. /\ al \in Heaps /\ live \in [Pools -> Nat] /\ large \in [LargeSizes -> Nat] /\ al.maxHeap \in Budgets
    BY InvFacts
  <1>2. al.arena \in [Arenas -> ArenaRecord] /\ al.pool \in [Pools -> PoolRecord]
    BY PlacesTyped
  <1>3. /\ al.used \in [Classes -> Seq(Pools)] /\ al.kept \in [Classes -> Pools \cup {NoPool}]
        /\ al.unused \in Seq(Nat \ {0}) /\ al.usable \in Seq(Arenas) /\ al.table \in Nat /\ al.refused \in BOOLEAN
    BY <1>1 DEF Heaps
  <1>4. al.active \in Nat /\ al.cachedBytes \in Nat /\ al.bytes \in Nat
    BY BytesOfParts
  <1>5. al.maxHeap \in Nat
    BY <1>1, Sizing
  <1>6. phase \in {"bootstrap", "live", "destroying", "finalized"}
    BY DEF PoolInv
  <1> QED BY <1>1, <1>2, <1>3, <1>4, <1>5, <1>6 DEF TypeOk

\* The allocator and what its callers hold have their types.
THEOREM TypeCorrect == Spec => []TypeOk
  <1>1. PoolInv => TypeOk
    BY InvTypeOk
  <1> QED BY <1>1, Invariant, PTL

\* The bytes the VM is charged for are those of what exists, and after the end
\* those of the VM alone.
THEOREM ExactBytes == Spec => []BytesExact
  <1>1. PoolInv => BytesExact
    <2> SUFFICES ASSUME PoolInv PROVE BytesExact
      OBVIOUS
    <2>1. Direct(large) = FoldFunctionOnSet(+, 0, [s \in LargeSizes |-> s * large[s]], LargeSizes)
      BY DEF Direct, Weights
    <2>2. phase = "finalized" => al.bytes = VmSize
      BY DEF PoolInv
    <2> QED BY <2>1, <2>2, BytesOfParts DEF BytesExact
  <1> QED BY <1>1, Invariant, PTL

\* The slots of an arena are the pools that it has; the carved ones come first.
LEMMA SlotPools ==
  ASSUME PoolInv, NEW a \in Arenas
  PROVE  /\ ArenaSlots(a) \in SUBSET Pools
         /\ \A p \in Pools : p \in ArenaSlots(a) <=> p[1] = a /\ p[2] <= al.arena[a].total
         /\ \A p \in Pools : p[1] = a /\ Carved(al, p) => p \in ArenaSlots(a) /\ a \in ActiveArenas
         /\ \A p \in ArenaSlots(a) : p \in Untouched(a) <=> ~Carved(al, p)
         /\ \A p \in Returned(a) : p \in Pools /\ p[1] = a /\ Carved(al, p)
  <1> DEFINE x == al.arena[a]
             t == x.total
             b == x.bump
  <1>1. al \in Heaps /\ ArenaOk(al, a)
    BY InvFacts DEF Settled, Good, Core
  <1>2. t \in 0 .. ArenaPools /\ b \in Nat \ {0} /\ x.freePools \in Seq(Pools) /\ ArenaPools \in Nat
    BY <1>1, ArenaTypes, Sizing
  <1>3. b <= t + 1 /\ \A p \in Range(x.freePools) : p[1] = a /\ p[2] < b
    BY <1>1 DEF ArenaOk
  <1>4. \A p \in ArenaSlots(a) : \E i \in 1 .. t : p = <<a, i>>
    BY DEF ArenaSlots
  <1>5. \A i \in 1 .. t : <<a, i>> \in ArenaSlots(a)
    BY DEF ArenaSlots
  <1>6. \A p \in Range(x.freePools) : p \in Pools
    BY <1>2, RangeElements
  <1>7. \A p \in Pools : Carved(al, p) /\ p[1] = a <=> p[1] = a /\ p[2] < b
    BY DEF Carved
  <1>8. \A p \in ArenaSlots(a) : p \in Untouched(a) <=> p[2] >= b
    BY DEF Untouched
  <1>9. a \in ActiveArenas <=> t > 0
    BY DEF ActiveArenas
  <1>10. Returned(a) = Range(x.freePools)
    BY DEF Returned
  <1> HIDE DEF x, t, b
  <1>11. \A p \in Pools : p = <<p[1], p[2]>> /\ p[2] \in 1 .. ArenaPools /\ p[2] \in Nat /\ p[2] >= 1
    BY <1>2, Places
  <1>12. \A i \in 1 .. t : i \in 1 .. ArenaPools /\ i \in Nat /\ <<a, i>> \in Pools
    <2> SUFFICES ASSUME NEW i \in 1 .. t PROVE i \in 1 .. ArenaPools /\ i \in Nat /\ <<a, i>> \in Pools
      OBVIOUS
    <2>1. i \in 1 .. ArenaPools /\ i \in Nat
      BY <1>2
    <2> QED BY <2>1, Places
  <1>13. ArenaSlots(a) \in SUBSET Pools
    BY <1>4, <1>12
  <1>14. ASSUME NEW p \in Pools PROVE p \in ArenaSlots(a) <=> p[1] = a /\ p[2] <= t
    <2>1. ASSUME p \in ArenaSlots(a) PROVE p[1] = a /\ p[2] <= t
      <3>1. PICK i \in 1 .. t : p = <<a, i>>
        BY <2>1, <1>4
      <3> QED BY <3>1, <1>2
    <2>2. ASSUME p[1] = a, p[2] <= t PROVE p \in ArenaSlots(a)
      <3>1. p[2] \in 1 .. t /\ p = <<a, p[2]>>
        BY <2>2, <1>2, <1>11
      <3> QED BY <3>1, <1>5
    <2> QED BY <2>1, <2>2
  <1>15. ASSUME NEW p \in Pools, p[1] = a, p[2] < b PROVE p \in ArenaSlots(a) /\ a \in ActiveArenas
    <2>1. p[2] \in Nat /\ p[2] >= 1 /\ p[2] <= t /\ t > 0
      BY <1>15, <1>2, <1>3, <1>11
    <2> QED BY <2>1, <1>9, <1>14, <1>15
  <1>16. \A p \in ArenaSlots(a) : p \in Pools /\ p[1] = a /\ (p[2] >= b <=> ~(p[2] < b))
    <2> SUFFICES ASSUME NEW p \in ArenaSlots(a) PROVE p \in Pools /\ p[1] = a /\ (p[2] >= b <=> ~(p[2] < b))
      OBVIOUS
    <2>1. p \in Pools /\ p[1] = a
      BY <1>13, <1>14
    <2>2. p[2] \in Nat
      BY <2>1, <1>11
    <2> QED BY <2>1, <2>2, <1>2
  <1> QED BY <1>3, <1>6, <1>7, <1>8, <1>10, <1>13, <1>14, <1>15, <1>16 DEF t, x

\* The pools of an arena that were never carved, counted.
LEMMA UntouchedCount ==
  ASSUME PoolInv, NEW a \in Arenas
  PROVE  Cardinality(Untouched(a)) = al.arena[a].total - (al.arena[a].bump - 1)
  <1> DEFINE t == al.arena[a].total
             b == al.arena[a].bump
             n == t - (b - 1)
             s == [i \in 1 .. n |-> <<a, (b - 1) + i>>]
             S == {a} \X Nat
  <1>1. al \in Heaps /\ ArenaOk(al, a)
    BY InvFacts DEF Settled, Good, Core
  <1>2. t \in 0 .. ArenaPools /\ b \in Nat \ {0} /\ ArenaPools \in Nat /\ b <= t + 1
    BY <1>1, ArenaTypes, Sizing DEF ArenaOk
  <1>3. Untouched(a) = {p \in {<<a, i>> : i \in 1 .. t} : p[2] >= b}
    BY DEF Untouched, ArenaSlots
  <1> HIDE DEF t, b
  <1>4. n \in Nat /\ \A i \in 1 .. n : (b - 1) + i \in Nat /\ (b - 1) + i \in 1 .. t /\ (b - 1) + i >= b
    BY <1>2
  <1>5. \A j \in 1 .. t : j >= b => j - (b - 1) \in 1 .. n /\ (b - 1) + (j - (b - 1)) = j
    BY <1>2
  <1>6. \A i, j \in 1 .. n : (b - 1) + i = (b - 1) + j => i = j
    BY <1>2, <1>4
  <1>7. Range(s) = Untouched(a)
    <2>1. \A i \in 1 .. n : s[i] \in Untouched(a)
      BY <1>3, <1>4
    <2>2. ASSUME NEW p \in Untouched(a) PROVE \E i \in 1 .. n : s[i] = p
      <3>1. PICK j \in 1 .. t : p = <<a, j>> /\ j >= b
        BY <2>2, <1>3
      <3>2. j - (b - 1) \in 1 .. n /\ (b - 1) + (j - (b - 1)) = j
        BY <3>1, <1>5
      <3>3. s[j - (b - 1)] = p
        BY <3>1, <3>2
      <3> QED BY <3>2, <3>3
    <2>3. Range(s) = {s[i] : i \in 1 .. n}
      BY DEF Range
    <2> HIDE DEF s, n
    <2> QED BY <2>1, <2>2, <2>3
  <1>8. IsInjective(s)
    <2>1. \A i, j \in 1 .. n : s[i] = s[j] => i = j
      BY <1>6
    <2>2. DOMAIN s = 1 .. n
      OBVIOUS
    <2> HIDE DEF s, n
    <2> QED BY <2>1, <2>2 DEF IsInjective
  <1>9. s \in Seq(S) /\ Len(s) = n
    <2>1. \A i \in 1 .. n : <<a, (b - 1) + i>> \in S
      BY <1>4
    <2> HIDE DEF n, S
    <2> QED BY <2>1, <1>4
  <1> HIDE DEF s, S, n
  <1>10. Cardinality(Untouched(a)) = n
    BY <1>7, <1>8, <1>9, LengthCounts
  <1> QED BY <1>10 DEF n, t, b

\* The pools of an arena in use are listed or full, the others are not listed.
LEMMA UsePlaces ==
  ASSUME PoolInv, NEW p \in Pools
  PROVE  /\ InUse(al, p) => \/ p \in Linked(p[1])
                            \/ al.pool[p].free = 0
         /\ InUse(al, p) <=> Carved(al, p) /\ p \notin Returned(p[1])
         /\ \A a \in Arenas : p \in Linked(a) => InUse(al, p)
         /\ \A c \in Classes : p \in Range(al.used[c]) =>
               InUse(al, p) /\ al.pool[p].class = c /\ al.pool[p].free > 0
  <1>1. al \in Heaps /\ PoolOk(al, p) /\ \A c \in Classes : UsedOk(al, c)
    BY InvFacts DEF Settled, Good, Core
  <1>2. \A c \in Classes : p \in Range(al.used[c]) <=> InUse(al, p) /\ al.pool[p].class = c /\ al.pool[p].free > 0
    BY <1>1 DEF UsedOk
  <1>3. \A a \in Arenas : p \in Linked(a) => \E c \in Classes : p \in Range(al.used[c])
    BY DEF Linked
  <1>4. InUse(al, p) => p \in Linked(p[1]) \/ al.pool[p].free = 0
    <2> SUFFICES ASSUME InUse(al, p), al.pool[p].free # 0 PROVE p \in Linked(p[1])
      OBVIOUS
    <2>1. Carved(al, p)
      BY DEF InUse
    <2>2. al.pool[p].class \in Classes /\ al.pool[p].free \in Nat
      BY <1>1, <2>1 DEF PoolOk
    <2>3. p \in Range(al.used[al.pool[p].class])
      BY <2>2, <1>2
    <2>4. p \in ArenaSlots(p[1])
      BY <2>1, Places, SlotPools
    <2> QED BY <2>2, <2>3, <2>4 DEF Linked
  <1>5. InUse(al, p) <=> Carved(al, p) /\ p \notin Returned(p[1])
    BY DEF InUse, Returned
  <1> QED BY <1>2, <1>3, <1>4, <1>5

\* The invariant puts every pool in one place.
LEMMA InvOnePlace ==
  ASSUME PoolInv
  PROVE  PoolsInOnePlace
  <1>1. al \in Heaps /\ Core(al)
    BY InvFacts DEF Settled, Good
  <1>2. ASSUME NEW c \in Classes
        PROVE  /\ IsInjective(al.used[c])
               /\ \A p \in Range(al.used[c]) : al.pool[p].class = c /\ al.pool[p].free > 0 /\ p[1] \in ActiveArenas
    <2>1. IsInjective(al.used[c])
      BY <1>1 DEF Core, UsedOk
    <2>2. ASSUME NEW p \in Range(al.used[c])
          PROVE  al.pool[p].class = c /\ al.pool[p].free > 0 /\ p[1] \in ActiveArenas
      <3>1. al.used[c] \in Seq(Pools)
        BY <1>1 DEF Heaps
      <3>2. p \in Pools
        BY <3>1, RangeElements
      <3>3. InUse(al, p) /\ al.pool[p].class = c /\ al.pool[p].free > 0
        BY <3>2, UsePlaces
      <3>4. p[1] \in Arenas /\ Carved(al, p)
        BY <3>2, <3>3, Places DEF InUse
      <3> QED BY <3>2, <3>3, <3>4, SlotPools
    <2> QED BY <2>1, <2>2
  <1>3. ASSUME NEW a \in ActiveArenas
        PROVE  /\ IsInjective(al.arena[a].freePools)
               /\ ArenaSlots(a) = Untouched(a) \cup Returned(a) \cup Linked(a) \cup Full(a)
               /\ (Untouched(a) \cup Returned(a)) \cap Linked(a) = {}
               /\ Untouched(a) \cap Returned(a) = {}
               /\ al.arena[a].free = Cardinality(Untouched(a)) + Cardinality(Returned(a))
    <2>1. a \in Arenas
      BY DEF ActiveArenas
    <2>2. ArenaOk(al, a)
      BY <1>1, <2>1 DEF Core
    <2>3. IsInjective(al.arena[a].freePools)
      BY <2>2 DEF ArenaOk
    <2>4. /\ ArenaSlots(a) \in SUBSET Pools
          /\ \A p \in ArenaSlots(a) : p[1] = a /\ (p \in Untouched(a) <=> ~Carved(al, p))
          /\ \A p \in Returned(a) : p \in ArenaSlots(a) /\ Carved(al, p)
          /\ \A p \in Untouched(a) \cup Linked(a) \cup Full(a) : p \in ArenaSlots(a)
      <3>1. Untouched(a) \cup Linked(a) \cup Full(a) \subseteq ArenaSlots(a)
        BY DEF Untouched, Linked, Full
      <3> QED BY <3>1, <2>1, SlotPools
    <2>5. ASSUME NEW p \in ArenaSlots(a)
          PROVE  /\ p \in Untouched(a) \cup Returned(a) \cup Linked(a) \cup Full(a)
                 /\ p \in Linked(a) => p \notin Untouched(a) \cup Returned(a)
      <3>1. p \in Pools /\ p[1] = a
        BY <2>4
      <3>2. /\ InUse(al, p) <=> Carved(al, p) /\ p \notin Returned(a)
            /\ InUse(al, p) => p \in Linked(a) \/ al.pool[p].free = 0
            /\ p \in Linked(a) => InUse(al, p)
        BY <2>1, <3>1, UsePlaces
      <3>3. p \in Full(a) <=> p \notin Untouched(a) \cup Returned(a) /\ al.pool[p].free = 0
        BY DEF Full
      <3> QED BY <3>2, <3>3, <2>4
    <2>6. ArenaSlots(a) = Untouched(a) \cup Returned(a) \cup Linked(a) \cup Full(a)
      BY <2>4, <2>5
    <2>7. (Untouched(a) \cup Returned(a)) \cap Linked(a) = {}
      BY <2>4, <2>5
    <2>8. Untouched(a) \cap Returned(a) = {}
      BY <2>4
    <2>9. al.arena[a].free = Cardinality(Untouched(a)) + Cardinality(Returned(a))
      <3> DEFINE x == al.arena[a]
                 n == x.total - (x.bump - 1)
      <3>1. /\ x.freePools \in Seq(Pools) /\ x.total \in 0 .. ArenaPools /\ x.bump \in Nat \ {0}
            /\ ArenaPools \in Nat
        BY <1>1, <2>1, ArenaTypes, Sizing
      <3>2. x.free = n + Len(x.freePools)
        BY <2>2 DEF ArenaOk
      <3>3. Cardinality(Untouched(a)) = n
        BY <2>1, UntouchedCount
      <3>4. Cardinality(Returned(a)) = Len(x.freePools)
        BY <2>3, <3>1, LengthCounts DEF Returned
      <3> HIDE DEF n
      <3> QED BY <3>2, <3>3, <3>4
    <2> QED BY <2>3, <2>6, <2>7, <2>8, <2>9
  <1> QED BY <1>2, <1>3 DEF PoolsInOnePlace

\* A pool is in exactly one place.
THEOREM OnePlace == Spec => []PoolsInOnePlace
  <1>1. PoolInv => PoolsInOnePlace
    BY InvOnePlace
  <1> QED BY <1>1, Invariant, PTL

\* A whole number of blocks is counted by dividing by their size.
LEMMA WholeBlocks ==
  ASSUME NEW n \in Nat, NEW z \in Nat \ {0}
  PROVE  (n * z) \div z = n
  <1>1. n * z \in Nat
    OBVIOUS
  <1> QED BY <1>1

\* The invariant counts the blocks that are held.
LEMMA InvHeldCounted ==
  ASSUME PoolInv
  PROVE  BlocksHeldAreCounted
  <1>1. /\ al \in Heaps /\ Core(al) /\ live \in [Pools -> Nat]
        /\ \A p \in Pools : al.pool[p].ref = live[p]
    BY InvFacts DEF PoolInv, Serves, Settled, Good
  <1>2. ASSUME NEW p \in Pools, live[p] > 0
        PROVE  /\ p \notin Untouched(p[1]) \cup Returned(p[1]) /\ p[1] \in ActiveArenas
               /\ (al.pool[p].next - PoolHeader) \div BlockSize(al.pool[p].class) = al.pool[p].ref + al.pool[p].free
    <2> DEFINE q == al.pool[p]
               n == q.ref + q.free
               z == BlockSize(q.class)
    <2>1. PoolOk(al, p) /\ q.ref # 0
      BY <1>1, <1>2 DEF Core
    <2>2. Carved(al, p)
      BY <2>1 DEF PoolOk, RawPool
    <2>3. q.class \in Classes /\ n \in Nat /\ q.next = PoolHeader + n * z /\ InUse(al, p)
      BY <2>1, <2>2 DEF PoolOk
    <2>4. p \notin Returned(p[1]) /\ p[1] \in Arenas
      BY <2>3, UsePlaces, Places
    <2>5. p \notin Untouched(p[1]) /\ p[1] \in ActiveArenas
      <3>1. p \in ArenaSlots(p[1]) /\ p[1] \in ActiveArenas
        BY <2>2, <2>4, SlotPools
      <3> QED BY <3>1, <2>2, <2>4, SlotPools
    <2>6. z \in Nat \ {0}
      BY <2>3, Blocks
    <2>7. (q.next - PoolHeader) \div z = n
      <3> HIDE DEF z, n, q
      <3>1. n * z \in Nat /\ PoolHeader \in Nat
        BY <2>3, <2>6, Sizing
      <3>2. q.next - PoolHeader = n * z
        BY <2>3, <3>1
      <3> QED BY <3>2, <2>3, <2>6, WholeBlocks
    <2> QED BY <2>4, <2>5, <2>7
  <1> QED BY <1>1, <1>2 DEF BlocksHeldAreCounted

\* No block in a caller's hands is forgotten by its pool, and no pool with one
\* leaves its arena.
THEOREM HeldCounted == Spec => []BlocksHeldAreCounted
  <1>1. PoolInv => BlocksHeldAreCounted
    BY InvHeldCounted
  <1> QED BY <1>1, Invariant, PTL

\* The invariant counts the kept pools, which hold no arena.
LEMMA InvKept ==
  ASSUME PoolInv
  PROVE  KeptPoolsCounted /\ KeptPoolsHoldNoArena
  <1>1. al \in Heaps /\ Core(al) /\ EmptyKept(al, {}) /\ Hold(al, {}) /\ Frugal(al, {})
    BY InvFacts DEF Settled, Good
  <1>2. \A a \in ActiveArenas : a \in Arenas
    BY DEF ActiveArenas
  <1>3. \A a \in ActiveArenas :
          al.arena[a].kept = Cardinality({c \in Classes : al.kept[c] # NoPool /\ al.kept[c][1] = a})
    BY <1>1, <1>2 DEF Core, ArenaOk, KeptBy
  <1>4. \A c \in Classes : \A p \in Range(al.used[c]) : al.pool[p].ref = 0 => al.kept[c] = p
    BY <1>1 DEF EmptyKept
  <1>5. ASSUME NEW c \in Classes, al.kept[c] # NoPool
        PROVE  al.maxHeap = 0 /\ al.kept[c][1] \in ActiveArenas /\ al.pool[al.kept[c]].class = c
    <2> DEFINE p == al.kept[c]
    <2>1. p \in Pools
      BY <1>1, <1>5 DEF Heaps
    <2>2. InUse(al, p) /\ al.pool[p].class = c
      BY <1>1, <1>5 DEF Core, KeptOk
    <2>3. al.maxHeap = 0
      BY <1>1, <1>5 DEF Frugal
    <2> HIDE DEF p
    <2>4. p[1] \in Arenas /\ Carved(al, p)
      BY <2>1, <2>2, Places DEF InUse
    <2>5. p[1] \in ActiveArenas
      BY <2>1, <2>4, SlotPools
    <2> QED BY <2>2, <2>3, <2>5 DEF p
  <1>6. KeptPoolsCounted
    BY <1>3, <1>4, <1>5 DEF KeptPoolsCounted
  <1>7. KeptPoolsHoldNoArena
    BY <1>1, <1>2 DEF KeptPoolsHoldNoArena, Hold
  <1> QED BY <1>6, <1>7

\* The kept pools of an arena are counted, and a pool without a block out is
\* either kept or off every list of used pools.
THEOREM KeptCounted == Spec => []KeptPoolsCounted
  <1>1. PoolInv => KeptPoolsCounted
    BY InvKept
  <1> QED BY <1>1, Invariant, PTL

\* Kept pools never keep an arena from the host.
THEOREM KeptHoldNoArena == Spec => []KeptPoolsHoldNoArena
  <1>1. PoolInv => KeptPoolsHoldNoArena
    BY InvKept
  <1> QED BY <1>1, Invariant, PTL

\* The invariant orders the usable arenas and retains at most one free one.
LEMMA InvArenas ==
  ASSUME PoolInv
  PROVE  UsableArenasOrdered /\ OneFreeArena
  <1>1. al \in Heaps /\ Core(al) /\ UsableOk(al) /\ OneFree(al) /\ Frugal(al, {}) /\ al.maxHeap \in Budgets
    BY InvFacts DEF Settled, Good
  <1>2. \A a \in Arenas : al.arena[a].free > 0 => al.arena[a].total > 0
    <2> SUFFICES ASSUME NEW a \in Arenas, al.arena[a].free > 0 PROVE al.arena[a].total > 0
      OBVIOUS
    <2>1. al.arena[a].free \in Nat /\ al.arena[a].total \in Nat /\ al.arena[a].free <= al.arena[a].total
      BY <1>1, ArenaNumbers
    <2> QED BY <2>1
  <1>3. UsableArenasOrdered
    <2>1. {a \in Arenas \ {} : al.arena[a].free > 0} = {a \in ActiveArenas : al.arena[a].free > 0}
      BY <1>2 DEF ActiveArenas
    <2>2. /\ IsInjective(al.usable) /\ Range(al.usable) = {a \in Arenas \ {} : al.arena[a].free > 0}
          /\ \A i, j \in DOMAIN al.usable : i < j => al.arena[al.usable[i]].free <= al.arena[al.usable[j]].free
      BY <1>1 DEF UsableOk, Listed, Sorted
    <2> QED BY <2>1, <2>2 DEF UsableArenasOrdered
  <1>4. \A a \in FreeArenas : a \in Arenas /\ FreeArena(al, a)
    BY DEF FreeArenas, ActiveArenas, FreeArena
  <1>5. \A a \in FreeArenas : Last(al.usable) = a
    BY <1>1, <1>4 DEF OneFree, FreeLast
  <1>6. Cardinality(FreeArenas) <= IF al.maxHeap = 0 THEN 1 ELSE 0
    <2>1. CASE al.maxHeap # 0
      <3>1. FreeArenas = {}
        BY <1>1, <1>4, <2>1 DEF Frugal
      <3> QED BY <3>1, <2>1, FS_EmptySet
    <2>2. CASE al.maxHeap = 0
      <3>1. FreeArenas = {} \/ FreeArenas = {Last(al.usable)}
        BY <1>5
      <3>2. Cardinality({}) = 0 /\ Cardinality({Last(al.usable)}) = 1
        BY FS_EmptySet, FS_Singleton
      <3> QED BY <3>1, <3>2, <2>2
    <2> QED BY <2>1, <2>2
  <1> QED BY <1>3, <1>5, <1>6 DEF OneFreeArena

\* The arenas that can serve a request are listed, the fullest first.
THEOREM ArenasOrdered == Spec => []UsableArenasOrdered
  <1>1. PoolInv => UsableArenasOrdered
    BY InvArenas
  <1> QED BY <1>1, Invariant, PTL

\* At most one arena without a pool in use is retained, none under a budget.
THEOREM FreeArenaAlone == Spec => []OneFreeArena
  <1>1. PoolInv => OneFreeArena
    BY InvArenas
  <1> QED BY <1>1, Invariant, PTL

\* What a checked request under a heap budget may do to the heap.
LEMMA CheckedRequest ==
  ASSUME PoolInv, NEW size \in Requests, NEW checked \in BOOLEAN, al.maxHeap # 0, Allocate(size, checked)
  PROVE  checked =>
         /\ al'.bytes > al.bytes => al'.bytes <= al.maxHeap
         /\ UNCHANGED <<live, large>> /\ ~al'.refused => al' = al
  <1>0. SUFFICES ASSUME checked
                 PROVE  /\ al'.bytes > al.bytes => al'.bytes <= al.maxHeap
                        /\ UNCHANGED <<live, large>> /\ ~al'.refused => al' = al
    OBVIOUS
  <1>1. /\ al \in Heaps /\ Serves(al, live, large) /\ al.maxHeap \in Budgets /\ al.bytes \in Int
        /\ live \in [Pools -> Nat] /\ large \in [LargeSizes -> Nat]
    BY InvFacts DEF PoolInv
  <1>2. WithinBounds(size)
    BY DEF Allocate
  <1>3. al.maxHeap \in Nat /\ size \in Nat \ {0} /\ (size > SmallRequest => size \in LargeSizes)
    <2>1. Budgets \subseteq Nat
      BY Sizing
    <2> QED BY <2>1, <1>1, LargeSet DEF Requests
  <1>4. CASE size <= SmallRequest
    <2>1. PICK r \in SmallOutcomes(al, SizeClass(size), checked) :
            /\ al' = r[1]
            /\ live' = IF r[2] = NoPool THEN live ELSE [live EXCEPT ![r[2]] = @ + 1]
            /\ large' = large
      BY <1>4 DEF Allocate
    <2>2. r[2] = NoPool => Refused(r[1], al, checked)
      BY <1>2, <1>4, RequestSmall
    <2>3. r[2] # NoPool => Gave(r[1], al, r[2], checked)
      BY <1>2, <1>4, RequestSmall
    <2>4. CASE r[2] = NoPool
      <3>1. /\ al'.refused \/ al' = al
            /\ al'.bytes <= al.bytes \/ al'.bytes <= al.maxHeap
            /\ al'.bytes \in Int
        <4>1. r[1] \in Heaps
          BY <2>2, <2>4 DEF Refused, Settled, Good
        <4>2. r[1].bytes \in Int
          BY <4>1 DEF Heaps
        <4> QED BY <4>2, <2>1, <2>2, <2>4, <1>0 DEF Refused
      <3> QED BY <3>1, <1>1, <1>3
    <2>5. CASE r[2] # NoPool
      <3>1. /\ al'.bytes <= al.bytes \/ al'.bytes <= al.maxHeap
            /\ al'.bytes \in Int /\ r[2] \in Pools
        <4>1. r[1] \in Heaps
          BY <2>3, <2>5 DEF Gave, Settled, Good
        <4>2. r[1].bytes \in Int
          BY <4>1 DEF Heaps
        <4> QED BY <4>2, <2>1, <2>3, <2>5, <1>0 DEF Gave
      <3>2. live' # live
        <4>1. live'[r[2]] = live[r[2]] + 1 /\ live[r[2]] \in Nat
          BY <2>1, <2>5, <3>1, <1>1
        <4> QED BY <4>1
      <3> QED BY <3>1, <3>2, <1>1, <1>3
    <2> QED BY <2>4, <2>5
  <1>5. CASE ~(size <= SmallRequest)
    <2>1. PICK r \in HostOutcomes(al, size, checked) :
            /\ al' = r[1]
            /\ large' = IF r[2] THEN [large EXCEPT ![size] = @ + 1] ELSE large
            /\ live' = live
      BY <1>5 DEF Allocate
    <2>2. size \in LargeSizes
      BY <1>3, <1>5, Sizing
    <2>3. /\ r[2] \in BOOLEAN
          /\ ~r[2] => r[1].bytes = al.bytes /\ (r[1].refused \/ r[1] = al)
          /\ r[2] => r[1].bytes = al.bytes + size /\ (checked => Fits(al, size))
      <3>1. r \in HostOutcomes(al, size, checked)
        BY <2>1
      <3>2. al \in Heaps /\ size \in Int /\ size > 0
        BY <1>1, <1>3
      <3>3. r[2] \in BOOLEAN /\ (~r[2] => r[1].bytes = al.bytes /\ (r[1].refused \/ r[1] = al))
        BY <3>1, <3>2, HostAnswers
      <3>4. r[2] => r[1].bytes = al.bytes + size /\ (checked => Fits(al, size))
        BY <3>1, <3>2, HostAnswers
      <3> QED BY <3>3, <3>4
    <2>4. CASE r[2]
      <3>1. al'.bytes = al.bytes + size /\ Fits(al, size)
        BY <2>1, <2>3, <2>4, <1>0
      <3>2. al.bytes + size <= al.maxHeap
        BY <3>1, <1>1, <1>3 DEF Fits
      <3>3. large' # large
        <4>1. large'[size] = large[size] + 1 /\ large[size] \in Nat
          BY <2>1, <2>2, <2>4, <1>1
        <4> QED BY <4>1
      <3> QED BY <3>1, <3>2, <3>3
    <2>5. CASE ~r[2]
      BY <2>1, <2>3, <2>5, <1>1
    <2> QED BY <2>3, <2>4, <2>5
  <1> QED BY <1>4, <1>5

\* A checked request never takes the heap past the budget of its VM.
THEOREM CheckedInBudget == Spec => CheckedStaysInBudget
  <1> DEFINE A == \A size \in Requests :
                     al.maxHeap # 0 /\ Allocate(size, TRUE) /\ al'.bytes > al.bytes => al'.bytes <= al.maxHeap
  <1>1. PoolInv /\ [Next]_vars => [A]_vars
    <2>1. TRUE \in BOOLEAN
      OBVIOUS
    <2> QED BY <2>1, CheckedRequest
  <1>2. CheckedStaysInBudget <=> [][A]_vars
    BY PTL DEF CheckedStaysInBudget
  <1> HIDE DEF A
  <1> QED BY <1>1, <1>2, Invariant, PTL DEF Spec

\* A checked request the budget refuses leaves the allocator as it was.
THEOREM RefusalFree == Spec => RefusalTakesNothing
  <1> DEFINE A == \A size \in Requests :
                     al.maxHeap # 0 /\ Allocate(size, TRUE) /\ UNCHANGED <<live, large>> /\ ~al'.refused => al' = al
  <1>1. PoolInv /\ [Next]_vars => [A]_vars
    <2>1. TRUE \in BOOLEAN
      OBVIOUS
    <2> QED BY <2>1, CheckedRequest
  <1>2. RefusalTakesNothing <=> [][A]_vars
    BY PTL DEF RefusalTakesNothing
  <1> HIDE DEF A
  <1> QED BY <1>1, <1>2, Invariant, PTL DEF Spec

\* The arena table moves only while no list of arenas points into it.
THEOREM TableMovesSafely == Spec => TableMovesUnreferenced
  <1>1. PoolInv /\ [Next]_vars => [TableSafe]_vars
    BY InvNext
  <1>2. TableMovesUnreferenced <=> [][TableSafe]_vars
    BY PTL DEF TableMovesUnreferenced, TableSafe
  <1> HIDE DEF TableSafe
  <1> QED BY <1>1, <1>2, Invariant, PTL DEF Spec
=============================================================================
