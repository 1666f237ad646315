----------------------------- MODULE Dict_proofs -----------------------------
(***************************************************************************)
(* What the table of Dict promises for all keys, hashes and sizes.  With   *)
(* any operations nested in key comparisons its counts are exact, and keys *)
(* are lost only after what the runs dict_full and dict_again show.  While *)
(* comparisons leave the table alone, every key is where its probe meets   *)
(* it, an empty slot is left to end the probes, and the table is the map   *)
(* of DictMap.                                                             *)
(***************************************************************************)
EXTENDS Dict, FiniteSetTheorems, SequenceTheorems, WellFoundedInduction, TLAPS

-----------------------------------------------------------------------------
(* The inductive invariant.                                                *)

NonEmpty(t) == {i \in DOMAIN t : t[i].key # Empty}

\* A rebuild moves a table into one that has room for all of its entries.
RebuildOk ==
    Rebuilds => /\ \E m \in Masks : old \in [0 .. m -> Slots] /\ next \in 0 .. m + 1
                /\ used <= mask
                /\ \A i \in 0 .. mask : table[i].key # Dummy

\* What a frame remembers: slots of the table it started with, which need not
\* be the table there is now.
FrameOk(f) ==
    /\ f.pc = "merge" => f.left \in Nat
    /\ f.pc # "merge" => /\ f.key \in Key
                         /\ f.op \in {"set", "insert", "setdefault"} => f.value \in Value
    /\ f.pc \in {"probe", "compare"} => f.mask \in Masks /\ f.dummy \in {None} \cup 0 .. f.mask
    /\ f.pc = "compare" => f.index \in 0 .. f.mask /\ f.stored \in Key

\* The innermost frame, unless a comparison or a merge is running, knows the
\* table as it is, and a slot that was found is live.
Fits(f, t, m, o) ==
    /\ f.pc = "probe" => o = <<>> /\ f.mask = m
    /\ f.pc = "ended" => /\ o = <<>> /\ f.index \in 0 .. m
                         /\ f.found => IsActive(t[f.index])
FramesOk ==
    /\ \A i \in 1 .. Len(stack) : FrameOk(stack[i])
    /\ \A i \in 1 .. Len(stack) - 1 : stack[i].pc = "compare"
    /\ stack # <<>> => Fits(Top, table, mask, old)

TableOk ==
    /\ mask \in Masks
    /\ table \in [0 .. mask -> Slots]
    /\ fill \in Nat /\ used \in Nat
    /\ home \in Addr \cup {Small} /\ (home = Small <=> mask = MinSize - 1)
    /\ finger \in Nat
    /\ next \in Nat

TableInv == TableOk /\ CountsExact /\ RebuildOk
StackInv == stack \in Seq(Frames) /\ FramesOk

IInv == TableInv /\ StackInv

-----------------------------------------------------------------------------
(* Numbers and sets.                                                       *)

\* A set of numbers that is not empty has a least one.
LEMMA BelowWellFounded ==
    \E R : IsWellFoundedOn(R, Nat) /\ \A i, j \in Nat : j < i => <<j, i>> \in R
  <1>1. \A i, j \in Nat : j < i => <<j, i>> \in OpToRel(<, Nat)
    BY DEF OpToRel
  <1>. WITNESS OpToRel(<, Nat)
  <1>. QED  BY <1>1, NatLessThanWellFounded

LEMMA Least ==
    ASSUME NEW S \in SUBSET Nat, S # {}
    PROVE  \E i \in S : \A j \in S : i <= j
  <1>1. PICK R : IsWellFoundedOn(R, Nat) /\ \A i, j \in Nat : j < i => <<j, i>> \in R
    BY BelowWellFounded
  <1>2. PICK i \in S : \A j \in S : <<j, i>> \notin R
    BY <1>1, WFMin
  <1>3. ASSUME NEW j \in S PROVE i <= j
    <2>1. i \in Nat /\ j \in Nat /\ <<j, i>> \notin R
      BY <1>2
    <2>2. ~(j < i)
      BY <1>1, <2>1
    <2>. QED  BY <2>1, <2>2
  <1>. QED  BY <1>3

\* The first of a set of positions.
LEMMA FirstOf ==
    ASSUME NEW n \in Nat, NEW G \in SUBSET (0 .. n), G # {}
    PROVE  /\ \E p \in G : \A q \in 0 .. p - 1 : q \in 0 .. n /\ q \notin G
           /\ \E p \in G : \A q \in G : p <= q
  <1>1. PICK p \in G : \A q \in G : p <= q
    BY Least
  <1>2. ASSUME NEW q \in 0 .. p - 1 PROVE q \in 0 .. n /\ q \notin G
    <2>1. p \in 0 .. n /\ q \in 0 .. n /\ ~(p <= q)
      OBVIOUS
    <2>. QED  BY <2>1, <1>1
  <1>. QED  BY <1>1, <1>2

\* One member more or less.
LEMMA AddMember ==
    ASSUME NEW S, IsFiniteSet(S), NEW x, x \notin S
    PROVE  Cardinality(S) \in Nat /\ Cardinality(S \cup {x}) = Cardinality(S) + 1
  BY FS_AddElement, FS_CardinalityType

LEMMA RemoveMember ==
    ASSUME NEW S, IsFiniteSet(S), NEW x, x \in S
    PROVE  Cardinality(S) \in Nat \ {0} /\ Cardinality(S \ {x}) = Cardinality(S) - 1
  <1>1. IsFiniteSet(S \ {x}) /\ Cardinality(S \ {x}) = Cardinality(S) - 1
    BY FS_RemoveElement
  <1>. QED  BY <1>1, FS_CardinalityType

LEMMA Product ==
    ASSUME NEW a \in Nat, NEW g \in Nat \ {0}
    PROVE  a * g \in Nat /\ a * g >= a
  OBVIOUS

-----------------------------------------------------------------------------
(* Tables.                                                                 *)

LEMMA MaskFacts ==
    ASSUME NEW m \in Masks
    PROVE  m \in Nat /\ m + 1 \in Sizes /\ 0 .. m \subseteq 0 .. MaxSize - 1 /\ m < MaxSize
  BY DictAssumption DEF Masks, Sizes

LEMMA SizeFacts ==
    /\ \A n \in Sizes : n \in Nat \ {0} /\ n - 1 \in Masks
    /\ MinSize - 1 \in Masks /\ MinSize \in Nat \ {0}
    /\ Last \in Nat /\ \A m \in Masks : Last - m \in 0 .. Last
  <1>1. \A n \in Sizes : n \in Nat \ {0} /\ n - 1 \in Masks
    BY DEF Masks, Sizes
  <1>2. Last \in Nat /\ Last = 13 + 2 * MaxSize
    BY DictAssumption DEF Last
  <1>3. \A m \in Masks : Last - m \in 0 .. Last
    BY <1>2, MaskFacts, DictAssumption
  <1>. QED  BY <1>1, <1>2, <1>3, DictAssumption

\* A probe stays in the table and gets everywhere.
LEMMA WalkFacts ==
    ASSUME NEW k \in Key, NEW m \in Masks
    PROVE  /\ \A p \in 0 .. Last : Walk[Hash[k], m, p] \in 0 .. m
           /\ \A i \in 0 .. m : \E p \in 0 .. Last : Walk[Hash[k], m, p] = i
  <1>1. Hash[k] \in Hashes
    BY DEF Hashes
  <1>2. {Walk[Hash[k], m, p] : p \in 0 .. Last} = 0 .. m
    BY <1>1, WalkAssumption
  <1>. QED  BY <1>2

LEMMA CapacityFacts ==
    ASSUME NEW n \in Nat, Bounded(n)
    PROVE  Capacity(n) \in Sizes /\ Capacity(n) > n
  <1>. DEFINE S == {c \in Sizes : c > n}
  <1>1. S \in SUBSET Nat /\ S # {}
    BY SizeFacts DEF Bounded
  <1>2. \E c \in S : \A d \in S : c <= d
    BY <1>1, Least
  <1>3. \E c \in Sizes : c > n /\ \A d \in Sizes : d > n => c <= d
    BY <1>2
  <1>. QED  BY <1>3 DEF Capacity

\* The live slots and the slots that are not empty can be counted.
LEMMA CountFacts ==
    ASSUME NEW m \in Masks, NEW t \in [0 .. m -> Slots]
    PROVE  /\ DOMAIN t = 0 .. m
           /\ ActiveSlots(t) \subseteq 0 .. m /\ NonEmpty(t) \subseteq 0 .. m
           /\ IsFiniteSet(ActiveSlots(t)) /\ IsFiniteSet(NonEmpty(t))
           /\ Cardinality(ActiveSlots(t)) \in Nat /\ Cardinality(NonEmpty(t)) \in Nat
           /\ IsFiniteSet(0 .. m) /\ Cardinality(0 .. m) = m + 1
  <1>1. IsFiniteSet(0 .. m) /\ Cardinality(0 .. m) = m + 1
    BY FS_Interval, MaskFacts
  <1>2. DOMAIN t = 0 .. m /\ ActiveSlots(t) \subseteq 0 .. m /\ NonEmpty(t) \subseteq 0 .. m
    BY DEF ActiveSlots, NonEmpty
  <1>3. IsFiniteSet(ActiveSlots(t)) /\ IsFiniteSet(NonEmpty(t))
    BY <1>1, <1>2, FS_Subset
  <1>. QED  BY <1>1, <1>2, <1>3, FS_CardinalityType

\* The kinds of slots.
LEMMA SlotFacts ==
    /\ Free \in Slots /\ Deleted \in Slots
    /\ \A k \in Key, v \in Value : Entry(k, v) \in Slots /\ IsActive(Entry(k, v)) /\ Entry(k, v).key = k
    /\ \A e \in Slots : /\ IsActive(e) => e.key # Empty /\ e.key # Dummy /\ e.value \in Value
                        /\ ~IsActive(e) => e.key \in {Empty, Dummy}
    /\ ~IsActive(Free) /\ ~IsActive(Deleted)
    /\ Free.key = Empty /\ Deleted.key = Dummy /\ Deleted.key # Empty /\ Free.key # Dummy
  BY DictAssumption DEF Slots, Free, Deleted, Entry, IsActive

LEMMA EmptyTableFacts ==
    ASSUME NEW m \in Masks
    PROVE  /\ EmptyTable(m) \in [0 .. m -> Slots]
           /\ ActiveSlots(EmptyTable(m)) = {} /\ NonEmpty(EmptyTable(m)) = {}
           /\ \A i \in 0 .. m : EmptyTable(m)[i].key = Empty
  BY SlotFacts DEF EmptyTable, ActiveSlots, NonEmpty

\* A rebuild finds a place for the next entry while there is one slot that is
\* not live.
LEMMA CleanSlotFacts ==
    ASSUME NEW m \in Masks, NEW t, NEW k \in Key, NEW s \in 0 .. m, ~IsActive(t[s])
    PROVE  CleanSlot(t, Hash[k], m) \in 0 .. m /\ ~IsActive(t[CleanSlot(t, Hash[k], m)])
  <1>. DEFINE W(p) == Walk[Hash[k], m, p]
              G == {p \in 0 .. Last : ~IsActive(t[W(p)])}
  <1>1. PICK p \in 0 .. Last : W(p) = s
    BY WalkFacts
  <1>2. G \in SUBSET (0 .. Last) /\ G # {}
    BY <1>1, Zenon
  <1>3. Last \in Nat
    BY SizeFacts
  <1>4. \E p1 \in G : \A q \in 0 .. p1 - 1 : q \in 0 .. Last /\ q \notin G
    <2>. HIDE DEF G
    <2>. QED  BY <1>2, <1>3, FirstOf
  <1>5. \E p1 \in 0 .. Last : ~IsActive(t[W(p1)]) /\ \A q \in 0 .. p1 - 1 : IsActive(t[W(q)])
    BY <1>4, Zenon
  <1>6. PICK p2 \in 0 .. Last : ~IsActive(t[W(p2)]) /\ CleanSlot(t, Hash[k], m) = W(p2)
    BY <1>5, Zenon DEF CleanSlot
  <1>. QED  BY <1>6, WalkFacts, Zenon

\* Writing a slot.
Put(t, i, e) == [t EXCEPT ![i] = e]

LEMMA PutType ==
    ASSUME NEW m \in Masks, NEW t \in [0 .. m -> Slots], NEW i \in 0 .. m, NEW e \in Slots
    PROVE  Put(t, i, e) \in [0 .. m -> Slots]
  BY DEF Put

LEMMA PutLive ==
    ASSUME NEW m \in Masks, NEW t \in [0 .. m -> Slots], NEW i \in 0 .. m, NEW e \in Slots,
           IsActive(e)
    PROVE  ActiveSlots(Put(t, i, e)) = ActiveSlots(t) \cup {i} /\ NonEmpty(Put(t, i, e)) = NonEmpty(t) \cup {i}
  <1>1. Put(t, i, e) = [t EXCEPT ![i] = e] /\ e.key # Empty
    BY SlotFacts DEF Put
  <1>. QED  BY <1>1 DEF ActiveSlots, NonEmpty

LEMMA PutAdded ==
    ASSUME NEW m \in Masks, NEW t \in [0 .. m -> Slots], NEW i \in 0 .. m, NEW e \in Slots,
           IsActive(e), ~IsActive(t[i])
    PROVE  Cardinality(ActiveSlots(Put(t, i, e))) = Cardinality(ActiveSlots(t)) + 1
  <1>1. i \notin ActiveSlots(t)
    BY DEF ActiveSlots
  <1>. QED  BY <1>1, PutLive, CountFacts, AddMember

LEMMA PutOver ==
    ASSUME NEW m \in Masks, NEW t \in [0 .. m -> Slots], NEW i \in 0 .. m, NEW e \in Slots,
           IsActive(e), IsActive(t[i])
    PROVE  Cardinality(ActiveSlots(Put(t, i, e))) = Cardinality(ActiveSlots(t))
  <1>1. i \in ActiveSlots(t)
    BY DEF ActiveSlots
  <1>2. ActiveSlots(Put(t, i, e)) = ActiveSlots(t) \cup {i}
    BY PutLive
  <1>3. ActiveSlots(t) \cup {i} = ActiveSlots(t)
    BY <1>1
  <1>. QED  BY <1>2, <1>3

LEMMA PutFilled ==
    ASSUME NEW m \in Masks, NEW t \in [0 .. m -> Slots], NEW i \in 0 .. m, NEW e \in Slots,
           IsActive(e), t[i].key = Empty
    PROVE  Cardinality(NonEmpty(Put(t, i, e))) = Cardinality(NonEmpty(t)) + 1
  <1>1. i \notin NonEmpty(t)
    BY DEF NonEmpty
  <1>. QED  BY <1>1, PutLive, CountFacts, AddMember

LEMMA PutFull ==
    ASSUME NEW m \in Masks, NEW t \in [0 .. m -> Slots], NEW i \in 0 .. m, NEW e \in Slots,
           IsActive(e), t[i].key # Empty
    PROVE  Cardinality(NonEmpty(Put(t, i, e))) = Cardinality(NonEmpty(t))
  <1>1. i \in NonEmpty(t)
    BY DEF NonEmpty
  <1>2. NonEmpty(Put(t, i, e)) = NonEmpty(t) \cup {i}
    BY PutLive
  <1>3. NonEmpty(t) \cup {i} = NonEmpty(t)
    BY <1>1
  <1>. QED  BY <1>2, <1>3

LEMMA PutDeleted ==
    ASSUME NEW m \in Masks, NEW t \in [0 .. m -> Slots], NEW i \in 0 .. m,
           IsActive(t[i])
    PROVE  /\ Cardinality(ActiveSlots(Put(t, i, Deleted))) = Cardinality(ActiveSlots(t)) - 1
           /\ Cardinality(NonEmpty(Put(t, i, Deleted))) = Cardinality(NonEmpty(t))
  <1>1. Put(t, i, Deleted) = [t EXCEPT ![i] = Deleted]
    BY DEF Put
  <1>2. i \in ActiveSlots(t) /\ ActiveSlots(Put(t, i, Deleted)) = ActiveSlots(t) \ {i}
    BY <1>1, SlotFacts DEF ActiveSlots
  <1>3. NonEmpty(Put(t, i, Deleted)) = NonEmpty(t)
    <2>1. t[i].key # Empty /\ Deleted.key # Empty
      BY SlotFacts
    <2>. QED  BY <1>1, <2>1 DEF NonEmpty
  <1>. QED  BY <1>2, <1>3, CountFacts, RemoveMember

-----------------------------------------------------------------------------
(* What changes of the table keep.                                         *)

\* While nothing is moved, the counts are those of the table.
LEMMA IdleFacts ==
    ASSUME TableOk, ~Rebuilds
    PROVE  /\ Unmoved = {} /\ old = <<>>
           /\ CountsExact <=> /\ used = Cardinality(ActiveSlots(table))
                              /\ fill = Cardinality(NonEmpty(table))
  <1>1. old = <<>> /\ Unmoved = {}
    BY DEF Rebuilds, Unmoved
  <1>2. Cardinality(Unmoved) = 0
    BY <1>1, FS_EmptySet
  <1>3. /\ Cardinality(ActiveSlots(table)) \in Nat
        /\ NonEmpty(table) = {i \in 0 .. mask : table[i].key # Empty}
    <2>1. mask \in Masks /\ table \in [0 .. mask -> Slots]
      BY DEF TableOk
    <2>. QED  BY <2>1, CountFacts DEF NonEmpty
  <1>. QED  BY <1>1, <1>2, <1>3 DEF CountsExact, Rebuilds

LEMMA IdleAfter ==
    ASSUME TableOk', old' = <<>>,
           used' = Cardinality(ActiveSlots(table')), fill' = Cardinality(NonEmpty(table'))
    PROVE  TableInv'
  <1>1. Unmoved' = {} /\ ~Rebuilds'
    BY DEF Rebuilds, Unmoved
  <1>2. Cardinality(Unmoved') = 0
    BY <1>1, FS_EmptySet
  <1>3. mask' \in Masks /\ table' \in [0 .. mask' -> Slots]
    BY DEF TableOk
  <1>4. Cardinality(ActiveSlots(table')) \in Nat
    BY <1>3, CountFacts
  <1>5. NonEmpty(table') = {i \in 0 .. mask' : table'[i].key # Empty}
    BY <1>3 DEF NonEmpty
  <1>6. CountsExact'
    BY <1>1, <1>2, <1>4, <1>5 DEF CountsExact
  <1>7. RebuildOk'
    BY <1>1 DEF RebuildOk
  <1>. QED  BY <1>6, <1>7 DEF TableInv

LEMMA TableKept ==
    ASSUME TableInv, UNCHANGED tableVars
    PROVE  TableInv'
  BY DEF TableInv, TableOk, CountsExact, RebuildOk, Unmoved, Rebuilds, tableVars

\* A table is replaced by one that has room for all of its entries.
LEMMA StartRebuildFacts ==
    ASSUME TableInv, NEW t \in [0 .. mask -> Slots], NEW cap \in Sizes, StartRebuild(t, cap),
           used' = Cardinality(ActiveSlots(t)), used' < cap, fill' \in Nat
    PROVE  TableInv'
  <1>1. mask \in Masks /\ home \in Addr \cup {Small}
    BY DEF TableInv, TableOk
  <1>2. /\ home' \in IF cap = MinSize THEN {Small} ELSE Addr \ {home}
        /\ table' = EmptyTable(cap - 1) /\ mask' = cap - 1 /\ finger' = 0
        /\ old' = t /\ next' = 0
    BY DEF StartRebuild
  <1>3. cap \in Nat \ {0} /\ mask' \in Masks /\ MinSize \in Nat
    BY <1>2, SizeFacts
  <1>4. home' \in Addr \cup {Small} /\ (home' = Small <=> mask' = MinSize - 1)
    <2>1. mask' = MinSize - 1 <=> cap = MinSize
      BY <1>2, <1>3
    <2>. QED  BY <2>1, <1>2, DictAssumption
  <1>5. /\ table' \in [0 .. mask' -> Slots]
        /\ ActiveSlots(table') = {} /\ \A i \in 0 .. mask' : table'[i].key = Empty
    BY <1>2, <1>3, EmptyTableFacts
  <1>6. used' \in Nat
    BY <1>1, CountFacts
  <1>7. TableOk'
    BY <1>2, <1>3, <1>4, <1>5, <1>6 DEF TableOk
  <1>8. Rebuilds'
    <2>1. DOMAIN t = 0 .. mask /\ 0 \in DOMAIN t
      BY <1>1, MaskFacts
    <2>2. DOMAIN <<>> = {}
      OBVIOUS
    <2>. QED  BY <2>1, <2>2, <1>2 DEF Rebuilds
  <1>9. Unmoved' = ActiveSlots(t)
    <2>1. \A i \in DOMAIN t : i >= 0
      BY <1>1, MaskFacts
    <2>. QED  BY <2>1, <1>2 DEF Unmoved, ActiveSlots
  <1>10. CountsExact'
    <2>1. Cardinality(ActiveSlots(table')) = 0
      BY <1>5, FS_EmptySet
    <2>. QED  BY <2>1, <1>6, <1>8, <1>9 DEF CountsExact
  <1>11. RebuildOk'
    <2>1. used' <= mask'
      BY <1>2, <1>3, <1>6
    <2>2. \A i \in 0 .. mask' : table'[i].key # Dummy
      BY <1>5, DictAssumption
    <2>3. mask \in Masks /\ old' \in [0 .. mask -> Slots] /\ next' \in 0 .. mask + 1
      BY <1>1, <1>2, MaskFacts
    <2>. QED  BY <2>1, <2>2, <2>3 DEF RebuildOk
  <1>. QED  BY <1>7, <1>10, <1>11 DEF TableInv

\* A slot is deleted.
LEMMA DeletedFacts ==
    ASSUME TableInv, ~Rebuilds, NEW i \in 0 .. mask, IsActive(table[i]),
           table' = Put(table, i, Deleted), used' = used - 1, finger' \in Nat,
           UNCHANGED <<mask, fill, home, old, next>>
    PROVE  TableInv'
  <1>1. TableOk /\ mask \in Masks /\ table \in [0 .. mask -> Slots]
    BY DEF TableInv, TableOk
  <1>2. /\ old = <<>>
        /\ used = Cardinality(ActiveSlots(table)) /\ fill = Cardinality(NonEmpty(table))
    BY <1>1, IdleFacts DEF TableInv
  <1>3. /\ table' \in [0 .. mask -> Slots]
        /\ Cardinality(ActiveSlots(table')) = Cardinality(ActiveSlots(table)) - 1
        /\ Cardinality(NonEmpty(table')) = Cardinality(NonEmpty(table))
    BY <1>1, PutType, PutDeleted, SlotFacts
  <1>4. Cardinality(ActiveSlots(table')) \in Nat
    BY <1>1, <1>3, CountFacts
  <1>5. TableOk'
    BY <1>1, <1>2, <1>3, <1>4 DEF TableOk
  <1>. QED  BY <1>2, <1>3, <1>5, IdleAfter

\* A live entry takes a new value.
LEMMA ValueFacts ==
    ASSUME TableInv, ~Rebuilds, NEW i \in 0 .. mask, IsActive(table[i]), NEW v \in Value,
           table' = Put(table, i, [table[i] EXCEPT !.value = v]),
           UNCHANGED <<mask, fill, used, home, finger, old, next>>
    PROVE  TableInv'
  <1>1. TableOk /\ mask \in Masks /\ table \in [0 .. mask -> Slots]
    BY DEF TableInv, TableOk
  <1>2. /\ old = <<>>
        /\ used = Cardinality(ActiveSlots(table)) /\ fill = Cardinality(NonEmpty(table))
    BY <1>1, IdleFacts DEF TableInv
  <1>3. table[i] \in [key : Key, value : Value]
    BY <1>1, DictAssumption DEF Slots, IsActive, Free, Deleted
  <1>4. [table[i] EXCEPT !.value = v] \in Slots /\ IsActive([table[i] EXCEPT !.value = v])
    BY <1>3 DEF Slots, IsActive
  <1>5. /\ table' \in [0 .. mask -> Slots]
        /\ Cardinality(ActiveSlots(table')) = Cardinality(ActiveSlots(table))
        /\ Cardinality(NonEmpty(table')) = Cardinality(NonEmpty(table))
    <2>1. table[i].key # Empty
      BY <1>1, SlotFacts
    <2>2. Cardinality(ActiveSlots(table)) \in Nat /\ Cardinality(NonEmpty(table)) \in Nat
      BY <1>1, CountFacts
    <2>. QED  BY <2>1, <2>2, <1>1, <1>4, PutType, PutOver, PutFull
  <1>6. TableOk'
    BY <1>1, <1>5 DEF TableOk
  <1>. QED  BY <1>2, <1>5, <1>6, IdleAfter

\* A store, whether the table has room for it or grows first.
LEMMA StoreFacts ==
    ASSUME TableInv, ~Rebuilds, NEW i \in 0 .. mask, NEW before, NEW grow, Store(i, before, grow),
           Top.key \in Key, Top.value \in Value
    PROVE  TableInv'
  <1>. DEFINE e == Entry(IF Added(i) THEN Top.key ELSE table[i].key, Top.value)
              t == Put(table, i, e)
  <1>1. TableOk /\ mask \in Masks /\ table \in [0 .. mask -> Slots] /\ used \in Nat /\ fill \in Nat
    BY DEF TableInv, TableOk
  <1>2. /\ old = <<>>
        /\ used = Cardinality(ActiveSlots(table)) /\ fill = Cardinality(NonEmpty(table))
    BY <1>1, IdleFacts DEF TableInv
  <1>3. e \in Slots /\ IsActive(e)
    <2>1. (IF Added(i) THEN Top.key ELSE table[i].key) \in Key
      BY DEF Added, IsActive
    <2>. QED  BY <2>1, SlotFacts
  <1>4. /\ t \in [0 .. mask -> Slots]
        /\ Cardinality(ActiveSlots(t)) = UsedAfter(i)
        /\ Cardinality(NonEmpty(t)) = FillAfter(i)
    <2>. HIDE DEF e
    <2>1. /\ t \in [0 .. mask -> Slots]
          /\ IsActive(table[i]) => Cardinality(ActiveSlots(t)) = Cardinality(ActiveSlots(table))
          /\ ~IsActive(table[i]) => Cardinality(ActiveSlots(t)) = Cardinality(ActiveSlots(table)) + 1
          /\ table[i].key # Empty => Cardinality(NonEmpty(t)) = Cardinality(NonEmpty(table))
          /\ table[i].key = Empty => Cardinality(NonEmpty(t)) = Cardinality(NonEmpty(table)) + 1
      BY <1>1, <1>3, PutType, PutAdded, PutOver, PutFilled, PutFull
    <2>. QED  BY <2>1, <1>1, <1>2 DEF UsedAfter, FillAfter, Added
  <1>5. UsedAfter(i) \in Nat /\ FillAfter(i) \in Nat
    BY <1>1 DEF UsedAfter, FillAfter
  <1>6. /\ used' = UsedAfter(i) /\ fill' = FillAfter(i)
        /\ \/ /\ Bounded(UsedAfter(i) * Growth)
              /\ StartRebuild(t, Capacity(UsedAfter(i) * Growth))
           \/ /\ table' = t
              /\ finger' = IF i = 0 /\ Added(i) THEN Hash[Top.key] ELSE finger
              /\ UNCHANGED <<mask, home, old, next>>
    BY DEF Store, Put
  <1>7. CASE Bounded(UsedAfter(i) * Growth) /\ StartRebuild(t, Capacity(UsedAfter(i) * Growth))
    <2>. HIDE DEF t
    <2>1. UsedAfter(i) * Growth \in Nat /\ UsedAfter(i) * Growth >= UsedAfter(i)
      BY <1>5, Product, DictAssumption
    <2>2. /\ Capacity(UsedAfter(i) * Growth) \in Sizes
          /\ Capacity(UsedAfter(i) * Growth) > UsedAfter(i) * Growth
      BY <1>7, <2>1, CapacityFacts
    <2>3. UsedAfter(i) < Capacity(UsedAfter(i) * Growth)
      BY <2>1, <2>2, <1>5, SizeFacts
    <2>. QED  BY <2>2, <2>3, <1>4, <1>5, <1>6, <1>7, StartRebuildFacts
  <1>8. CASE /\ table' = t
             /\ finger' = IF i = 0 /\ Added(i) THEN Hash[Top.key] ELSE finger
             /\ UNCHANGED <<mask, home, old, next>>
    <2>. HIDE DEF t
    <2>1. finger' \in Nat
      BY <1>1, <1>8, DictAssumption DEF TableOk
    <2>2. TableOk'
      BY <2>1, <1>1, <1>4, <1>5, <1>6, <1>8 DEF TableOk
    <2>. QED  BY <2>2, <1>2, <1>4, <1>6, <1>8, IdleAfter
  <1>. QED  BY <1>6, <1>7, <1>8

\* An entry is moved from the old table, or a slot that is not live is passed.
LEMMA MoveEntryFacts ==
    ASSUME TableInv, MoveEntry
    PROVE  TableInv'
  <1>1. /\ Rebuilds /\ mask \in Masks /\ table \in [0 .. mask -> Slots] /\ used \in Nat /\ next \in Nat
        /\ finger \in Nat /\ TableOk
    BY DEF TableInv, TableOk, MoveEntry
  <1>2. PICK m \in Masks : old \in [0 .. m -> Slots] /\ next \in 0 .. m + 1
    BY <1>1 DEF TableInv, RebuildOk
  <1>3. used <= mask /\ \A i \in 0 .. mask : table[i].key # Dummy
    BY <1>1 DEF TableInv, RebuildOk
  <1>4. used = Cardinality(ActiveSlots(table)) + Cardinality(Unmoved)
    BY DEF TableInv, CountsExact
  <1>5. DOMAIN old = 0 .. m /\ Cardinality(DOMAIN old) = m + 1 /\ m \in Nat
    BY <1>2, CountFacts, MaskFacts
  <1>6. next \in 0 .. m /\ next + 1 \in 0 .. m + 1 /\ next' = next + 1
    BY <1>1, <1>2, <1>5 DEF MoveEntry
  <1>7. UNCHANGED <<mask, fill, used, home, old>>
    BY DEF MoveEntry
  <1>8. /\ IsFiniteSet(Unmoved) /\ Cardinality(Unmoved) \in Nat
        /\ IsFiniteSet(ActiveSlots(table)) /\ Cardinality(ActiveSlots(table)) \in Nat
        /\ IsFiniteSet(0 .. mask) /\ Cardinality(0 .. mask) = mask + 1 /\ mask \in Nat
    <2>1. Unmoved \subseteq 0 .. m /\ IsFiniteSet(0 .. m)
      BY <1>2, <1>5, CountFacts DEF Unmoved
    <2>. QED  BY <2>1, <1>1, FS_Subset, FS_CardinalityType, CountFacts, MaskFacts
  <1>9. Rebuilds'
    BY <1>1, <1>7 DEF Rebuilds
  <1>10. CASE ~IsActive(old[next])
    <2>1. UNCHANGED <<table, finger>>
      BY <1>10 DEF MoveEntry
    <2>2. Unmoved' = Unmoved
      BY <1>5, <1>6, <1>7, <1>10 DEF Unmoved
    <2>3. TableOk'
      BY <2>1, <1>1, <1>6, <1>7 DEF TableOk
    <2>4. CountsExact'
      BY <2>1, <2>2, <1>4, <1>7, <1>9 DEF CountsExact
    <2>5. RebuildOk'
      BY <2>1, <1>2, <1>3, <1>6, <1>7 DEF RebuildOk
    <2>. QED  BY <2>3, <2>4, <2>5 DEF TableInv
  <1>11. CASE IsActive(old[next])
    <2>. DEFINE i == CleanSlot(table, Hash[old[next].key], mask)
    <2>1. old[next].key \in Key /\ old[next] \in Slots
      BY <1>2, <1>6, <1>11 DEF IsActive
    <2>2. next \in Unmoved /\ Unmoved' = Unmoved \ {next}
      BY <1>5, <1>6, <1>7, <1>11 DEF Unmoved
    <2>3. Cardinality(Unmoved) \in Nat \ {0} /\ Cardinality(Unmoved') = Cardinality(Unmoved) - 1
      BY <2>2, <1>8, RemoveMember
    <2>4. PICK s \in 0 .. mask : ~IsActive(table[s])
      <3>1. Cardinality(ActiveSlots(table)) # mask + 1
        BY <2>3, <1>1, <1>3, <1>4, <1>8
      <3>2. ActiveSlots(table) # 0 .. mask
        BY <3>1, <1>8
      <3>. QED  BY <3>2, <1>1 DEF ActiveSlots
    <2>5. i \in 0 .. mask /\ ~IsActive(table[i])
      BY <2>1, <2>4, <1>1, CleanSlotFacts
    <2>6. /\ table' = Put(table, i, old[next])
          /\ finger' = IF i = 0 THEN Hash[old[next].key] ELSE finger
      BY <1>11 DEF MoveEntry, Put
    <2>. HIDE DEF i
    <2>7. /\ table' \in [0 .. mask -> Slots]
          /\ Cardinality(ActiveSlots(table')) = Cardinality(ActiveSlots(table)) + 1
      BY <2>1, <2>5, <2>6, <1>1, <1>11, PutType, PutAdded
    <2>8. finger' \in Nat
      BY <2>1, <2>6, <1>1, DictAssumption
    <2>9. TableOk'
      BY <2>7, <2>8, <1>1, <1>6, <1>7 DEF TableOk
    <2>10. CountsExact'
      <3>1. used' = Cardinality(ActiveSlots(table')) + Cardinality(Unmoved')
        BY <2>3, <2>7, <1>4, <1>7, <1>8
      <3>. QED  BY <3>1, <1>9 DEF CountsExact
    <2>11. \A j \in 0 .. mask : table'[j].key # Dummy
      <3>1. old[next].key # Dummy
        BY <2>1, DictAssumption
      <3>. QED  BY <3>1, <2>5, <2>6, <1>1, <1>3 DEF Put
    <2>12. RebuildOk'
      BY <2>11, <1>2, <1>3, <1>6, <1>7 DEF RebuildOk
    <2>. QED  BY <2>9, <2>10, <2>12 DEF TableInv
  <1>. QED  BY <1>10, <1>11

\* All entries are moved.
LEMMA EndRebuildFacts ==
    ASSUME TableInv, EndRebuild
    PROVE  TableInv'
  <1>1. /\ Rebuilds /\ mask \in Masks /\ table \in [0 .. mask -> Slots] /\ used \in Nat /\ TableOk
        /\ old' = <<>> /\ next' = 0 /\ fill' = used /\ UNCHANGED <<table, mask, used, home, finger>>
    BY DEF TableInv, TableOk, EndRebuild
  <1>2. PICK m \in Masks : old \in [0 .. m -> Slots] /\ next \in 0 .. m + 1
    BY <1>1 DEF TableInv, RebuildOk
  <1>3. DOMAIN old = 0 .. m /\ Cardinality(DOMAIN old) = m + 1 /\ m \in Nat
    BY <1>2, CountFacts, MaskFacts
  <1>4. next = m + 1
    BY <1>3 DEF EndRebuild
  <1>5. Unmoved = {}
    BY <1>3, <1>4 DEF Unmoved
  <1>6. used = Cardinality(ActiveSlots(table))
    <2>1. Cardinality(Unmoved) = 0 /\ Cardinality(ActiveSlots(table)) \in Nat
      BY <1>1, <1>5, FS_EmptySet, CountFacts
    <2>. QED  BY <2>1 DEF TableInv, CountsExact
  <1>7. ActiveSlots(table) = NonEmpty(table)
    <2>1. \A i \in 0 .. mask : table[i] \in Slots /\ table[i].key # Dummy
      BY <1>1 DEF TableInv, RebuildOk
    <2>2. \A i \in 0 .. mask : IsActive(table[i]) <=> table[i].key # Empty
      BY <2>1, SlotFacts
    <2>. QED  BY <2>2, <1>1 DEF ActiveSlots, NonEmpty
  <1>8. TableOk'
    BY <1>1 DEF TableOk
  <1>. QED  BY <1>1, <1>6, <1>7, <1>8, IdleAfter

-----------------------------------------------------------------------------
(* What changes of the stack keep.                                         *)

LEMMA PoppedFacts ==
    ASSUME NEW S, stack \in Seq(S), stack # <<>>
    PROVE  /\ Len(stack) \in Nat \ {0} /\ stack[Len(stack)] \in S
           /\ Popped \in Seq(S) /\ Len(Popped) = Len(stack) - 1
           /\ \A i \in 1 .. Len(stack) - 1 : Popped[i] = stack[i]
  <1>1. Len(stack) \in Nat \ {0} /\ \A i \in 1 .. Len(stack) : stack[i] \in S
    OBVIOUS
  <1>2. 1 \in Int /\ Len(stack) - 1 \in Int /\ \A i \in 1 .. Len(stack) - 1 : stack[i] \in S
    BY <1>1
  <1>3. /\ Popped \in Seq(S)
        /\ Len(Popped) = IF 1 <= Len(stack) - 1 THEN (Len(stack) - 1) - 1 + 1 ELSE 0
        /\ \A i \in 1 .. (Len(stack) - 1) - 1 + 1 : Popped[i] = stack[1 + i - 1]
    BY <1>2, SubSeqProperties DEF Popped
  <1>4. \A i \in 1 .. Len(stack) - 1 : i \in 1 .. (Len(stack) - 1) - 1 + 1 /\ 1 + i - 1 = i
    BY <1>1
  <1>5. Len(Popped) = Len(stack) - 1
    <2>. DEFINE n == Len(stack) - 1
                l == Len(Popped)
    <2>1. l = IF 1 <= n THEN n - 1 + 1 ELSE 0
      BY <1>3
    <2>2. n \in Nat
      BY <1>1
    <2>. HIDE DEF n, l
    <2>3. l = n
      BY <2>1, <2>2
    <2>. QED  BY <2>3 DEF n, l
  <1>6. \A i \in 1 .. Len(stack) - 1 : Popped[i] = stack[i]
    BY <1>3, <1>4
  <1>. QED  BY <1>1, <1>3, <1>5, <1>6

LEMMA PopFacts ==
    ASSUME StackInv, stack # <<>>, stack' = Popped
    PROVE  StackInv'
  <1>1. stack \in Seq(Frames) /\ Len(stack) \in Nat \ {0}
    BY DEF StackInv
  <1>2. /\ stack' \in Seq(Frames) /\ Len(stack') = Len(stack) - 1
        /\ \A i \in 1 .. Len(stack') : stack'[i] = stack[i]
    BY <1>1, PoppedFacts
  <1>3. \A i \in 1 .. Len(stack') : FrameOk(stack'[i]) /\ stack'[i].pc = "compare"
    BY <1>1, <1>2 DEF StackInv, FramesOk
  <1>4. stack' # <<>> => Len(stack') \in 1 .. Len(stack')
    BY <1>1, <1>2
  <1>5. stack' # <<>> => Fits(Top', table', mask', old')
    BY <1>3, <1>4 DEF Fits, Top
  <1>. QED  BY <1>2, <1>3, <1>5 DEF StackInv, FramesOk

\* The frame on top takes one step, and knows the table there is then.
LEMMA TopReplaced ==
    ASSUME StackInv, stack # <<>>, NEW f \in Frames, FrameOk(f), Fits(f, table', mask', old'),
           stack' \in Seq(Frames), Len(stack') = Len(stack), stack'[Len(stack)] = f,
           \A i \in 1 .. Len(stack) - 1 : stack'[i] = stack[i]
    PROVE  StackInv'
  <1>1. stack \in Seq(Frames) /\ Len(stack) \in Nat \ {0}
    BY DEF StackInv
  <1>2. ASSUME NEW i \in 1 .. Len(stack) - 1 PROVE FrameOk(stack'[i]) /\ stack'[i].pc = "compare"
    <2>1. i \in 1 .. Len(stack) /\ stack'[i] = stack[i]
      BY <1>1
    <2>. QED  BY <2>1 DEF StackInv, FramesOk
  <1>3. \A i \in 1 .. Len(stack) : i = Len(stack) \/ i \in 1 .. Len(stack) - 1
    BY <1>1
  <1>4. Top' = f
    BY DEF Top
  <1>. QED  BY <1>2, <1>3, <1>4 DEF StackInv, FramesOk

LEMMA BecomeFacts ==
    ASSUME StackInv, stack # <<>>, NEW f \in Frames, FrameOk(f), Fits(f, table', mask', old'), Become(f)
    PROVE  StackInv'
  <1>1. stack \in Seq(Frames) /\ Len(stack) \in Nat \ {0}
    BY DEF StackInv
  <1>2. /\ stack' \in Seq(Frames) /\ Len(stack') = Len(stack) /\ stack'[Len(stack)] = f
        /\ \A i \in 1 .. Len(stack) - 1 : stack'[i] = stack[i]
    BY <1>1 DEF Become
  <1>. QED  BY <1>2, TopReplaced

\* An operation starts, at the outermost level or in a comparison.
LEMMA PushFacts ==
    ASSUME StackInv, stack = <<>> \/ Top.pc = "compare",
           NEW f \in Frames, FrameOk(f), Fits(f, table', mask', old'), stack' = Append(stack, f)
    PROVE  StackInv'
  <1>1. stack \in Seq(Frames) /\ Len(stack) \in Nat
    BY DEF StackInv
  <1>2. /\ stack' \in Seq(Frames) /\ Len(stack') = Len(stack) + 1 /\ stack'[Len(stack) + 1] = f
        /\ \A i \in 1 .. Len(stack) : stack'[i] = stack[i]
    BY <1>1
  <1>3. \A i \in 1 .. Len(stack) : FrameOk(stack'[i]) /\ stack'[i].pc = "compare"
    <2>1. ASSUME NEW i \in 1 .. Len(stack) PROVE stack[i].pc = "compare"
      <3>1. CASE i = Len(stack)
        BY <3>1, <1>1 DEF Top
      <3>2. CASE i # Len(stack)
        BY <3>2, <1>1 DEF StackInv, FramesOk
      <3>. QED  BY <3>1, <3>2
    <2>. QED  BY <2>1, <1>2 DEF StackInv, FramesOk
  <1>4. \A i \in 1 .. Len(stack) + 1 : i = Len(stack) + 1 \/ i \in 1 .. Len(stack)
    BY <1>1
  <1>5. Top' = f
    BY <1>2 DEF Top
  <1>6. \A i \in 1 .. Len(stack') - 1 : i \in 1 .. Len(stack)
    BY <1>1, <1>2
  <1>. QED  BY <1>2, <1>3, <1>4, <1>5, <1>6 DEF StackInv, FramesOk

\* The table may change under a comparison or a merge.
LEMMA SameStack ==
    ASSUME StackInv, stack' = stack, stack # <<>> => Top.pc \in {"compare", "merge"}
    PROVE  StackInv'
  BY DEF StackInv, FramesOk, Fits, Top

\* The operation on top returns, perhaps into its merge.
LEMMA DoneFacts ==
    ASSUME StackInv, stack # <<>>, stack' = Done(Top)
    PROVE  StackInv'
  <1>1. stack \in Seq(Frames) /\ Len(stack) \in Nat \ {0} /\ Top \in Frames
    BY DEF StackInv, Top
  <1>2. CASE Top.left = None
    BY <1>2, PopFacts DEF Done
  <1>3. CASE Top.left # None
    <2>1. Top.left \in Nat
      BY <1>1, <1>3 DEF Frames
    <2>2. Merging(Top.left) \in Frames /\ FrameOk(Merging(Top.left))
          /\ Fits(Merging(Top.left), table', mask', old')
      BY <2>1, SizeFacts, MaskFacts, DictAssumption DEF Merging, Frames, FrameOk, Fits
    <2>3. stack' = Append(Popped, Merging(Top.left))
      BY <1>3 DEF Done
    <2>4. /\ Popped \in Seq(Frames) /\ Len(Popped) = Len(stack) - 1
          /\ \A i \in 1 .. Len(stack) - 1 : Popped[i] = stack[i]
      BY <1>1, PoppedFacts
    <2>5. /\ stack' \in Seq(Frames) /\ Len(stack') = Len(stack)
          /\ stack'[Len(stack)] = Merging(Top.left)
          /\ \A i \in 1 .. Len(stack) - 1 : stack'[i] = stack[i]
      BY <2>2, <2>3, <2>4, <1>1, AppendProperties
    <2>. QED  BY <2>2, <2>5, TopReplaced
  <1>. QED  BY <1>2, <1>3

-----------------------------------------------------------------------------
(* Frames.                                                                 *)

LEMMA TopFacts ==
    ASSUME StackInv, stack # <<>>
    PROVE  Top \in Frames /\ FrameOk(Top) /\ Fits(Top, table, mask, old)
  <1>1. Len(stack) \in 1 .. Len(stack) /\ stack \in Seq(Frames)
    BY DEF StackInv
  <1>. QED  BY <1>1 DEF StackInv, FramesOk, Top

\* Where a lookup starts.
LEMMA LookupFacts ==
    ASSUME TableOk, ~Rebuilds, NEW op \in KeyOps \cup {"insert"}, NEW k \in Key, NEW v \in Value \cup {None},
           NEW left \in Nat \cup {None}, op \in {"set", "insert", "setdefault"} => v \in Value
    PROVE  LET f == Lookup(op, k, v, left)
           IN  f \in Frames /\ FrameOk(f) /\ Fits(f, table, mask, old)
  <1>1. mask \in Masks /\ home \in Addr \cup {Small} /\ used \in Nat /\ old = <<>>
    BY DEF TableOk, Rebuilds
  <1>2. mask \in Nat /\ 0 \in 0 .. MaxSize - 1 /\ 0 \in 0 .. Last
    BY <1>1, MaskFacts, SizeFacts, DictAssumption
  <1>3. Lookup(op, k, v, left) \in Frames
    BY <1>1, <1>2 DEF Lookup, Frames
  <1>4. FrameOk(Lookup(op, k, v, left)) /\ Fits(Lookup(op, k, v, left), table, mask, old)
    BY <1>1, <1>2 DEF Lookup, FrameOk, Fits
  <1>. QED  BY <1>3, <1>4

\* What a frame says of the table it started with is not of its fields.
LEMMA UsedFacts ==
    ASSUME NEW f \in Frames, FrameOk(f), NEW u \in Nat, Fits(f, table, mask, old)
    PROVE  LET g == [f EXCEPT !.used = u]
           IN  g \in Frames /\ FrameOk(g) /\ Fits(g, table, mask, old)
  <1>. DEFINE g == [f EXCEPT !.used = u]
  <1>1. g \in Frames
    BY DEF Frames
  <1>2. /\ g.op = f.op /\ g.key = f.key /\ g.value = f.value /\ g.pc = f.pc /\ g.dummy = f.dummy
        /\ g.index = f.index /\ g.stored = f.stored /\ g.found = f.found /\ g.mask = f.mask /\ g.left = f.left
    BY DEF Frames
  <1>. HIDE DEF g
  <1>3. FrameOk(g) /\ Fits(g, table, mask, old)
    BY <1>2 DEF FrameOk, Fits
  <1>. QED  BY <1>1, <1>3 DEF g

\* Where it ends.
LEMMA EndedFacts ==
    ASSUME TableOk, ~Rebuilds, NEW f \in Frames, FrameOk(f), f.pc # "merge",
           NEW i \in 0 .. mask, NEW found \in BOOLEAN, found => IsActive(table[i])
    PROVE  /\ Ended(f, i, found) \in Frames
           /\ FrameOk(Ended(f, i, found)) /\ Fits(Ended(f, i, found), table, mask, old)
  <1>. DEFINE g == Ended(f, i, found)
  <1>1. /\ 0 \in 0 .. Last /\ i \in 0 .. MaxSize - 1 /\ old = <<>> /\ 0 \in Nat
    <2>1. mask \in Masks
      BY DEF TableOk
    <2>. QED  BY <2>1, MaskFacts, SizeFacts DEF Rebuilds
  <1>2. g = [f EXCEPT !.pc = "ended", !.index = i, !.found = found, !.p = 0, !.dummy = None,
                      !.stored = None, !.home = Small, !.mask = 0]
    BY DEF Ended
  <1>3. g \in Frames
    BY <1>1, <1>2 DEF Frames
  <1>4. g.pc = "ended" /\ g.index = i /\ g.found = found /\ g.op = f.op /\ g.key = f.key /\ g.value = f.value
    BY <1>2 DEF Frames
  <1>. HIDE DEF g
  <1>5. FrameOk(g) /\ Fits(g, table, mask, old)
    BY <1>1, <1>4 DEF FrameOk, Fits
  <1>. QED  BY <1>3, <1>5 DEF g

\* The first deleted slot, if any, is a slot of the table.
LEMMA FirstDummyFacts ==
    ASSUME NEW f, f.mask \in Masks, f.key \in Key, f.p \in 0 .. Last, NEW p \in f.p .. Last,
           f.dummy \in {None} \cup 0 .. f.mask
    PROVE  FirstDummy(f, p) \in {None} \cup 0 .. f.mask
  <1>. DEFINE slot(q) == Walk[Hash[f.key], f.mask, q]
              dummies == {q \in f.p .. p - 1 : table[slot(q)].key = Dummy}
  <1>1. f.p .. p - 1 \subseteq 0 .. Last /\ Last \in Nat
    BY SizeFacts
  <1>2. dummies \in SUBSET (f.p .. p - 1)
    BY Zenon
  <1>3. CASE f.dummy # None \/ dummies = {}
    BY <1>3, Zenon DEF FirstDummy
  <1>4. CASE f.dummy = None /\ dummies # {}
    <2>1. \E q \in dummies : \A r \in dummies : q <= r
      <3>. HIDE DEF dummies
      <3>1. dummies \in SUBSET (0 .. Last)
        BY <1>1, <1>2
      <3>. QED  BY <3>1, <1>1, <1>4, FirstOf
    <2>2. PICK q \in dummies : FirstDummy(f, p) = slot(q)
      BY <2>1, <1>4, Zenon DEF FirstDummy
    <2>3. q \in 0 .. Last
      BY <2>2, <1>1, <1>2, Zenon
    <2>4. \A r \in 0 .. Last : slot(r) \in 0 .. f.mask
      BY WalkFacts
    <2>. HIDE DEF slot
    <2>. QED  BY <2>2, <2>3, <2>4
  <1>. QED  BY <1>3, <1>4, Zenon

-----------------------------------------------------------------------------
(* Every step keeps the invariant.                                         *)

LEMMA CallKeeps ==
    ASSUME IInv, NEW op \in KeyOps, NEW k \in Key, NEW v \in Value \cup {None}, Call(op, k, v)
    PROVE  IInv'
  <1>1. TableInv /\ StackInv /\ TableOk
    BY DEF IInv, TableInv
  <1>2. /\ ~Rebuilds /\ (stack = <<>> \/ Top.pc = "compare")
        /\ stack' = Append(stack, Lookup(op, k, v, None)) /\ UNCHANGED tableVars
        /\ v = None <=> op \in {"get", "delete"}
    BY DEF Call, CanCall, CodeRuns, At
  <1>3. TableInv'
    BY <1>1, <1>2, TableKept
  <1>4. op \in KeyOps \cup {"insert"} /\ None \in Nat \cup {None}
    OBVIOUS
  <1>5. op \in {"set", "insert", "setdefault"} => v \in Value
    BY <1>2
  <1>6. /\ Lookup(op, k, v, None) \in Frames /\ FrameOk(Lookup(op, k, v, None))
        /\ Fits(Lookup(op, k, v, None), table, mask, old)
    BY <1>1, <1>2, <1>4, <1>5, LookupFacts
  <1>7. Fits(Lookup(op, k, v, None), table', mask', old')
    BY <1>2, <1>6 DEF tableVars
  <1>8. StackInv'
    BY <1>1, <1>2, <1>6, <1>7, PushFacts
  <1>. QED  BY <1>3, <1>8 DEF IInv

LEMMA CallMergeKeeps ==
    ASSUME IInv, NEW n \in 1 .. MaxMerge, CallMerge(n)
    PROVE  IInv'
  <1>. DEFINE min == (used + n) * 2
  <1>1. TableInv /\ StackInv /\ TableOk /\ used \in Nat /\ fill \in Nat /\ n \in Nat
    BY DictAssumption DEF IInv, TableInv, TableOk
  <1>2. ~Rebuilds /\ (stack = <<>> \/ Top.pc = "compare") /\ stack' = Append(stack, Merging(n))
        /\ UNCHANGED <<fill, used>>
        /\ \/ UNCHANGED <<table, mask, home, finger, old, next>>
           \/ Bounded(min) /\ StartRebuild(table, Capacity(min))
    BY DEF CallMerge, CanCall, CodeRuns, At
  <1>3. TableInv'
    <2>1. CASE UNCHANGED <<table, mask, home, finger, old, next>>
      BY <2>1, <1>1, <1>2, TableKept DEF tableVars
    <2>2. CASE Bounded(min) /\ StartRebuild(table, Capacity(min))
      <3>1. min \in Nat /\ used <= min
        BY <1>1
      <3>2. Capacity(min) \in Sizes /\ Capacity(min) > min
        <4>. HIDE DEF min
        <4>. QED  BY <2>2, <3>1, CapacityFacts
      <3>. HIDE DEF min
      <3>3. used = Cardinality(ActiveSlots(table)) /\ table \in [0 .. mask -> Slots]
        BY <1>1, <1>2, IdleFacts DEF TableInv, TableOk
      <3>4. used < Capacity(min)
        BY <3>1, <3>2, <1>1, SizeFacts
      <3>. QED  BY <2>2, <3>2, <3>3, <3>4, <1>1, <1>2, StartRebuildFacts
    <2>. QED  BY <2>1, <2>2, <1>2
  <1>4. Merging(n) \in Frames /\ FrameOk(Merging(n)) /\ Fits(Merging(n), table', mask', old')
    BY <1>1, SizeFacts, MaskFacts, DictAssumption DEF Merging, Frames, FrameOk, Fits
  <1>5. StackInv'
    BY <1>1, <1>2, <1>4, PushFacts
  <1>. QED  BY <1>3, <1>5 DEF IInv

LEMMA MergeNextKeeps ==
    ASSUME IInv, NEW op \in {"insert", "set"}, NEW k \in Key, NEW v \in Value, MergeNext(op, k, v)
    PROVE  IInv'
  <1>. DEFINE f == Lookup(op, k, v, Top.left - 1)
  <1>1. TableInv /\ StackInv /\ TableOk
    BY DEF IInv, TableInv
  <1>2. /\ ~Rebuilds /\ stack # <<>> /\ Top.pc = "merge" /\ Top.left > 0
        /\ Become(f) /\ UNCHANGED tableVars
    BY DEF MergeNext, At
  <1>3. TableInv'
    BY <1>1, <1>2, TableKept
  <1>4. Top.left - 1 \in Nat
    BY <1>1, <1>2, TopFacts DEF FrameOk
  <1>5. op \in KeyOps \cup {"insert"}
    BY DEF KeyOps
  <1>6. f \in Frames /\ FrameOk(f) /\ Fits(f, table, mask, old)
    BY <1>1, <1>2, <1>4, <1>5, LookupFacts
  <1>7. Fits(f, table', mask', old')
    <2>. HIDE DEF f
    <2>. QED  BY <1>2, <1>6 DEF tableVars
  <1>8. StackInv'
    <2>. HIDE DEF f
    <2>. QED  BY <1>1, <1>2, <1>6, <1>7, BecomeFacts
  <1>. QED  BY <1>3, <1>8 DEF IInv

\* A frame is given up and the table is as it was.
LEMMA PopKeeps ==
    ASSUME IInv, stack # <<>>, stack' = Popped, UNCHANGED tableVars
    PROVE  IInv'
  BY TableKept, PopFacts DEF IInv

LEMMA ClearKeeps ==
    ASSUME IInv, Clear
    PROVE  IInv'
  <1>1. TableInv /\ StackInv /\ TableOk
    BY DEF IInv, TableInv
  <1>2. /\ ~Rebuilds /\ (stack # <<>> => Top.pc = "compare")
        /\ table' = EmptyTable(MinSize - 1) /\ mask' = MinSize - 1
        /\ home' = Small /\ fill' = 0 /\ used' = 0 /\ finger' = 0
        /\ UNCHANGED <<old, next, stack>>
    BY DEF Clear, CanCall, CodeRuns, At
  <1>3. MinSize - 1 \in Masks
    BY SizeFacts
  <1>4. /\ table' \in [0 .. mask' -> Slots]
        /\ ActiveSlots(table') = {} /\ NonEmpty(table') = {}
    BY <1>2, <1>3, EmptyTableFacts
  <1>5. TableOk'
    BY <1>1, <1>2, <1>3, <1>4 DEF TableOk
  <1>6. TableInv'
    BY <1>1, <1>2, <1>4, <1>5, FS_EmptySet, IdleFacts, IdleAfter
  <1>. QED  BY <1>1, <1>2, <1>6, SameStack DEF IInv

LEMMA PopItemKeeps ==
    ASSUME IInv, PopItem
    PROVE  IInv'
  <1>. DEFINE live == ActiveSlots(table)
              start == IF finger \in 1 .. mask THEN finger ELSE 1
              after == {i \in live : i >= start}
              from == IF after # {} THEN after ELSE live
  <1>1. TableInv /\ StackInv /\ TableOk /\ mask \in Masks /\ table \in [0 .. mask -> Slots] /\ used \in Nat
    BY DEF IInv, TableInv, TableOk
  <1>2. /\ ~Rebuilds /\ (stack # <<>> => Top.pc = "compare") /\ used > 0
        /\ table' = [table EXCEPT ![PopSlot] = Deleted] /\ used' = used - 1 /\ finger' = PopSlot + 1
        /\ UNCHANGED <<mask, fill, home, old, next, stack>>
    BY DEF PopItem, CanCall, CodeRuns, At
  <1>3. live # {} /\ live \in SUBSET (0 .. mask)
    <2>1. used = Cardinality(live)
      BY <1>1, <1>2, IdleFacts DEF TableInv
    <2>. QED  BY <2>1, <1>1, <1>2, FS_EmptySet, CountFacts
  <1>4. PopSlot \in live
    <2>1. from # {} /\ from \in SUBSET (0 .. mask) /\ from \subseteq live /\ mask \in Nat
      BY <1>1, <1>3, MaskFacts
    <2>2. \E i \in from : \A j \in from : i <= j
      <3>. HIDE DEF from
      <3>. QED  BY <2>1, FirstOf
    <2>3. PopSlot = IF 0 \in live THEN 0 ELSE CHOOSE i \in from : \A j \in from : i <= j
      BY Zenon DEF PopSlot
    <2>. HIDE DEF from, live
    <2>. QED  BY <2>1, <2>2, <2>3
  <1>5. PopSlot \in 0 .. mask /\ IsActive(table[PopSlot])
    BY <1>1, <1>4 DEF ActiveSlots
  <1>6. finger' \in Nat
    BY <1>1, <1>2, <1>5, MaskFacts
  <1>7. table' = Put(table, PopSlot, Deleted)
    BY <1>2 DEF Put
  <1>8. TableInv'
    BY <1>1, <1>2, <1>5, <1>6, <1>7, DeletedFacts
  <1>. QED  BY <1>1, <1>2, <1>8, SameStack DEF IInv

LEMMA ProbeKeeps ==
    ASSUME IInv, Probe
    PROVE  IInv'
  <1>. DEFINE f == Top
  <1>1. TableInv /\ StackInv /\ TableOk /\ table \in [0 .. mask -> Slots]
    BY DEF IInv, TableInv, TableOk
  <1>2. ~Rebuilds /\ stack # <<>> /\ f.pc = "probe" /\ UNCHANGED tableVars
    BY DEF Probe, At
  <1>3. f \in Frames /\ FrameOk(f) /\ Fits(f, table, mask, old)
    BY <1>1, <1>2, TopFacts
  <1>. HIDE DEF f
  <1>4. /\ f.key \in Key /\ f.mask = mask /\ mask \in Masks /\ f.p \in 0 .. Last
        /\ f.dummy \in {None} \cup 0 .. mask
    BY <1>1, <1>2, <1>3 DEF FrameOk, Fits, Frames, TableOk
  <1>5. PICK p \in f.p .. Last :
            LET i == Walk[Hash[f.key], f.mask, p]
            IN  Become(IF ~IsActive(table[i])
                         THEN IF FirstDummy(f, p) = None
                                THEN Ended(f, i, FALSE)
                                ELSE Ended(f, FirstDummy(f, p), IsActive(table[FirstDummy(f, p)]))
                         ELSE IF table[i].key = f.key \/ Quick(table[i].key, f.key)
                                THEN Ended(f, i, TRUE)
                                ELSE [f EXCEPT !.pc = "compare", !.p = p, !.dummy = FirstDummy(f, p),
                                               !.index = i, !.stored = table[i].key])
    BY Zenon DEF Probe, f
  <1>6. p \in 0 .. Last
    BY <1>4, SizeFacts
  <1>7. PICK i \in 0 .. mask :
            Become(IF ~IsActive(table[i])
                     THEN IF FirstDummy(f, p) = None
                            THEN Ended(f, i, FALSE)
                            ELSE Ended(f, FirstDummy(f, p), IsActive(table[FirstDummy(f, p)]))
                     ELSE IF table[i].key = f.key \/ Quick(table[i].key, f.key)
                            THEN Ended(f, i, TRUE)
                            ELSE [f EXCEPT !.pc = "compare", !.p = p, !.dummy = FirstDummy(f, p),
                                           !.index = i, !.stored = table[i].key])
    <2>1. Walk[Hash[f.key], f.mask, p] \in 0 .. mask
      BY <1>4, <1>6, WalkFacts, Zenon
    <2>. QED  BY <2>1, <1>5, Zenon
  <1>8. FirstDummy(f, p) \in {None} \cup 0 .. mask
    BY <1>4, FirstDummyFacts
  <1>9. PICK g \in Frames : FrameOk(g) /\ Fits(g, table, mask, old) /\ Become(g)
    <2>1. CASE ~IsActive(table[i]) /\ FirstDummy(f, p) = None
      <3>1. Become(Ended(f, i, FALSE))
        BY <2>1, <1>7
      <3>. QED  BY <3>1, <1>1, <1>2, <1>3, EndedFacts
    <2>2. CASE ~IsActive(table[i]) /\ FirstDummy(f, p) # None
      <3>. DEFINE d == FirstDummy(f, p)
      <3>1. Become(Ended(f, d, IsActive(table[d])))
        BY <2>2, <1>7
      <3>2. d \in 0 .. mask
        BY <2>2, <1>8
      <3>3. IsActive(table[d]) \in BOOLEAN
        BY DEF IsActive
      <3>. HIDE DEF d
      <3>. QED  BY <3>1, <3>2, <3>3, <1>1, <1>2, <1>3, EndedFacts
    <2>3. CASE IsActive(table[i]) /\ (table[i].key = f.key \/ Quick(table[i].key, f.key))
      <3>1. Become(Ended(f, i, TRUE))
        BY <2>3, <1>7
      <3>. QED  BY <3>1, <2>3, <1>1, <1>2, <1>3, EndedFacts
    <2>4. CASE IsActive(table[i]) /\ ~(table[i].key = f.key \/ Quick(table[i].key, f.key))
      <3>. DEFINE d == FirstDummy(f, p)
                  g == [f EXCEPT !.pc = "compare", !.p = p, !.dummy = d,
                                 !.index = i, !.stored = table[i].key]
      <3>1. Become(g)
        BY <2>4, <1>7
      <3>2. table[i].key \in Key
        BY <2>4 DEF IsActive
      <3>3. i \in 0 .. MaxSize - 1 /\ d \in Nat \cup {None} /\ d \in {None} \cup 0 .. f.mask
        BY <1>4, <1>8, MaskFacts
      <3>. HIDE DEF d
      <3>4. g \in Frames
        BY <3>2, <3>3, <1>3, <1>6 DEF Frames
      <3>5. /\ g.pc = "compare" /\ g.key = f.key /\ g.op = f.op /\ g.value = f.value /\ g.mask = f.mask
            /\ g.dummy = d /\ g.index = i /\ g.stored = table[i].key
        BY <1>3 DEF Frames
      <3>. HIDE DEF g
      <3>6. FrameOk(g) /\ Fits(g, table, mask, old)
        BY <3>2, <3>3, <3>5, <1>2, <1>3, <1>4 DEF FrameOk, Fits
      <3>. QED  BY <3>1, <3>4, <3>6
    <2>. QED  BY <2>1, <2>2, <2>3, <2>4
  <1>10. Fits(g, table', mask', old')
    BY <1>2, <1>9 DEF tableVars
  <1>11. TableInv' /\ StackInv'
    BY <1>1, <1>2, <1>9, <1>10, TableKept, BecomeFacts
  <1>. QED  BY <1>11 DEF IInv

LEMMA ComparedKeeps ==
    ASSUME IInv, Compared
    PROVE  IInv'
  <1>1. TableInv /\ StackInv /\ TableOk /\ mask \in Masks
    BY DEF IInv, TableInv, TableOk
  <1>2. ~Rebuilds /\ stack # <<>> /\ Top.pc = "compare" /\ UNCHANGED tableVars
    BY DEF Compared, At
  <1>3. Top \in Frames /\ FrameOk(Top)
    BY <1>1, <1>2, TopFacts
  <1>4. PICK left \in IF Top.left # None /\ Reentrant THEN 0 .. MaxMerge ELSE {Top.left} :
            LET f == [Top EXCEPT !.left = left]
            IN  Become(IF Changed(f)
                         THEN [Lookup(f.op, f.key, f.value, f.left) EXCEPT !.used = f.used]
                         ELSE IF Class[f.stored] = Class[f.key]
                           THEN Ended(f, f.index, TRUE)
                           ELSE [f EXCEPT !.pc = "probe", !.index = 0, !.stored = None,
                                          !.p = IF @ = Last THEN @ - mask ELSE @ + 1])
    BY DEF Compared
  <1>. DEFINE f == [Top EXCEPT !.left = left]
  <1>5. left \in Nat \cup {None}
    BY <1>3, <1>4, DictAssumption DEF Frames
  <1>6. /\ f \in Frames /\ f.pc = "compare" /\ f.key = Top.key /\ f.op = Top.op /\ f.value = Top.value
        /\ f.mask = Top.mask /\ f.dummy = Top.dummy /\ f.index = Top.index /\ f.stored = Top.stored
        /\ f.left = left /\ f.used = Top.used
    BY <1>2, <1>3, <1>5 DEF Frames
  <1>7. Become(IF Changed(f)
                 THEN [Lookup(f.op, f.key, f.value, f.left) EXCEPT !.used = f.used]
                 ELSE IF Class[f.stored] = Class[f.key]
                   THEN Ended(f, f.index, TRUE)
                   ELSE [f EXCEPT !.pc = "probe", !.index = 0, !.stored = None,
                                  !.p = IF @ = Last THEN @ - mask ELSE @ + 1])
    BY <1>4
  <1>. HIDE DEF f
  <1>8. FrameOk(f)
    BY <1>2, <1>3, <1>6 DEF FrameOk
  <1>9. /\ f.key \in Key
        /\ f.op \in {"set", "insert", "setdefault"} => f.value \in Value
        /\ f.mask \in Masks /\ f.dummy \in {None} \cup 0 .. f.mask
        /\ f.index \in 0 .. f.mask /\ f.stored \in Key
        /\ f.op \in KeyOps \cup {"insert"} /\ f.value \in Value \cup {None} /\ f.used \in Nat
        /\ f.left \in Nat \cup {None} /\ f.p \in 0 .. Last
    <2>1. f.key \in Key /\ (f.op \in {"set", "insert", "setdefault"} => f.value \in Value)
      BY <1>6, <1>8 DEF FrameOk
    <2>2. /\ f.mask \in Masks /\ f.dummy \in {None} \cup 0 .. f.mask
          /\ f.index \in 0 .. f.mask /\ f.stored \in Key
      BY <1>6, <1>8 DEF FrameOk
    <2>3. /\ f.op \in KeyOps \cup {"insert"} /\ f.value \in Value \cup {None} /\ f.used \in Nat
          /\ f.left \in Nat \cup {None} /\ f.p \in 0 .. Last
      BY <1>6 DEF Frames
    <2>. QED  BY <2>1, <2>2, <2>3
  <1>10. PICK g \in Frames : FrameOk(g) /\ Fits(g, table, mask, old) /\ Become(g)
    <2>1. CASE Changed(f)
      <3>. DEFINE l == Lookup(f.op, f.key, f.value, f.left)
      <3>1. Become([l EXCEPT !.used = f.used])
        BY <2>1, <1>7
      <3>2. l \in Frames /\ FrameOk(l) /\ Fits(l, table, mask, old)
        BY <1>1, <1>2, <1>9, LookupFacts
      <3>. HIDE DEF l
      <3>. QED  BY <3>1, <3>2, <1>9, UsedFacts
    <2>2. ASSUME ~Changed(f)
          PROVE  f.mask = mask /\ IsActive(table[f.index]) /\ f.index \in 0 .. mask
      BY <2>2, <1>9 DEF Changed, IsActive
    <2>3. CASE ~Changed(f) /\ Class[f.stored] = Class[f.key]
      <3>1. Become(Ended(f, f.index, TRUE))
        BY <2>3, <1>7
      <3>. QED  BY <3>1, <2>2, <2>3, <1>1, <1>2, <1>6, <1>8, EndedFacts
    <2>4. CASE ~Changed(f) /\ Class[f.stored] # Class[f.key]
      <3>. DEFINE q == IF f.p = Last THEN f.p - mask ELSE f.p + 1
                  g == [f EXCEPT !.pc = "probe", !.index = 0, !.stored = None, !.p = q]
      <3>1. Become(g)
        BY <2>4, <1>6, <1>7
      <3>2. q \in 0 .. Last /\ 0 \in 0 .. MaxSize - 1
        <4>1. Last \in Nat /\ Last - mask \in 0 .. Last /\ 0 \in 0 .. MaxSize - 1
          BY <1>1, SizeFacts, MaskFacts, DictAssumption
        <4>2. CASE f.p = Last
          BY <4>1, <4>2
        <4>3. CASE f.p # Last
          BY <4>1, <4>3, <1>9
        <4>. QED  BY <4>1, <4>2, <4>3
      <3>. HIDE DEF q
      <3>3. g \in Frames
        BY <3>2, <1>6 DEF Frames
      <3>4. /\ g.pc = "probe" /\ g.key = f.key /\ g.op = f.op /\ g.value = f.value /\ g.mask = f.mask
            /\ g.dummy = f.dummy
        BY <1>6 DEF Frames
      <3>. HIDE DEF g
      <3>5. FrameOk(g) /\ Fits(g, table, mask, old)
        <4>1. f.mask = mask /\ old = <<>>
          BY <2>2, <2>4, <1>2 DEF Rebuilds
        <4>. QED  BY <4>1, <3>4, <1>9 DEF FrameOk, Fits
      <3>. QED  BY <3>1, <3>3, <3>5
    <2>. QED  BY <2>1, <2>3, <2>4
  <1>11. Fits(g, table', mask', old')
    BY <1>2, <1>10 DEF tableVars
  <1>12. TableInv' /\ StackInv'
    BY <1>1, <1>2, <1>10, <1>11, TableKept, BecomeFacts
  <1>. QED  BY <1>12 DEF IInv

\* What an operation whose lookup is over works on.
LEMMA EndedTop ==
    ASSUME IInv, At("ended")
    PROVE  /\ ~Rebuilds /\ stack # <<>> /\ Top.index \in 0 .. mask
           /\ Top.found => IsActive(table[Top.index])
           /\ Top.key \in Key
           /\ Top.op \in {"set", "insert", "setdefault"} => Top.value \in Value
  <1>1. StackInv /\ ~Rebuilds /\ stack # <<>> /\ Top.pc = "ended"
    BY DEF IInv, At
  <1>2. FrameOk(Top) /\ Fits(Top, table, mask, old)
    BY <1>1, TopFacts
  <1>. QED  BY <1>1, <1>2 DEF FrameOk, Fits

LEMMA FinishSetKeeps ==
    ASSUME IInv, FinishSet
    PROVE  IInv'
  <1>1. TableInv /\ StackInv /\ At("ended") /\ Top.op \in {"set", "insert"} /\ stack' = Done(Top)
    BY DEF IInv, FinishSet
  <1>2. /\ ~Rebuilds /\ stack # <<>> /\ Top.index \in 0 .. mask
        /\ Top.found => IsActive(table[Top.index])
        /\ Top.key \in Key /\ Top.value \in Value
    BY <1>1, EndedTop
  <1>3. TableInv'
    <2>1. CASE Top.found /\ used = Top.used
      <3>1. /\ table' = [table EXCEPT ![Top.index].value = Top.value]
            /\ UNCHANGED <<mask, fill, used, home, finger, old, next>>
        BY <2>1 DEF FinishSet
      <3>2. table' = Put(table, Top.index, [table[Top.index] EXCEPT !.value = Top.value])
        BY <3>1 DEF Put
      <3>. QED  BY <2>1, <3>1, <3>2, <1>1, <1>2, ValueFacts
    <2>2. CASE ~(Top.found /\ used = Top.used)
      <3>1. Store(Top.index, Top.used, Top.op = "set")
        BY <2>2 DEF FinishSet
      <3>. QED  BY <3>1, <1>1, <1>2, StoreFacts
    <2>. QED  BY <2>1, <2>2
  <1>4. StackInv'
    BY <1>1, <1>2, DoneFacts
  <1>. QED  BY <1>3, <1>4 DEF IInv

LEMMA FinishSetDefaultKeeps ==
    ASSUME IInv, FinishSetDefault
    PROVE  IInv'
  <1>1. TableInv /\ StackInv /\ At("ended") /\ Top.op = "setdefault" /\ stack' = Popped
    BY DEF IInv, FinishSetDefault
  <1>2. ~Rebuilds /\ stack # <<>> /\ Top.index \in 0 .. mask /\ Top.key \in Key /\ Top.value \in Value
    BY <1>1, EndedTop
  <1>3. TableInv'
    <2>1. CASE Top.found
      BY <2>1, <1>1, TableKept DEF FinishSetDefault
    <2>2. CASE ~Top.found
      <3>1. Store(Top.index, used, TRUE)
        BY <2>2 DEF FinishSetDefault
      <3>. QED  BY <3>1, <1>1, <1>2, StoreFacts
    <2>. QED  BY <2>1, <2>2
  <1>4. StackInv'
    BY <1>1, <1>2, PopFacts
  <1>. QED  BY <1>3, <1>4 DEF IInv

LEMMA FinishDeleteKeeps ==
    ASSUME IInv, FinishDelete
    PROVE  IInv'
  <1>1. TableInv /\ StackInv /\ At("ended") /\ stack' = Popped
    BY DEF IInv, FinishDelete
  <1>2. /\ ~Rebuilds /\ stack # <<>> /\ Top.index \in 0 .. mask
        /\ Top.found => IsActive(table[Top.index])
    BY <1>1, EndedTop
  <1>3. TableInv'
    <2>1. CASE Top.found
      <3>1. /\ table' = [table EXCEPT ![Top.index] = Deleted] /\ used' = used - 1
            /\ UNCHANGED <<mask, fill, home, finger, old, next>>
        BY <2>1 DEF FinishDelete
      <3>2. table' = Put(table, Top.index, Deleted) /\ finger' \in Nat
        BY <3>1, <1>1 DEF Put, TableInv, TableOk
      <3>. QED  BY <2>1, <3>1, <3>2, <1>1, <1>2, DeletedFacts
    <2>2. CASE ~Top.found
      BY <2>2, <1>1, TableKept DEF FinishDelete
    <2>. QED  BY <2>1, <2>2
  <1>4. StackInv'
    BY <1>1, <1>2, PopFacts
  <1>. QED  BY <1>3, <1>4 DEF IInv

\* A rebuild leaves the operations in progress alone: the innermost is not in
\* the middle of a lookup.
LEMMA RebuildKeeps ==
    ASSUME IInv, MoveEntry \/ EndRebuild
    PROVE  IInv'
  <1>1. TableInv /\ StackInv /\ Rebuilds /\ stack' = stack
    BY DEF IInv, MoveEntry, EndRebuild
  <1>2. TableInv'
    BY <1>1, MoveEntryFacts, EndRebuildFacts
  <1>3. stack # <<>> => Top.pc \in {"compare", "merge"}
    BY <1>1, TopFacts DEF Fits, Frames, Rebuilds
  <1>. QED  BY <1>1, <1>2, <1>3, SameStack DEF IInv

LEMMA InitOk ==
    ASSUME Init
    PROVE  IInv
  <1>1. MinSize - 1 \in Masks
    BY SizeFacts
  <1>2. /\ table \in [0 .. mask -> Slots] /\ ActiveSlots(table) = {} /\ NonEmpty(table) = {}
    BY <1>1, EmptyTableFacts DEF Init
  <1>3. TableOk /\ ~Rebuilds
    BY <1>1, <1>2 DEF Init, TableOk, Rebuilds
  <1>4. TableInv
    BY <1>2, <1>3, IdleFacts, FS_EmptySet DEF Init, TableInv, RebuildOk
  <1>5. StackInv
    BY DEF Init, StackInv, FramesOk
  <1>. QED  BY <1>4, <1>5 DEF IInv

LEMMA NextKeeps ==
    ASSUME IInv, [Next]_vars
    PROVE  IInv'
  <1>1. ASSUME NEW op \in Ops \cap KeyOps, NEW k \in Key, NEW v \in Value \cup {None}, Call(op, k, v)
        PROVE  IInv'
    BY <1>1, CallKeeps
  <1>2. ASSUME NEW n \in 1 .. MaxMerge, CallMerge(n) PROVE IInv'
    BY <1>2, CallMergeKeeps
  <1>3. ASSUME Raise \/ Refused \/ FinishGet \/ MergeEnd PROVE IInv'
    <2>1. stack # <<>> /\ stack' = Popped /\ UNCHANGED tableVars
      BY <1>3 DEF Raise, Refused, FinishGet, MergeEnd, Fail, At
    <2>. QED  BY <2>1, PopKeeps
  <1>4. ASSUME NEW op \in {"insert", "set"}, NEW k \in Key, NEW v \in Value, MergeNext(op, k, v)
        PROVE  IInv'
    BY <1>4, MergeNextKeeps
  <1>5. CASE Clear
    BY <1>5, ClearKeeps
  <1>6. CASE PopItem
    BY <1>6, PopItemKeeps
  <1>7. CASE Compared
    BY <1>7, ComparedKeeps
  <1>8. CASE Probe
    BY <1>8, ProbeKeeps
  <1>9. CASE FinishSet
    BY <1>9, FinishSetKeeps
  <1>10. CASE FinishSetDefault
    BY <1>10, FinishSetDefaultKeeps
  <1>11. CASE FinishDelete
    BY <1>11, FinishDeleteKeeps
  <1>12. CASE MoveEntry \/ EndRebuild
    BY <1>12, RebuildKeeps
  <1>13. CASE UNCHANGED vars
    <2>1. TableInv'
      BY <1>13, TableKept DEF IInv, vars, tableVars
    <2>2. StackInv'
      BY <1>13 DEF IInv, StackInv, FramesOk, Fits, Top, vars
    <2>. QED  BY <2>1, <2>2 DEF IInv
  <1>. QED  BY <1>1, <1>2, <1>3, <1>4, <1>5, <1>6, <1>7, <1>8, <1>9, <1>10, <1>11, <1>12, <1>13
            DEF Next, Code, Native

THEOREM Invariant == Spec => []IInv
  <1>1. Init => IInv
    BY InitOk
  <1>2. IInv /\ [Next]_vars => IInv'
    BY NextKeeps
  <1>. QED  BY <1>1, <1>2, PTL DEF Spec

\* The table and the operations in progress have their types, for all keys,
\* hashes, sizes and depths of nesting.
THEOREM TypeCorrect == Spec => []TypeOk
  <1>1. IInv => TypeOk
    BY DEF IInv, TableInv, StackInv, TableOk, TypeOk
  <1>. QED  BY <1>1, Invariant, PTL

\* used and fill count what is in the table (tinypy_dict_size answers with
\* used), whatever code a comparison runs between a lookup and its store.
THEOREM CountsCorrect == Spec => []CountsExact
  <1>1. IInv => CountsExact
    BY DEF IInv, TableInv
  <1>. QED  BY <1>1, Invariant, PTL

-----------------------------------------------------------------------------
(* Where the probes of keys find them.                                     *)

\* The probe of a key meets a slot before it meets an empty one.
Passes(t, k, m, p) == \A q \in 0 .. p - 1 : t[Walk[Hash[k], m, q]].key # Empty
Meets(t, k, m, i)  == \E p \in 0 .. Last : Walk[Hash[k], m, p] = i /\ Passes(t, k, m, p)
Reach(t, m)        == \A i \in ActiveSlots(t) : Meets(t, t[i].key, m, i)

LEMMA ReachableSays == KeysReachable <=> Reach(table, mask)
  BY DEF KeysReachable, Reach, Meets, Passes

LEMMA Before ==
    ASSUME NEW p \in 0 .. Last, NEW q \in 0 .. p - 1
    PROVE  q \in 0 .. Last
  BY SizeFacts

\* Slots that are not empty stay so.
LEMMA PassesKept ==
    ASSUME NEW m \in Masks, NEW t, NEW t2, NEW k \in Key, NEW p \in 0 .. Last, Passes(t, k, m, p),
           \A j \in 0 .. m : t[j].key # Empty => t2[j].key # Empty
    PROVE  Passes(t2, k, m, p)
  <1>1. ASSUME NEW q \in 0 .. p - 1 PROVE t2[Walk[Hash[k], m, q]].key # Empty
    <2>1. q \in 0 .. Last
      BY Before
    <2>2. Walk[Hash[k], m, q] \in 0 .. m
      BY <2>1, WalkFacts, Zenon
    <2>. QED  BY <2>2, Zenon DEF Passes
  <1>. QED  BY <1>1, Zenon DEF Passes

LEMMA MeetsKept ==
    ASSUME NEW m \in Masks, NEW t, NEW t2, NEW k \in Key, NEW i, Meets(t, k, m, i),
           \A j \in 0 .. m : t[j].key # Empty => t2[j].key # Empty
    PROVE  Meets(t2, k, m, i)
  <1>1. PICK p \in 0 .. Last : Walk[Hash[k], m, p] = i /\ Passes(t, k, m, p)
    BY Zenon DEF Meets
  <1>2. Passes(t2, k, m, p)
    BY <1>1, PassesKept, Zenon
  <1>. QED  BY <1>1, <1>2, Zenon DEF Meets

\* A key is stored where its probe meets the slot.
LEMMA PutReach ==
    ASSUME NEW m \in Masks, NEW t \in [0 .. m -> Slots], NEW i \in 0 .. m, NEW e \in Slots,
           IsActive(e), Reach(t, m), Meets(t, e.key, m, i)
    PROVE  Reach(Put(t, i, e), m)
  <1>. DEFINE t2 == Put(t, i, e)
  <1>1. t2 = [t EXCEPT ![i] = e] /\ e.key # Empty /\ e.key \in Key
    BY SlotFacts DEF Put, IsActive
  <1>2. \A j \in 0 .. m : t[j].key # Empty => t2[j].key # Empty
    BY <1>1
  <1>3. ActiveSlots(t2) = ActiveSlots(t) \cup {i} /\ ActiveSlots(t) \subseteq 0 .. m
    BY PutLive, CountFacts
  <1>4. t2[i] = e /\ \A j \in 0 .. m : j # i => t2[j] = t[j]
    BY <1>1
  <1>. HIDE DEF t2
  <1>5. ASSUME NEW j \in ActiveSlots(t2) PROVE Meets(t2, t2[j].key, m, j)
    <2>1. CASE j = i
      BY <2>1, <1>1, <1>2, <1>4, MeetsKept
    <2>2. CASE j # i
      <3>1. j \in ActiveSlots(t) /\ t2[j] = t[j] /\ t[j].key \in Key
        BY <2>2, <1>3, <1>4 DEF ActiveSlots, IsActive
      <3>2. Meets(t, t[j].key, m, j)
        BY <3>1 DEF Reach
      <3>. QED  BY <3>1, <3>2, <1>2, MeetsKept
    <2>. QED  BY <2>1, <2>2
  <1>. QED  BY <1>5 DEF Reach, t2

LEMMA DeleteReach ==
    ASSUME NEW m \in Masks, NEW t \in [0 .. m -> Slots], NEW i \in 0 .. m, Reach(t, m)
    PROVE  Reach(Put(t, i, Deleted), m)
  <1>. DEFINE t2 == Put(t, i, Deleted)
  <1>1. t2 = [t EXCEPT ![i] = Deleted] /\ Deleted.key # Empty /\ ~IsActive(Deleted)
    BY SlotFacts DEF Put
  <1>2. \A j \in 0 .. m : t[j].key # Empty => t2[j].key # Empty
    BY <1>1
  <1>3. \A j \in ActiveSlots(t2) : j \in ActiveSlots(t) /\ t2[j] = t[j]
    BY <1>1 DEF ActiveSlots
  <1>. HIDE DEF t2
  <1>4. ASSUME NEW j \in ActiveSlots(t2) PROVE Meets(t2, t2[j].key, m, j)
    <2>1. j \in ActiveSlots(t) /\ t2[j] = t[j] /\ t[j].key \in Key
      BY <1>3 DEF ActiveSlots, IsActive
    <2>2. Meets(t, t[j].key, m, j)
      BY <2>1 DEF Reach
    <2>. QED  BY <2>1, <2>2, <1>2, MeetsKept
  <1>. QED  BY <1>4 DEF Reach, t2

\* A rebuild stores a key at the first slot of its probe that is free.
LEMMA CleanMeets ==
    ASSUME NEW m \in Masks, NEW t \in [0 .. m -> Slots], NEW k \in Key, NEW s \in 0 .. m, ~IsActive(t[s])
    PROVE  Meets(t, k, m, CleanSlot(t, Hash[k], m))
  <1>. DEFINE W(p) == Walk[Hash[k], m, p]
              G == {p \in 0 .. Last : ~IsActive(t[W(p)])}
  <1>1. PICK p \in 0 .. Last : W(p) = s
    BY WalkFacts
  <1>2. G \in SUBSET (0 .. Last) /\ G # {}
    BY <1>1, Zenon
  <1>3. Last \in Nat
    BY SizeFacts
  <1>4. \E p1 \in G : \A q \in 0 .. p1 - 1 : q \in 0 .. Last /\ q \notin G
    <2>. HIDE DEF G
    <2>. QED  BY <1>2, <1>3, FirstOf
  <1>5. \E p1 \in 0 .. Last : ~IsActive(t[W(p1)]) /\ \A q \in 0 .. p1 - 1 : IsActive(t[W(q)])
    BY <1>4, Zenon
  <1>6. PICK p2 \in 0 .. Last : /\ ~IsActive(t[W(p2)]) /\ \A q \in 0 .. p2 - 1 : IsActive(t[W(q)])
                                /\ CleanSlot(t, Hash[k], m) = W(p2)
    BY <1>5, Zenon DEF CleanSlot
  <1>7. ASSUME NEW q \in 0 .. p2 - 1 PROVE t[W(q)].key # Empty
    <2>1. IsActive(t[W(q)])
      BY <1>6, Zenon
    <2>. HIDE DEF W
    <2>. QED  BY <2>1, DictAssumption DEF IsActive
  <1>8. Passes(t, k, m, p2)
    BY <1>7, Zenon DEF Passes
  <1>. QED  BY <1>6, <1>8, Zenon DEF Meets

LEMMA EmptyReach ==
    ASSUME NEW m \in Masks
    PROVE  Reach(EmptyTable(m), m)
  BY EmptyTableFacts DEF Reach

\* What a store makes of the table.
StoredIn(t, i, k, v) == Put(t, i, Entry(IF IsActive(t[i]) THEN t[i].key ELSE k, v))

LEMMA StoreShape ==
    ASSUME TableInv, ~Rebuilds, NEW i \in 0 .. mask, NEW before, NEW grow, Store(i, before, grow),
           Top.key \in Key, Top.value \in Value
    PROVE  LET t == StoredIn(table, i, Top.key, Top.value)
           IN  /\ t \in [0 .. mask -> Slots]
               /\ \/ table' = t /\ old' = <<>> /\ ~Grows(i, before, grow) /\ mask' = mask /\ next' = next
                  \/ mask' \in Masks /\ table' = EmptyTable(mask') /\ old' = t /\ next' = 0
  <1>. DEFINE e == Entry(IF IsActive(table[i]) THEN table[i].key ELSE Top.key, Top.value)
              t == Put(table, i, e)
              n == UsedAfter(i) * Growth
  <1>1. mask \in Masks /\ table \in [0 .. mask -> Slots] /\ used \in Nat /\ old = <<>>
    BY DEF TableInv, TableOk, Rebuilds
  <1>2. e \in Slots
    <2>1. (IF IsActive(table[i]) THEN table[i].key ELSE Top.key) \in Key
      BY DEF IsActive
    <2>. QED  BY <2>1, SlotFacts
  <1>3. t \in [0 .. mask -> Slots]
    <2>. HIDE DEF e
    <2>. QED  BY <1>1, <1>2, PutType
  <1>4. t = [table EXCEPT ![i] = Entry(IF Added(i) THEN Top.key ELSE @.key, Top.value)]
    BY DEF Put, Added
  <1>5. CASE Grows(i, before, grow)
    <2>1. Bounded(n) /\ StartRebuild(t, Capacity(n))
      BY <1>4, <1>5 DEF Store
    <2>2. n \in Nat
      BY <1>1, Product, DictAssumption DEF UsedAfter
    <2>3. Capacity(n) \in Sizes
      <3>. HIDE DEF n
      <3>. QED  BY <2>1, <2>2, CapacityFacts
    <2>. HIDE DEF n, t
    <2>4. table' = EmptyTable(Capacity(n) - 1) /\ mask' = Capacity(n) - 1 /\ old' = t /\ next' = 0
      BY <2>1 DEF StartRebuild
    <2>5. mask' \in Masks /\ table' = EmptyTable(mask')
      BY <2>3, <2>4, SizeFacts
    <2>. QED  BY <2>4, <2>5, <1>3 DEF StoredIn, t
  <1>6. CASE ~Grows(i, before, grow)
    <2>1. /\ table' = [table EXCEPT ![i] = Entry(IF Added(i) THEN Top.key ELSE @.key, Top.value)]
          /\ mask' = mask /\ next' = next /\ old' = old
      BY <1>6 DEF Store
    <2>. HIDE DEF t
    <2>2. table' = t
      BY <2>1, <1>4
    <2>. QED  BY <2>1, <2>2, <1>1, <1>3, <1>6 DEF StoredIn, t
  <1>. QED  BY <1>5, <1>6

LEMMA StoreReach ==
    ASSUME TableInv, ~Rebuilds, NEW i \in 0 .. mask, NEW before, NEW grow, Store(i, before, grow),
           Top.key \in Key, Top.value \in Value, Reach(table, mask),
           ~IsActive(table[i]) => Meets(table, Top.key, mask, i)
    PROVE  Reach(table', mask')
  <1>. DEFINE e == Entry(IF IsActive(table[i]) THEN table[i].key ELSE Top.key, Top.value)
              t == Put(table, i, e)
  <1>1. mask \in Masks /\ table \in [0 .. mask -> Slots]
    BY DEF TableInv, TableOk
  <1>2. e \in Slots /\ IsActive(e) /\ Meets(table, e.key, mask, i)
    <2>1. (IF IsActive(table[i]) THEN table[i].key ELSE Top.key) \in Key
      BY DEF IsActive
    <2>2. e \in Slots /\ IsActive(e) /\ e.key = IF IsActive(table[i]) THEN table[i].key ELSE Top.key
      BY <2>1, SlotFacts
    <2>3. IsActive(table[i]) => Meets(table, table[i].key, mask, i)
      BY <1>1 DEF Reach, ActiveSlots
    <2>. HIDE DEF e
    <2>. QED  BY <2>2, <2>3
  <1>3. Reach(t, mask)
    <2>. HIDE DEF e
    <2>. QED  BY <1>1, <1>2, PutReach
  <1>4. \/ table' = t /\ mask' = mask
        \/ mask' \in Masks /\ table' = EmptyTable(mask')
    BY StoreShape, Zenon DEF StoredIn
  <1>. HIDE DEF t
  <1>. QED  BY <1>3, <1>4, EmptyReach

LEMMA MoveReach ==
    ASSUME TableInv, MoveEntry, Reach(table, mask)
    PROVE  /\ Reach(table', mask')
           /\ IF IsActive(old[next])
                THEN \E i \in 0 .. mask : ~IsActive(table[i]) /\ table' = Put(table, i, old[next])
                ELSE table' = table
           /\ next \in DOMAIN old /\ DOMAIN old \subseteq Nat /\ old[next] \in Slots
  <1>1. /\ Rebuilds /\ mask \in Masks /\ table \in [0 .. mask -> Slots] /\ used \in Nat /\ next \in Nat
    BY DEF TableInv, TableOk, MoveEntry
  <1>2. PICK m \in Masks : old \in [0 .. m -> Slots] /\ next \in 0 .. m + 1
    BY <1>1 DEF TableInv, RebuildOk
  <1>3. used <= mask
    BY <1>1 DEF TableInv, RebuildOk
  <1>4. used = Cardinality(ActiveSlots(table)) + Cardinality(Unmoved)
    BY DEF TableInv, CountsExact
  <1>5. DOMAIN old = 0 .. m /\ Cardinality(DOMAIN old) = m + 1 /\ m \in Nat
    BY <1>2, CountFacts, MaskFacts
  <1>6. next \in 0 .. m /\ next <= Cardinality(DOMAIN old) - 1
    BY <1>1, <1>2, <1>5 DEF MoveEntry
  <1>7. old[next] \in Slots
    BY <1>2, <1>6
  <1>8. next \in DOMAIN old /\ DOMAIN old \subseteq Nat
    BY <1>5, <1>6
  <1>9. mask' = mask
    BY DEF MoveEntry
  <1>10. CASE ~IsActive(old[next])
    <2>1. table' = table
      BY <1>10 DEF MoveEntry
    <2>. QED  BY <2>1, <1>7, <1>8, <1>9, <1>10
  <1>11. CASE IsActive(old[next])
    <2>. DEFINE i == CleanSlot(table, Hash[old[next].key], mask)
    <2>1. old[next].key \in Key
      BY <1>11 DEF IsActive
    <2>2. next \in Unmoved
      BY <1>1, <1>8, <1>11 DEF Unmoved
    <2>3. IsFiniteSet(Unmoved) /\ Unmoved # {}
      <3>1. Unmoved \subseteq 0 .. m /\ IsFiniteSet(0 .. m)
        BY <1>2, <1>5, CountFacts DEF Unmoved
      <3>. QED  BY <3>1, <2>2, FS_Subset
    <2>4. Cardinality(Unmoved) \in Nat \ {0}
      BY <2>2, <2>3, RemoveMember
    <2>5. PICK s \in 0 .. mask : ~IsActive(table[s])
      <3>1. Cardinality(ActiveSlots(table)) \in Nat /\ Cardinality(0 .. mask) = mask + 1 /\ mask \in Nat
        BY <1>1, CountFacts, MaskFacts
      <3>2. Cardinality(ActiveSlots(table)) # mask + 1
        BY <3>1, <2>4, <1>1, <1>3, <1>4
      <3>3. ActiveSlots(table) # 0 .. mask
        BY <3>1, <3>2
      <3>. QED  BY <3>3, <1>1 DEF ActiveSlots
    <2>6. i \in 0 .. mask /\ ~IsActive(table[i])
      BY <2>1, <2>5, <1>1, CleanSlotFacts
    <2>7. Meets(table, old[next].key, mask, i)
      BY <2>1, <2>5, <1>1, CleanMeets
    <2>8. table' = Put(table, i, old[next])
      BY <1>11 DEF MoveEntry, Put
    <2>. HIDE DEF i
    <2>9. Reach(table', mask')
      BY <2>6, <2>7, <2>8, <1>1, <1>7, <1>9, <1>11, PutReach
    <2>. QED  BY <2>6, <2>8, <2>9, <1>7, <1>8, <1>11
  <1>. QED  BY <1>10, <1>11

-----------------------------------------------------------------------------
(* The empty slot.                                                         *)

HasEmpty(t, m) == \E i \in 0 .. m : t[i].key = Empty

LEMMA RoomLeft ==
    ASSUME TableInv, ~Rebuilds, fill <= mask
    PROVE  HasEmpty(table, mask)
  <1>1. TableOk /\ mask \in Masks /\ table \in [0 .. mask -> Slots]
    BY DEF TableInv, TableOk
  <1>2. fill = Cardinality(NonEmpty(table))
    BY <1>1, IdleFacts DEF TableInv
  <1>3. NonEmpty(table) # 0 .. mask
    <2>1. Cardinality(0 .. mask) = mask + 1 /\ mask \in Nat
      BY <1>1, CountFacts, MaskFacts
    <2>. QED  BY <2>1, <1>2
  <1>. QED  BY <1>1, <1>3 DEF NonEmpty, HasEmpty

LEMMA RoomAfter ==
    ASSUME TableInv', ~Rebuilds', fill' <= mask'
    PROVE  HasEmpty(table', mask')
  <1>1. TableOk' /\ mask' \in Masks /\ table' \in [0 .. mask' -> Slots]
    BY DEF TableInv, TableOk
  <1>2. fill' = Cardinality(NonEmpty(table'))
    <2>1. NonEmpty(table') = {i \in 0 .. mask' : table'[i].key # Empty}
      BY <1>1 DEF NonEmpty
    <2>. QED  BY <2>1 DEF TableInv, CountsExact
  <1>3. NonEmpty(table') # 0 .. mask'
    <2>1. Cardinality(0 .. mask') = mask' + 1 /\ mask' \in Nat
      BY <1>1, CountFacts, MaskFacts
    <2>. QED  BY <2>1, <1>2
  <1>. QED  BY <1>1, <1>3 DEF NonEmpty, HasEmpty

\* A store that adds a key and does not grow the table leaves an empty slot.
LEMMA StoreRoom ==
    ASSUME TableInv, TableInv', ~Rebuilds, NEW i \in 0 .. mask, NEW grow \in BOOLEAN,
           Store(i, used, grow), ~IsActive(table[i])
    PROVE  EmptySlotRemains'
  <1>1. mask \in Nat /\ used \in Nat /\ fill \in Nat
    BY MaskFacts DEF TableInv, TableOk
  <1>2. UsedAfter(i) = used + 1 /\ FillAfter(i) \in Nat
    BY <1>1 DEF UsedAfter, FillAfter, Added
  <1>3. CASE Rebuilds'
    BY <1>3 DEF EmptySlotRemains
  <1>4. CASE ~Rebuilds'
    <2>1. ~Grows(i, used, grow)
      <3>1. SUFFICES ASSUME Grows(i, used, grow) PROVE Rebuilds'
        BY <1>4
      <3>2. PICK t : /\ t = [table EXCEPT ![i] = Entry(IF Added(i) THEN Top.key ELSE @.key, Top.value)]
                     /\ old' = t
        BY <3>1 DEF Store, StartRebuild
      <3>3. DOMAIN table = 0 .. mask /\ 0 \in DOMAIN table
        BY <1>1 DEF TableInv, TableOk
      <3>4. DOMAIN t = DOMAIN table
        BY <3>2
      <3>5. DOMAIN <<>> = {}
        OBVIOUS
      <3>. QED  BY <3>2, <3>3, <3>4, <3>5 DEF Rebuilds
    <2>2. FillAfter(i) <= mask
      <3>1. ~(IF grow THEN used + 1 > used /\ FillAfter(i) * 3 >= (mask + 1) * 2 ELSE FillAfter(i) > mask)
        BY <2>1, <1>2 DEF Grows
      <3>. QED  BY <3>1, <1>1, <1>2
    <2>3. fill' = FillAfter(i) /\ mask' = mask
      BY <2>1 DEF Store
    <2>4. HasEmpty(table', mask')
      BY <2>2, <2>3, <1>4, RoomAfter
    <2>. QED  BY <2>4 DEF HasEmpty, EmptySlotRemains
  <1>. QED  BY <1>3, <1>4

LEMMA EndRoom ==
    ASSUME TableInv, TableInv', EndRebuild
    PROVE  EmptySlotRemains'
  <1>1. used <= mask /\ fill' = used /\ mask' = mask /\ old' = <<>>
    BY DEF TableInv, RebuildOk, EndRebuild
  <1>2. ~Rebuilds'
    BY <1>1 DEF Rebuilds
  <1>3. HasEmpty(table', mask')
    BY <1>1, <1>2, RoomAfter
  <1>. QED  BY <1>3 DEF HasEmpty, EmptySlotRemains

\* Writing over a slot that is not empty, with one that is not either.
LEMMA PutRoom ==
    ASSUME NEW m \in Masks, NEW t \in [0 .. m -> Slots], NEW i \in 0 .. m, NEW e,
           t[i].key # Empty, HasEmpty(t, m)
    PROVE  HasEmpty(Put(t, i, e), m)
  BY DEF HasEmpty, Put

LEMMA EmptyRoom ==
    ASSUME NEW m \in Masks
    PROVE  HasEmpty(EmptyTable(m), m)
  BY EmptyTableFacts, MaskFacts DEF HasEmpty

-----------------------------------------------------------------------------
(* The entries of a table, and the map they are.                           *)

Rest(o, n)         == {i \in DOMAIN o : i >= n /\ IsActive(o[i])}
EntriesOf(t, o, n) == {t[i] : i \in ActiveSlots(t)} \cup {o[i] : i \in Rest(o, n)}

\* No two entries have equal keys.
One(t, o, n) ==
    /\ \A i, j \in ActiveSlots(t) : Class[t[i].key] = Class[t[j].key] => i = j
    /\ \A i, j \in Rest(o, n) : Class[o[i].key] = Class[o[j].key] => i = j
    /\ \A i \in ActiveSlots(t), j \in Rest(o, n) : Class[t[i].key] # Class[o[j].key]

\* A table and a slot whose entry is the only one of its class.
Alone(t, i, c) == \A j \in ActiveSlots(t) : j # i => Class[t[j].key] # c

\* The entries that are not in a slot.
Others(t, i) == {t[j] : j \in ActiveSlots(t) \ {i}}

Classes == {Class[k] : k \in Key}
Same(E, c) == {e \in E : Class[e.key] = c}
ContentOf(E) == [c \in Classes |-> IF Same(E, c) = {} THEN None ELSE CHOOSE e \in Same(E, c) : TRUE]

\* The map with another value for a class.
With(f, c, x) == [f EXCEPT ![c] = x]

LEMMA ContentSays == Content = ContentOf(EntriesOf(table, old, next))
  <1>1. Entries = EntriesOf(table, old, next)
    BY DEF Entries, EntriesOf, Unmoved, Rest
  <1>2. Content = ContentOf(Entries)
    BY Zenon DEF Content, ContentOf, Classes, Same
  <1>. QED  BY <1>1, <1>2, Zenon

LEMMA NothingLeft ==
    /\ \A n : Rest(<<>>, n) = {}
    /\ \A t, n : EntriesOf(t, <<>>, n) = {t[i] : i \in ActiveSlots(t)}
    /\ \A t, n : One(t, <<>>, n) <=> \A i, j \in ActiveSlots(t) : Class[t[i].key] = Class[t[j].key] => i = j
  <1>1. \A n : Rest(<<>>, n) = {}
    BY DEF Rest
  <1>. QED  BY <1>1 DEF EntriesOf, One

\* The entries of a table that a rebuild is to move.
LEMMA Started ==
    ASSUME NEW m \in Masks, NEW t \in [0 .. m -> Slots], NEW m2 \in Masks, One(t, <<>>, 0)
    PROVE  /\ One(EmptyTable(m2), t, 0)
           /\ EntriesOf(EmptyTable(m2), t, 0) = EntriesOf(t, <<>>, 0)
  <1>1. ActiveSlots(EmptyTable(m2)) = {}
    BY EmptyTableFacts
  <1>2. Rest(t, 0) = ActiveSlots(t)
    <2>1. \A i \in 0 .. m : i >= 0
      BY MaskFacts
    <2>2. DOMAIN t = 0 .. m
      OBVIOUS
    <2>. QED  BY <2>1, <2>2 DEF Rest, ActiveSlots
  <1>. HIDE DEF EmptyTable
  <1>3. One(EmptyTable(m2), t, 0)
    BY <1>1, <1>2, NothingLeft DEF One
  <1>. QED  BY <1>1, <1>2, <1>3, NothingLeft DEF EntriesOf

\* What is written where nothing else is equal.
LEMMA Written ==
    ASSUME NEW m \in Masks, NEW t \in [0 .. m -> Slots], NEW i \in 0 .. m, NEW e \in Slots, IsActive(e),
           One(t, <<>>, 0), Alone(t, i, Class[e.key])
    PROVE  /\ One(Put(t, i, e), <<>>, 0)
           /\ EntriesOf(Put(t, i, e), <<>>, 0) = Others(t, i) \cup {e}
  <1>. DEFINE t2 == Put(t, i, e)
  <1>1. ActiveSlots(t2) = ActiveSlots(t) \cup {i} /\ ActiveSlots(t) \subseteq 0 .. m
    BY PutLive, CountFacts
  <1>2. t2[i] = e /\ \A j \in 0 .. m : j # i => t2[j] = t[j]
    BY DEF Put
  <1>. HIDE DEF t2
  <1>3. One(t2, <<>>, 0)
    <2>1. ASSUME NEW j \in ActiveSlots(t2), NEW l \in ActiveSlots(t2), Class[t2[j].key] = Class[t2[l].key]
          PROVE  j = l
      <3>1. CASE j = i /\ l # i
        BY <3>1, <2>1, <1>1, <1>2 DEF Alone
      <3>2. CASE j # i /\ l = i
        BY <3>2, <2>1, <1>1, <1>2 DEF Alone
      <3>3. CASE j # i /\ l # i
        BY <3>3, <2>1, <1>1, <1>2, NothingLeft
      <3>. QED  BY <3>1, <3>2, <3>3
    <2>. QED  BY <2>1, NothingLeft
  <1>4. EntriesOf(t2, <<>>, 0) = {t2[j] : j \in ActiveSlots(t2)}
    BY NothingLeft
  <1>5. {t2[j] : j \in ActiveSlots(t2)} = Others(t, i) \cup {e}
    <2>1. \A j \in ActiveSlots(t) \ {i} : j \in ActiveSlots(t2) /\ t2[j] = t[j]
      BY <1>1, <1>2
    <2>2. \A j \in ActiveSlots(t2) : j = i \/ (j \in ActiveSlots(t) \ {i} /\ t2[j] = t[j])
      BY <1>1, <1>2
    <2>3. i \in ActiveSlots(t2)
      BY <1>1
    <2>. QED  BY <2>1, <2>2, <2>3, <1>2 DEF Others
  <1>. QED  BY <1>3, <1>4, <1>5 DEF t2

LEMMA Erased ==
    ASSUME NEW m \in Masks, NEW t \in [0 .. m -> Slots], NEW i \in 0 .. m, One(t, <<>>, 0)
    PROVE  /\ One(Put(t, i, Deleted), <<>>, 0)
           /\ EntriesOf(Put(t, i, Deleted), <<>>, 0) = Others(t, i)
  <1>. DEFINE t2 == Put(t, i, Deleted)
  <1>1. /\ \A j \in ActiveSlots(t2) : j \in ActiveSlots(t) \ {i} /\ t2[j] = t[j]
        /\ \A j \in ActiveSlots(t) \ {i} : j \in ActiveSlots(t2)
    <2>1. t2 = [t EXCEPT ![i] = Deleted] /\ ~IsActive(Deleted)
      BY SlotFacts DEF Put
    <2>. QED  BY <2>1 DEF ActiveSlots
  <1>. HIDE DEF t2
  <1>2. One(t2, <<>>, 0)
    BY <1>1, NothingLeft
  <1>3. EntriesOf(t2, <<>>, 0) = {t2[j] : j \in ActiveSlots(t2)}
    BY NothingLeft
  <1>4. {t2[j] : j \in ActiveSlots(t2)} = Others(t, i)
    BY <1>1 DEF Others
  <1>. QED  BY <1>2, <1>3, <1>4 DEF t2

\* A step of a rebuild can move the entry at n of the old slots to slot i.
Movable(m, t, i, o, n) ==
    /\ m \in Masks /\ t \in [0 .. m -> Slots] /\ i \in 0 .. m /\ ~IsActive(t[i])
    /\ DOMAIN o \subseteq Nat /\ n \in DOMAIN o /\ o[n] \in Slots /\ IsActive(o[n])
    /\ One(t, o, n)

\* A rebuild moves an entry, or passes a slot that holds none.
LEMMA Moved ==
    ASSUME NEW m, NEW t, NEW i, NEW o, NEW n, Movable(m, t, i, o, n)
    PROVE  /\ One(Put(t, i, o[n]), o, n + 1)
           /\ EntriesOf(Put(t, i, o[n]), o, n + 1) = EntriesOf(t, o, n)
  <1>. /\ m \in Masks /\ t \in [0 .. m -> Slots] /\ i \in 0 .. m /\ ~IsActive(t[i])
       /\ DOMAIN o \subseteq Nat /\ n \in DOMAIN o /\ o[n] \in Slots /\ IsActive(o[n])
       /\ One(t, o, n)
    BY DEF Movable
  <1>. DEFINE t2 == Put(t, i, o[n])
  <1>1. ActiveSlots(t2) = ActiveSlots(t) \cup {i} /\ ActiveSlots(t) \subseteq 0 .. m /\ i \notin ActiveSlots(t)
    <2>1. i \notin ActiveSlots(t)
      BY DEF ActiveSlots
    <2>. QED  BY <2>1, PutLive, CountFacts
  <1>2. t2[i] = o[n] /\ \A j \in ActiveSlots(t) : t2[j] = t[j]
    <2>1. t2[i] = o[n] /\ \A j \in 0 .. m : j # i => t2[j] = t[j]
      BY DEF Put
    <2>. HIDE DEF t2
    <2>. QED  BY <2>1, <1>1
  <1>3. Rest(o, n + 1) = Rest(o, n) \ {n} /\ n \in Rest(o, n)
    <2>1. \A j \in DOMAIN o : j >= n + 1 <=> j >= n /\ j # n
      OBVIOUS
    <2>2. n >= n
      OBVIOUS
    <2>. QED  BY <2>1, <2>2 DEF Rest
  <1>. HIDE DEF t2
  <1>4. ASSUME NEW j \in ActiveSlots(t2), NEW l \in ActiveSlots(t2), Class[t2[j].key] = Class[t2[l].key]
        PROVE  j = l
    <2>1. CASE j = i /\ l # i
      BY <2>1, <1>1, <1>2, <1>3, <1>4 DEF One
    <2>2. CASE j # i /\ l = i
      BY <2>2, <1>1, <1>2, <1>3, <1>4 DEF One
    <2>3. CASE j # i /\ l # i
      BY <2>3, <1>1, <1>2, <1>4 DEF One
    <2>. QED  BY <2>1, <2>2, <2>3
  <1>5. \A j, l \in Rest(o, n + 1) : Class[o[j].key] = Class[o[l].key] => j = l
    BY <1>3 DEF One
  <1>6. ASSUME NEW j \in ActiveSlots(t2), NEW l \in Rest(o, n + 1) PROVE Class[t2[j].key] # Class[o[l].key]
    <2>1. CASE j = i
      BY <2>1, <1>2, <1>3, <1>6 DEF One
    <2>2. CASE j # i
      BY <2>2, <1>1, <1>2, <1>3, <1>6 DEF One
    <2>. QED  BY <2>1, <2>2
  <1>7. One(t2, o, n + 1)
    BY <1>4, <1>5, <1>6 DEF One
  <1>8. EntriesOf(t2, o, n + 1) = EntriesOf(t, o, n)
    <2>1. {t2[j] : j \in ActiveSlots(t2)} = {t[j] : j \in ActiveSlots(t)} \cup {o[n]}
      BY <1>1, <1>2
    <2>2. {o[j] : j \in Rest(o, n)} = {o[j] : j \in Rest(o, n + 1)} \cup {o[n]}
      BY <1>3
    <2>. QED  BY <2>1, <2>2 DEF EntriesOf
  <1>. QED  BY <1>7, <1>8 DEF t2

LEMMA Passed ==
    ASSUME NEW t, NEW o, DOMAIN o \subseteq Nat, NEW n \in DOMAIN o, ~IsActive(o[n])
    PROVE  /\ One(t, o, n) <=> One(t, o, n + 1)
           /\ EntriesOf(t, o, n + 1) = EntriesOf(t, o, n)
  <1>1. Rest(o, n + 1) = Rest(o, n)
    <2>1. \A j \in DOMAIN o : j >= n + 1 <=> j >= n /\ j # n
      OBVIOUS
    <2>. QED  BY <2>1 DEF Rest
  <1>. QED  BY <1>1 DEF One, EntriesOf

\* All entries are moved.
LEMMA AllMoved ==
    ASSUME NEW t, NEW o, NEW n, Rest(o, n) = {}
    PROVE  /\ One(t, o, n) => One(t, <<>>, 0)
           /\ EntriesOf(t, <<>>, 0) = EntriesOf(t, o, n)
  BY NothingLeft DEF One, EntriesOf

\* The value of the map for a class of keys.
LEMMA ContentAt ==
    ASSUME NEW E, NEW e \in E, e.key \in Key, \A d \in E : Class[d.key] = Class[e.key] => d = e
    PROVE  ContentOf(E)[Class[e.key]] = e /\ Class[e.key] \in Classes
  <1>1. Class[e.key] \in Classes
    BY DEF Classes
  <1>2. Same(E, Class[e.key]) = {e}
    BY DEF Same
  <1>. QED  BY <1>1, <1>2 DEF ContentOf

LEMMA ContentNone ==
    ASSUME NEW E, NEW c \in Classes, \A e \in E : Class[e.key] # c
    PROVE  ContentOf(E)[c] = None
  <1>1. Same(E, c) = {}
    BY DEF Same
  <1>. QED  BY <1>1 DEF ContentOf

\* Two sets of entries that differ in one class.
Agree(E, F, c) == \A e : Class[e.key] # c => (e \in E <=> e \in F)

LEMMA ContentChange ==
    ASSUME NEW E, NEW F, NEW c \in Classes, Agree(E, F, c)
    PROVE  ContentOf(F) = With(ContentOf(E), c, ContentOf(F)[c])
  <1>1. ASSUME NEW d \in Classes, d # c PROVE ContentOf(F)[d] = ContentOf(E)[d]
    <2>1. Same(E, d) = Same(F, d)
      BY <1>1 DEF Same, Agree
    <2>. QED  BY <2>1 DEF ContentOf
  <1>2. ContentOf(F) \in [Classes -> {ContentOf(F)[d] : d \in Classes}]
    BY DEF ContentOf
  <1>3. DOMAIN ContentOf(F) = Classes /\ DOMAIN ContentOf(E) = Classes
    BY DEF ContentOf
  <1>4. ContentOf(F) = [d \in Classes |-> ContentOf(F)[d]]
    BY DEF ContentOf
  <1>5. [ContentOf(E) EXCEPT ![c] = ContentOf(F)[c]]
            = [d \in Classes |-> IF d = c THEN ContentOf(F)[c] ELSE ContentOf(E)[d]]
    BY <1>3
  <1>6. \A d \in Classes : ContentOf(F)[d] = IF d = c THEN ContentOf(F)[c] ELSE ContentOf(E)[d]
    BY <1>1
  <1>. QED  BY <1>4, <1>5, <1>6 DEF With

-----------------------------------------------------------------------------
(* What lookups know while comparisons leave the table alone.              *)

\* No slot before position p of the probe of a key holds an equal one.
Misses(t, k, m, p) ==
    \A q \in 0 .. p - 1 : IsActive(t[Walk[Hash[k], m, q]]) => Class[t[Walk[Hash[k], m, q]].key] # Class[k]

Remembers(t, k, m, p, d) ==
    d # None => ~IsActive(t[d]) /\ \E q \in 0 .. p - 1 : Walk[Hash[k], m, q] = d

Absent(t, k) == \A i \in ActiveSlots(t) : Class[t[i].key] # Class[k]

Knows(f, t, m, h, u, o) ==
    /\ f.pc # "merge" => o = <<>> /\ f.used = u
    /\ f.pc = "merge" => f.op = "insert"
    /\ f.pc \in {"probe", "compare"} =>
          /\ f.home = h /\ f.mask = m
          /\ Passes(t, f.key, m, f.p) /\ Misses(t, f.key, m, f.p) /\ Remembers(t, f.key, m, f.p, f.dummy)
    /\ f.pc = "compare" => f.index = Walk[Hash[f.key], m, f.p] /\ f.stored = t[f.index].key
    /\ f.pc = "ended" =>
          IF f.found THEN IsActive(t[f.index]) /\ Class[t[f.index].key] = Class[f.key]
                     ELSE ~IsActive(t[f.index]) /\ Absent(t, f.key) /\ Meets(t, f.key, m, f.index)

QuietTable == One(table, old, next) /\ Reach(table, mask) /\ EmptySlotRemains
QuietStack ==
    /\ \A i \in 1 .. Len(stack) : Knows(stack[i], table, mask, home, used, old)
    /\ \A i \in 2 .. Len(stack) : stack[i].op = "get" /\ stack[i].left = None
QInv == QuietTable /\ QuietStack

LEMMA Order ==
    ASSUME NEW p \in 0 .. Last, NEW q \in 0 .. Last
    PROVE  q \in 0 .. p - 1 \/ q = p \/ p \in 0 .. q - 1
  BY SizeFacts

LEMMA Between ==
    ASSUME NEW n \in 0 .. Last, NEW p \in n .. Last
    PROVE  /\ n .. p - 1 \subseteq 0 .. Last /\ Last \in Nat
           /\ n .. p - 1 \subseteq 0 .. p - 1 /\ 0 .. n - 1 \subseteq 0 .. p - 1
  BY SizeFacts

\* A probe that meets an empty slot has met all keys equal to its own.
LEMMA NotThere ==
    ASSUME NEW m \in Masks, NEW t \in [0 .. m -> Slots], NEW k \in Key, NEW p \in 0 .. Last,
           t[Walk[Hash[k], m, p]].key = Empty, Misses(t, k, m, p), Reach(t, m)
    PROVE  Absent(t, k)
  <1>1. ASSUME NEW j \in ActiveSlots(t), Class[t[j].key] = Class[k] PROVE FALSE
    <2>1. IsActive(t[j]) /\ t[j].key \in Key /\ t[j].key # Empty
      BY DictAssumption DEF ActiveSlots, IsActive
    <2>2. Hash[t[j].key] = Hash[k]
      BY <1>1, <2>1, DictAssumption
    <2>3. Meets(t, t[j].key, m, j)
      BY DEF Reach
    <2>4. PICK p1 \in 0 .. Last : Walk[Hash[k], m, p1] = j /\ \A q \in 0 .. p1 - 1 : t[Walk[Hash[k], m, q]].key # Empty
      BY <2>2, <2>3, Zenon DEF Meets, Passes
    <2>5. p1 \in 0 .. p - 1 \/ p1 = p \/ p \in 0 .. p1 - 1
      BY Order, Zenon
    <2>6. CASE p1 \in 0 .. p - 1
      BY <2>1, <2>4, <2>6, <1>1, Zenon DEF Misses
    <2>7. CASE p1 = p
      BY <2>1, <2>4, <2>7, Zenon
    <2>8. CASE p \in 0 .. p1 - 1
      BY <2>4, <2>8, Zenon
    <2>. QED  BY <2>5, <2>6, <2>7, <2>8
  <1>. QED  BY <1>1, Zenon DEF Absent

LEMMA PassesBefore ==
    ASSUME NEW t, NEW k, NEW m, NEW p \in 0 .. Last, NEW q \in 0 .. p - 1, Passes(t, k, m, p)
    PROVE  Passes(t, k, m, q)
  <1>1. \A r \in 0 .. q - 1 : r \in 0 .. p - 1
    BY SizeFacts
  <1>. QED  BY <1>1, Zenon DEF Passes

\* The slots between two stops.
LEMMA NotStopped ==
    ASSUME NEW f, f.key \in Key, f.p \in 0 .. Last, NEW p \in f.p .. Last, NEW m \in Masks, f.mask = m,
           \A q \in f.p .. p - 1 : ~Stops(f, q)
    PROVE  /\ Passes(table, f.key, m, f.p) => Passes(table, f.key, m, p)
           /\ Misses(table, f.key, m, f.p) => Misses(table, f.key, m, p)
  <1>1. \A q \in 0 .. p - 1 : q \in 0 .. f.p - 1 \/ q \in f.p .. p - 1
    BY SizeFacts
  <1>2. ASSUME NEW q \in f.p .. p - 1
        PROVE  /\ table[Walk[Hash[f.key], m, q]].key # Empty
               /\ IsActive(table[Walk[Hash[f.key], m, q]]) => Class[table[Walk[Hash[f.key], m, q]].key] # Class[f.key]
    <2>. DEFINE e == table[Walk[Hash[f.key], m, q]]
    <2>1. /\ e.key \notin {Empty, f.key}
          /\ ~(IsActive(e) /\ Hash[e.key] = Hash[f.key] /\ ~(Quick(e.key, f.key) /\ Class[e.key] # Class[f.key]))
      BY Zenon DEF Stops
    <2>. HIDE DEF e
    <2>2. IsActive(e) => Class[e.key] # Class[f.key]
      BY <2>1, DictAssumption DEF IsActive
    <2>3. e.key # Empty
      BY <2>1
    <2>. QED  BY <2>2, <2>3 DEF e
  <1>3. Passes(table, f.key, m, f.p) => Passes(table, f.key, m, p)
    BY <1>1, <1>2, Zenon DEF Passes
  <1>4. Misses(table, f.key, m, f.p) => Misses(table, f.key, m, p)
    BY <1>1, <1>2, Zenon DEF Misses
  <1>. QED  BY <1>3, <1>4

\* The first deleted slot was met before.
LEMMA FirstDummyMet ==
    ASSUME NEW f, f.key \in Key, f.p \in 0 .. Last, NEW p \in f.p .. Last, f.mask = mask, mask \in Masks,
           FirstDummy(f, p) # None,
           f.dummy # None => \E q \in 0 .. f.p - 1 : Walk[Hash[f.key], mask, q] = f.dummy
    PROVE  /\ \E q \in 0 .. p - 1 : Walk[Hash[f.key], mask, q] = FirstDummy(f, p)
           /\ FirstDummy(f, p) = f.dummy \/ table[FirstDummy(f, p)].key = Dummy
  <1>. DEFINE slot(q) == Walk[Hash[f.key], f.mask, q]
              dummies == {q \in f.p .. p - 1 : table[slot(q)].key = Dummy}
  <1>1. /\ f.p .. p - 1 \subseteq 0 .. Last /\ Last \in Nat
        /\ f.p .. p - 1 \subseteq 0 .. p - 1 /\ 0 .. f.p - 1 \subseteq 0 .. p - 1
    BY Between, Zenon
  <1>2. dummies \in SUBSET (f.p .. p - 1)
    BY Zenon
  <1>3. CASE f.dummy # None \/ dummies = {}
    <2>1. FirstDummy(f, p) = f.dummy
      BY <1>3, Zenon DEF FirstDummy
    <2>. QED  BY <2>1, <1>1, Zenon
  <1>4. CASE f.dummy = None /\ dummies # {}
    <2>1. \E q \in dummies : \A r \in dummies : q <= r
      <3>. HIDE DEF dummies
      <3>1. dummies \in SUBSET (0 .. Last)
        BY <1>1, <1>2
      <3>. QED  BY <3>1, <1>1, <1>4, FirstOf
    <2>2. PICK q \in dummies : FirstDummy(f, p) = slot(q)
      BY <2>1, <1>4, Zenon DEF FirstDummy
    <2>3. q \in 0 .. p - 1 /\ table[slot(q)].key = Dummy
      BY <2>2, <1>1, Zenon
    <2>. QED  BY <2>2, <2>3, Zenon
  <1>. QED  BY <1>3, <1>4, Zenon

\* What the next frame of a lookup knows.
LEMMA EndedKnows ==
    ASSUME NEW f \in Frames, f.pc # "merge", NEW i, NEW found \in BOOLEAN,
           NEW t, NEW m, NEW h, f.used = used,
           IF found THEN IsActive(t[i]) /\ Class[t[i].key] = Class[f.key]
                    ELSE ~IsActive(t[i]) /\ Absent(t, f.key) /\ Meets(t, f.key, m, i)
    PROVE  /\ Knows(Ended(f, i, found), t, m, h, used, <<>>)
           /\ Ended(f, i, found).op = f.op /\ Ended(f, i, found).left = f.left
  <1>. DEFINE g == Ended(f, i, found)
  <1>1. /\ g.pc = "ended" /\ g.index = i /\ g.found = found /\ g.key = f.key /\ g.used = f.used
        /\ g.op = f.op /\ g.left = f.left
    BY DEF Ended, Frames
  <1>. HIDE DEF g
  <1>2. Knows(g, t, m, h, used, <<>>)
    BY <1>1, Zenon DEF Knows
  <1>. QED  BY <1>1, <1>2 DEF g

LEMMA LookupKnows ==
    ASSUME ~Rebuilds, NEW op, NEW k, NEW v, NEW left
    PROVE  LET f == Lookup(op, k, v, left)
           IN  Knows(f, table, mask, home, used, old) /\ f.op = op /\ f.left = left
  <1>. DEFINE f == Lookup(op, k, v, left)
  <1>1. /\ f.pc = "probe" /\ f.home = home /\ f.mask = mask /\ f.p = 0 /\ f.dummy = None /\ f.used = used
        /\ f.op = op /\ f.left = left /\ old = <<>>
    BY DEF Lookup, Rebuilds
  <1>2. 0 .. 0 - 1 = {}
    OBVIOUS
  <1>. HIDE DEF f
  <1>3. /\ Passes(table, f.key, mask, f.p) /\ Misses(table, f.key, mask, f.p)
        /\ Remembers(table, f.key, mask, f.p, f.dummy)
    BY <1>1, <1>2, Zenon DEF Passes, Misses, Remembers
  <1>4. Knows(f, table, mask, home, used, old)
    BY <1>1, <1>3 DEF Knows
  <1>. QED  BY <1>1, <1>4 DEF f

LEMMA ProbeKnows ==
    ASSUME IInv, QInv, Probe
    PROVE  \E g \in Frames : /\ Become(g) /\ Knows(g, table, mask, home, used, old)
                             /\ g.op = Top.op /\ g.left = Top.left
  <1>. DEFINE f == Top
  <1>1. TableInv /\ StackInv /\ TableOk /\ table \in [0 .. mask -> Slots] /\ mask \in Masks
    BY DEF IInv, TableInv, TableOk
  <1>2. ~Rebuilds /\ stack # <<>> /\ f.pc = "probe" /\ UNCHANGED tableVars /\ old = <<>>
    BY DEF Probe, At, Rebuilds
  <1>3. f \in Frames /\ FrameOk(f) /\ Fits(f, table, mask, old)
    BY <1>1, <1>2, TopFacts
  <1>4. Knows(f, table, mask, home, used, old)
    <2>1. Len(stack) \in 1 .. Len(stack)
      BY <1>1, <1>2 DEF StackInv
    <2>. QED  BY <2>1 DEF QInv, QuietStack, Top
  <1>5. PICK p \in f.p .. Last :
            LET i == Walk[Hash[f.key], f.mask, p]
            IN  /\ Stops(f, p) /\ \A q \in f.p .. p - 1 : ~Stops(f, q)
                /\ Become(IF ~IsActive(table[i])
                         THEN IF FirstDummy(f, p) = None
                                THEN Ended(f, i, FALSE)
                                ELSE Ended(f, FirstDummy(f, p), IsActive(table[FirstDummy(f, p)]))
                         ELSE IF table[i].key = f.key \/ Quick(table[i].key, f.key)
                                THEN Ended(f, i, TRUE)
                                ELSE [f EXCEPT !.pc = "compare", !.p = p, !.dummy = FirstDummy(f, p),
                                               !.index = i, !.stored = table[i].key])
    BY Zenon DEF Probe, f
  <1>. HIDE DEF f
  <1>6. /\ f.key \in Key /\ f.mask = mask /\ f.p \in 0 .. Last /\ f.used = used /\ f.home = home
        /\ f.dummy \in {None} \cup 0 .. mask
        /\ Passes(table, f.key, mask, f.p) /\ Misses(table, f.key, mask, f.p)
        /\ Remembers(table, f.key, mask, f.p, f.dummy)
    <2>1. f.key \in Key /\ f.mask = mask /\ f.p \in 0 .. Last /\ f.dummy \in {None} \cup 0 .. mask
      BY <1>2, <1>3 DEF FrameOk, Fits, Frames
    <2>. QED  BY <2>1, <1>2, <1>4 DEF Knows
  <1>7. p \in 0 .. Last
    BY <1>6, SizeFacts
  <1>8. Passes(table, f.key, mask, p) /\ Misses(table, f.key, mask, p)
    <2>1. \A q \in f.p .. p - 1 : ~Stops(f, q)
      BY <1>5, Zenon
    <2>. QED  BY <2>1, <1>1, <1>6, NotStopped
  <1>9. PICK i \in 0 .. mask :
            /\ i = Walk[Hash[f.key], mask, p]
            /\ \/ table[i].key \in {Empty, f.key}
               \/ ~(Quick(table[i].key, f.key) /\ Class[table[i].key] # Class[f.key])
            /\ ~IsActive(table[i]) => table[i].key \in {Empty, f.key}
            /\ Become(IF ~IsActive(table[i])
                     THEN IF FirstDummy(f, p) = None
                            THEN Ended(f, i, FALSE)
                            ELSE Ended(f, FirstDummy(f, p), IsActive(table[FirstDummy(f, p)]))
                     ELSE IF table[i].key = f.key \/ Quick(table[i].key, f.key)
                            THEN Ended(f, i, TRUE)
                            ELSE [f EXCEPT !.pc = "compare", !.p = p, !.dummy = FirstDummy(f, p),
                                           !.index = i, !.stored = table[i].key])
    <2>1. Walk[Hash[f.key], mask, p] \in 0 .. mask
      BY <1>1, <1>6, <1>7, WalkFacts, Zenon
    <2>. QED  BY <2>1, <1>5, <1>6, Zenon DEF Stops
  <1>10. FirstDummy(f, p) # None =>
             /\ FirstDummy(f, p) \in 0 .. mask /\ ~IsActive(table[FirstDummy(f, p)])
             /\ \E q \in 0 .. p - 1 : Walk[Hash[f.key], mask, q] = FirstDummy(f, p)
    <2>. SUFFICES ASSUME FirstDummy(f, p) # None
                  PROVE  /\ FirstDummy(f, p) \in 0 .. mask /\ ~IsActive(table[FirstDummy(f, p)])
                         /\ \E q \in 0 .. p - 1 : Walk[Hash[f.key], mask, q] = FirstDummy(f, p)
      OBVIOUS
    <2>1. FirstDummy(f, p) \in 0 .. mask
      BY <1>1, <1>6, FirstDummyFacts
    <2>2. f.dummy # None => \E q \in 0 .. f.p - 1 : Walk[Hash[f.key], mask, q] = f.dummy
      BY <1>6, Zenon DEF Remembers
    <2>3. /\ \E q \in 0 .. p - 1 : Walk[Hash[f.key], mask, q] = FirstDummy(f, p)
          /\ FirstDummy(f, p) = f.dummy \/ table[FirstDummy(f, p)].key = Dummy
      BY <2>2, <1>1, <1>6, FirstDummyMet, Zenon
    <2>4. f.dummy # None => ~IsActive(table[f.dummy])
      BY <1>6, Zenon DEF Remembers
    <2>5. ~IsActive(table[FirstDummy(f, p)])
      <3>. DEFINE d == FirstDummy(f, p)
      <3>1. d = f.dummy \/ table[d].key = Dummy
        BY <2>3
      <3>2. d # None
        OBVIOUS
      <3>. HIDE DEF d
      <3>3. ~IsActive(table[d])
        BY <3>1, <3>2, <2>4, DictAssumption DEF IsActive
      <3>. QED  BY <3>3 DEF d
    <2>. QED  BY <2>1, <2>3, <2>5, Zenon
  <1>11. ~IsActive(table[i]) => Absent(table, f.key) /\ Meets(table, f.key, mask, i)
    <2>. SUFFICES ASSUME ~IsActive(table[i]) PROVE Absent(table, f.key) /\ Meets(table, f.key, mask, i)
      OBVIOUS
    <2>1. table[i].key = Empty
      BY <1>6, <1>9 DEF IsActive
    <2>2. Reach(table, mask)
      BY DEF QInv, QuietTable
    <2>3. table[Walk[Hash[f.key], mask, p]].key = Empty
      BY <2>1, <1>9, Zenon
    <2>4. Absent(table, f.key)
      BY <2>2, <2>3, <1>1, <1>6, <1>7, <1>8, NotThere, Zenon
    <2>. QED  BY <2>4, <1>7, <1>8, <1>9, Zenon DEF Meets
  <1>12. CASE ~IsActive(table[i]) /\ FirstDummy(f, p) = None
    <2>1. Become(Ended(f, i, FALSE))
      BY <1>9, <1>12
    <2>2. Ended(f, i, FALSE) \in Frames
      BY <1>1, <1>2, <1>3, EndedFacts
    <2>3. /\ Knows(Ended(f, i, FALSE), table, mask, home, used, <<>>)
          /\ Ended(f, i, FALSE).op = f.op /\ Ended(f, i, FALSE).left = f.left
      BY <1>2, <1>3, <1>6, <1>11, <1>12, EndedKnows
    <2>. QED  BY <2>1, <2>2, <2>3, <1>2 DEF f
  <1>13. CASE ~IsActive(table[i]) /\ FirstDummy(f, p) # None
    <2>. DEFINE d == FirstDummy(f, p)
    <2>1. d \in 0 .. mask /\ ~IsActive(table[d])
      BY <1>10, <1>13
    <2>2. Become(Ended(f, d, IsActive(table[d])))
      BY <1>9, <1>13
    <2>3. Meets(table, f.key, mask, d)
      <3>1. PICK q \in 0 .. p - 1 : Walk[Hash[f.key], mask, q] = d
        BY <1>10, <1>13, Zenon
      <3>2. q \in 0 .. Last
        BY <1>7, Before
      <3>3. Passes(table, f.key, mask, q)
        BY <1>7, <1>8, PassesBefore
      <3>. QED  BY <3>1, <3>2, <3>3, Zenon DEF Meets
    <2>. HIDE DEF d
    <2>4. IsActive(table[d]) = FALSE
      BY <2>1 DEF IsActive
    <2>5. Become(Ended(f, d, FALSE))
      BY <2>2, <2>4
    <2>6. Ended(f, d, FALSE) \in Frames
      BY <2>1, <1>1, <1>2, <1>3, EndedFacts
    <2>7. /\ Knows(Ended(f, d, FALSE), table, mask, home, used, <<>>)
          /\ Ended(f, d, FALSE).op = f.op /\ Ended(f, d, FALSE).left = f.left
      BY <2>1, <2>3, <1>2, <1>3, <1>6, <1>11, <1>13, EndedKnows
    <2>. QED  BY <2>5, <2>6, <2>7, <1>2 DEF f
  <1>14. CASE IsActive(table[i]) /\ (table[i].key = f.key \/ Quick(table[i].key, f.key))
    <2>1. Become(Ended(f, i, TRUE))
      BY <1>9, <1>14
    <2>2. Class[table[i].key] = Class[f.key]
      BY <1>9, <1>14, DictAssumption DEF IsActive
    <2>3. Ended(f, i, TRUE) \in Frames
      BY <1>1, <1>2, <1>3, <1>14, EndedFacts
    <2>4. /\ Knows(Ended(f, i, TRUE), table, mask, home, used, <<>>)
          /\ Ended(f, i, TRUE).op = f.op /\ Ended(f, i, TRUE).left = f.left
      BY <2>2, <1>2, <1>3, <1>6, <1>14, EndedKnows
    <2>. QED  BY <2>1, <2>3, <2>4, <1>2 DEF f
  <1>15. CASE IsActive(table[i]) /\ ~(table[i].key = f.key \/ Quick(table[i].key, f.key))
    <2>. DEFINE d == FirstDummy(f, p)
                g == [f EXCEPT !.pc = "compare", !.p = p, !.dummy = d, !.index = i, !.stored = table[i].key]
    <2>1. Become(g)
      BY <1>9, <1>15
    <2>2. table[i].key \in Key
      BY <1>15 DEF IsActive
    <2>3. i \in 0 .. MaxSize - 1 /\ d \in Nat \cup {None}
      <3>1. d \in {None} \cup 0 .. mask
        BY <1>1, <1>6, FirstDummyFacts
      <3>. HIDE DEF d
      <3>. QED  BY <3>1, <1>1, MaskFacts
    <2>4. d # None => ~IsActive(table[d]) /\ \E q \in 0 .. p - 1 : Walk[Hash[f.key], mask, q] = d
      BY <1>10, Zenon
    <2>. HIDE DEF d
    <2>5. g \in Frames
      BY <2>2, <2>3, <1>3, <1>7 DEF Frames
    <2>6. /\ g.pc = "compare" /\ g.key = f.key /\ g.op = f.op /\ g.left = f.left /\ g.mask = f.mask
          /\ g.dummy = d /\ g.index = i /\ g.stored = table[i].key /\ g.p = p /\ g.used = f.used /\ g.home = f.home
      BY <1>3 DEF Frames
    <2>. HIDE DEF g
    <2>7. Remembers(table, g.key, mask, g.p, g.dummy)
      BY <2>4, <2>6, Zenon DEF Remembers
    <2>8. g.index = Walk[Hash[g.key], mask, g.p]
      BY <2>6, <1>9, Zenon
    <2>9. Passes(table, g.key, mask, g.p) /\ Misses(table, g.key, mask, g.p)
      BY <2>6, <1>8
    <2>10. Knows(g, table, mask, home, used, old)
      BY <2>6, <2>7, <2>8, <2>9, <1>2, <1>6, Zenon DEF Knows
    <2>. QED  BY <2>1, <2>5, <2>6, <2>10 DEF f
  <1>. QED  BY <1>12, <1>13, <1>14, <1>15, Zenon

\* A probe goes on after a comparison.
Onward(f, n) == [f EXCEPT !.pc = "probe", !.index = 0, !.stored = None, !.p = n]

LEMMA OnwardFacts ==
    ASSUME NEW f \in Frames, NEW n \in 0 .. Last
    PROVE  LET g == Onward(f, n)
           IN  /\ g \in Frames
               /\ g.pc = "probe" /\ g.key = f.key /\ g.op = f.op /\ g.left = f.left /\ g.mask = f.mask
               /\ g.dummy = f.dummy /\ g.p = n /\ g.used = f.used /\ g.home = f.home
  <1>1. 0 \in 0 .. MaxSize - 1
    <2>1. MinSize - 1 \in Masks
      BY SizeFacts
    <2>. QED  BY <2>1, MaskFacts
  <1>2. Onward(f, n) \in Frames
    BY <1>1 DEF Onward, Frames
  <1>. QED  BY <1>2 DEF Onward, Frames

LEMMA NextPosition ==
    ASSUME NEW p \in 0 .. Last, p # Last
    PROVE  /\ p + 1 \in 0 .. Last
           /\ \A q \in 0 .. (p + 1) - 1 : q \in 0 .. p - 1 \/ q = p
           /\ \A q \in 0 .. p - 1 : q \in 0 .. (p + 1) - 1
  BY SizeFacts

LEMMA ComparedKnows ==
    ASSUME ~Reentrant, IInv, QInv, Compared
    PROVE  \E g \in Frames : /\ Become(g) /\ Knows(g, table, mask, home, used, old)
                             /\ g.op = Top.op /\ g.left = Top.left
  <1>1. TableInv /\ StackInv /\ TableOk /\ mask \in Masks /\ table \in [0 .. mask -> Slots]
    BY DEF IInv, TableInv, TableOk
  <1>2. ~Rebuilds /\ stack # <<>> /\ Top.pc = "compare" /\ UNCHANGED tableVars /\ old = <<>>
    BY DEF Compared, At, Rebuilds
  <1>3. Top \in Frames /\ FrameOk(Top)
    BY <1>1, <1>2, TopFacts
  <1>4. Knows(Top, table, mask, home, used, old)
    <2>1. Len(stack) \in 1 .. Len(stack)
      BY <1>1, <1>2 DEF StackInv
    <2>. QED  BY <2>1 DEF QInv, QuietStack, Top
  <1>5. LET f == [Top EXCEPT !.left = Top.left]
        IN  Become(IF Changed(f)
                     THEN [Lookup(f.op, f.key, f.value, f.left) EXCEPT !.used = f.used]
                     ELSE IF Class[f.stored] = Class[f.key]
                       THEN Ended(f, f.index, TRUE)
                       ELSE [f EXCEPT !.pc = "probe", !.index = 0, !.stored = None,
                                      !.p = IF @ = Last THEN @ - mask ELSE @ + 1])
    BY DEF Compared
  <1>6. [Top EXCEPT !.left = Top.left] = Top
    BY <1>3 DEF Frames
  <1>. DEFINE f == Top
  <1>7. Become(IF Changed(f)
                 THEN [Lookup(f.op, f.key, f.value, f.left) EXCEPT !.used = f.used]
                 ELSE IF Class[f.stored] = Class[f.key]
                   THEN Ended(f, f.index, TRUE)
                   ELSE [f EXCEPT !.pc = "probe", !.index = 0, !.stored = None,
                                  !.p = IF @ = Last THEN @ - mask ELSE @ + 1])
    BY <1>5, <1>6
  <1>. HIDE DEF f
  <1>8. /\ f \in Frames /\ f.pc = "compare" /\ f.key \in Key /\ f.stored \in Key /\ f.p \in 0 .. Last
        /\ f.mask = mask /\ f.home = home /\ f.used = used /\ f.stored = table[f.index].key
    BY <1>2, <1>3, <1>4 DEF f, FrameOk, Knows, Frames
  <1>9. /\ f.index = Walk[Hash[f.key], mask, f.p]
        /\ Passes(table, f.key, mask, f.p) /\ Misses(table, f.key, mask, f.p)
        /\ Remembers(table, f.key, mask, f.p, f.dummy)
    BY <1>2, <1>4, Zenon DEF f, Knows
  <1>10. ~Changed(f)
    BY <1>8 DEF Changed
  <1>11. f.index \in 0 .. mask
    BY <1>1, <1>8, <1>9, WalkFacts, Zenon
  <1>12. IsActive(table[f.index])
    BY <1>8 DEF IsActive
  <1>13. CASE Class[f.stored] = Class[f.key]
    <2>1. Become(Ended(f, f.index, TRUE))
      BY <1>7, <1>10, <1>13, Zenon
    <2>2. Ended(f, f.index, TRUE) \in Frames
      <3>1. FrameOk(f) /\ TRUE \in BOOLEAN /\ f.pc # "merge"
        BY <1>3, <1>8 DEF f
      <3>. QED  BY <3>1, <1>1, <1>2, <1>8, <1>11, <1>12, EndedFacts, Zenon
    <2>3. /\ Knows(Ended(f, f.index, TRUE), table, mask, home, used, <<>>)
          /\ Ended(f, f.index, TRUE).op = f.op /\ Ended(f, f.index, TRUE).left = f.left
      <3>1. TRUE \in BOOLEAN /\ f.pc # "merge" /\ Class[table[f.index].key] = Class[f.key]
        BY <1>8, <1>13
      <3>. QED  BY <3>1, <1>8, <1>12, EndedKnows, Zenon
    <2>. QED  BY <2>1, <2>2, <2>3, <1>2, Zenon DEF f
  <1>14. CASE Class[f.stored] # Class[f.key]
    <2>1. f.p # Last
      <3>1. SUFFICES ASSUME f.p = Last PROVE FALSE
        OBVIOUS
      <3>2. PICK i \in 0 .. mask : table[i].key = Empty
        BY <1>2 DEF QInv, QuietTable, EmptySlotRemains
      <3>3. PICK q \in 0 .. Last : Walk[Hash[f.key], mask, q] = i
        BY <1>1, <1>8, WalkFacts, Zenon
      <3>4. q \in 0 .. f.p - 1 \/ q = f.p \/ f.p \in 0 .. q - 1
        BY <1>8, Order, Zenon
      <3>5. f.p \notin 0 .. q - 1
        <4>1. \A r \in 0 .. Last : Last \notin 0 .. r - 1
          BY SizeFacts
        <4>. QED  BY <4>1, <3>1, Zenon
      <3>6. CASE q \in 0 .. f.p - 1
        BY <3>2, <3>3, <3>6, <1>9, Zenon DEF Passes
      <3>7. CASE q = f.p
        <4>1. f.index = i
          BY <3>3, <3>7, <1>9, Zenon
        <4>2. table[i].key # Empty
          BY <4>1, <1>12, DictAssumption DEF IsActive
        <4>. QED  BY <3>2, <4>2, Zenon
      <3>. QED  BY <3>4, <3>5, <3>6, <3>7
    <2>. DEFINE n == f.p + 1
                g == Onward(f, n)
    <2>2. /\ n \in 0 .. Last
          /\ \A q \in 0 .. n - 1 : q \in 0 .. f.p - 1 \/ q = f.p
          /\ \A q \in 0 .. f.p - 1 : q \in 0 .. n - 1
      BY <2>1, <1>8, NextPosition, Zenon
    <2>3. Become(g)
      BY <1>7, <1>10, <1>14, <2>1, Zenon DEF Onward
    <2>. HIDE DEF n
    <2>6. /\ g.pc = "probe" /\ g.key = f.key /\ g.op = f.op /\ g.left = f.left /\ g.mask = f.mask
          /\ g.dummy = f.dummy /\ g.p = n /\ g.used = f.used /\ g.home = f.home
          /\ g \in Frames
      BY <2>2, <1>8, OnwardFacts, Zenon
    <2>. HIDE DEF g
    <2>7. table[Walk[Hash[f.key], mask, f.p]].key # Empty
      <3>1. table[f.index].key # Empty
        BY <1>12, DictAssumption DEF IsActive
      <3>. QED  BY <3>1, <1>9, Zenon
    <2>8. Passes(table, g.key, mask, g.p)
      BY <2>2, <2>6, <2>7, <1>9, Zenon DEF Passes
    <2>9. Class[table[Walk[Hash[f.key], mask, f.p]].key] # Class[f.key]
      BY <1>8, <1>9, <1>14, Zenon
    <2>10. Misses(table, g.key, mask, g.p)
      BY <2>2, <2>6, <2>9, <1>9, Zenon DEF Misses
    <2>11. Remembers(table, g.key, mask, g.p, g.dummy)
      BY <2>2, <2>6, <1>9, Zenon DEF Remembers
    <2>12. Knows(g, table, mask, home, used, old)
      BY <2>6, <2>8, <2>10, <2>11, <1>2, <1>8, Zenon DEF Knows
    <2>. QED  BY <2>3, <2>6, <2>12, Zenon DEF f
  <1>. QED  BY <1>13, <1>14, Zenon

-----------------------------------------------------------------------------
(* The operations in progress, and what they know.                         *)

LEMMA QuietKept ==
    ASSUME QuietTable, UNCHANGED tableVars
    PROVE  QuietTable'
  BY DEF QuietTable, EmptySlotRemains, Rebuilds, tableVars

LEMMA QuietPop ==
    ASSUME StackInv, QuietStack, stack # <<>>, stack' = Popped, UNCHANGED tableVars
    PROVE  QuietStack'
  <1>1. stack \in Seq(Frames) /\ Len(stack) \in Nat \ {0}
    BY DEF StackInv
  <1>2. Len(stack') = Len(stack) - 1 /\ \A i \in 1 .. Len(stack') : stack'[i] = stack[i]
    BY <1>1, PoppedFacts
  <1>3. \A i \in 1 .. Len(stack') : i \in 1 .. Len(stack) /\ (i \in 2 .. Len(stack') => i \in 2 .. Len(stack))
    BY <1>1, <1>2
  <1>4. \A i \in 2 .. Len(stack') : i \in 1 .. Len(stack')
    OBVIOUS
  <1>5. table' = table /\ mask' = mask /\ home' = home /\ used' = used /\ old' = old
    BY DEF tableVars
  <1>. QED  BY <1>2, <1>3, <1>4, <1>5 DEF QuietStack

LEMMA QuietBecome ==
    ASSUME StackInv, QuietStack, stack # <<>>, NEW g \in Frames, Become(g),
           Knows(g, table, mask, home, used, old), UNCHANGED tableVars,
           Len(stack) >= 2 => g.op = "get" /\ g.left = None
    PROVE  QuietStack'
  <1>1. stack \in Seq(Frames) /\ Len(stack) \in Nat \ {0}
    BY DEF StackInv
  <1>2. /\ Len(stack') = Len(stack) /\ stack'[Len(stack)] = g
        /\ \A i \in 1 .. Len(stack) - 1 : stack'[i] = stack[i]
    BY <1>1 DEF Become
  <1>3. \A i \in 1 .. Len(stack) : i = Len(stack) \/ i \in 1 .. Len(stack) - 1
    BY <1>1
  <1>4. /\ \A i \in 2 .. Len(stack) : i \in 1 .. Len(stack)
        /\ Len(stack) \in 2 .. Len(stack) => Len(stack) >= 2
    BY <1>1
  <1>5. table' = table /\ mask' = mask /\ home' = home /\ used' = used /\ old' = old
    BY DEF tableVars
  <1>. QED  BY <1>2, <1>3, <1>4, <1>5 DEF QuietStack

LEMMA QuietPush ==
    ASSUME StackInv, QuietStack, NEW g \in Frames, stack' = Append(stack, g),
           Knows(g, table, mask, home, used, old), UNCHANGED tableVars,
           stack # <<>> => g.op = "get" /\ g.left = None
    PROVE  QuietStack'
  <1>1. stack \in Seq(Frames) /\ Len(stack) \in Nat
    BY DEF StackInv
  <1>2. /\ Len(stack') = Len(stack) + 1 /\ stack'[Len(stack) + 1] = g
        /\ \A i \in 1 .. Len(stack) : stack'[i] = stack[i]
    BY <1>1
  <1>3. \A i \in 1 .. Len(stack) + 1 : i = Len(stack) + 1 \/ i \in 1 .. Len(stack)
    BY <1>1
  <1>4. /\ \A i \in 2 .. Len(stack) + 1 : i \in 1 .. Len(stack) + 1
        /\ \A i \in 2 .. Len(stack) + 1 : i \in 1 .. Len(stack) => i \in 2 .. Len(stack)
        /\ Len(stack) + 1 \in 2 .. Len(stack) + 1 => stack # <<>>
    BY <1>1
  <1>5. table' = table /\ mask' = mask /\ home' = home /\ used' = used /\ old' = old
    BY DEF tableVars
  <1>. QED  BY <1>2, <1>3, <1>4, <1>5 DEF QuietStack

\* When at most a merge goes on, nothing is known of the table.
Idle(s) == s = <<>> \/ \E n : s = <<Merging(n)>>

LEMMA QuietIdle ==
    ASSUME Idle(stack')
    PROVE  QuietStack'
  <1>1. CASE stack' = <<>>
    BY <1>1 DEF QuietStack
  <1>2. ASSUME NEW n, stack' = <<Merging(n)>> PROVE QuietStack'
    <2>. DEFINE f == Merging(n)
    <2>1. f.pc = "merge" /\ f.op = "insert"
      BY DEF Merging
    <2>2. stack' = <<f>>
      BY <1>2
    <2>. HIDE DEF f
    <2>3. Len(stack') = 1 /\ stack'[1] = f
      BY <2>2
    <2>4. Knows(f, table', mask', home', used', old')
      BY <2>1 DEF Knows
    <2>. QED  BY <2>3, <2>4 DEF QuietStack
  <1>. QED  BY <1>1, <1>2 DEF Idle

\* The operation that changes the table is the only one.
LEMMA Alone1 ==
    ASSUME StackInv, QuietStack, stack # <<>>, Top.op # "get"
    PROVE  Len(stack) = 1 /\ Popped = <<>> /\ Idle(Done(Top))
  <1>1. stack \in Seq(Frames) /\ Len(stack) \in Nat \ {0}
    BY DEF StackInv
  <1>2. Len(stack) = 1
    <2>1. Len(stack) \in 2 .. Len(stack) \/ Len(stack) = 1
      <3>1. \A n \in Nat \ {0} : n \in 2 .. n \/ n = 1
        OBVIOUS
      <3>. QED  BY <3>1, <1>1, Zenon
    <2>. QED  BY <2>1 DEF QuietStack, Top
  <1>3. Popped = <<>>
    BY <1>1, <1>2, PoppedFacts
  <1>4. Idle(Done(Top))
    BY <1>3 DEF Done, Idle
  <1>. QED  BY <1>2, <1>3, <1>4

\* While a rebuild goes on, at most a merge is in progress.
LEMMA RebuildIdle ==
    ASSUME StackInv, QuietStack, Rebuilds
    PROVE  \A i \in 1 .. Len(stack) : stack[i].pc = "merge"
  BY DEF QuietStack, Knows, Rebuilds

LEMMA QuietMerging ==
    ASSUME StackInv, QuietStack, Rebuilds, stack' = stack
    PROVE  QuietStack'
  <1>1. \A i \in 1 .. Len(stack) : Knows(stack[i], table', mask', home', used', old')
    BY RebuildIdle DEF QuietStack, Knows
  <1>. QED  BY <1>1 DEF QuietStack

-----------------------------------------------------------------------------
(* The operations of the map.                                              *)

LEMMA ContentSaysNext == Content' = ContentOf(EntriesOf(table', old', next'))
  <1>1. Entries' = EntriesOf(table', old', next')
    BY DEF Entries, EntriesOf, Unmoved, Rest
  <1>2. Content' = ContentOf(Entries')
    BY Zenon DEF Content, ContentOf, Classes, Same
  <1>. QED  BY <1>1, <1>2, Zenon

MapOf(t) == ContentOf(EntriesOf(t, <<>>, 0))

LEMMA EntryAlone ==
    ASSUME NEW t, One(t, <<>>, 0), NEW i
    PROVE  /\ IsActive(t[i]) /\ i \in DOMAIN t => Alone(t, i, Class[t[i].key])
           /\ \A k : Absent(t, k) => Alone(t, i, Class[k])
  BY NothingLeft DEF Alone, Absent, ActiveSlots

\* What the map answers for a key.
LEMMA MapReads ==
    ASSUME NEW m \in Masks, NEW t \in [0 .. m -> Slots], One(t, <<>>, 0)
    PROVE  /\ \A i \in 0 .. m : IsActive(t[i]) => MapOf(t)[Class[t[i].key]] = t[i]
           /\ \A k \in Key : Absent(t, k) => MapOf(t)[Class[k]] = None
           /\ \A k \in Key : Class[k] \in Classes
           /\ DOMAIN MapOf(t) = Classes
  <1>. DEFINE E == EntriesOf(t, <<>>, 0)
  <1>1. E = {t[i] : i \in ActiveSlots(t)}
    BY NothingLeft
  <1>. HIDE DEF E
  <1>2. ASSUME NEW i \in 0 .. m, IsActive(t[i]) PROVE ContentOf(E)[Class[t[i].key]] = t[i]
    <2>. DEFINE e == t[i]
    <2>1. i \in ActiveSlots(t)
      BY <1>2 DEF ActiveSlots
    <2>2. e \in E /\ e.key \in Key
      BY <2>1, <1>1, <1>2 DEF IsActive
    <2>3. ASSUME NEW d \in E, Class[d.key] = Class[e.key] PROVE d = e
      <3>1. PICK j \in ActiveSlots(t) : d = t[j]
        BY <1>1
      <3>2. j = i
        BY <2>1, <2>3, <3>1, NothingLeft
      <3>. QED  BY <3>1, <3>2
    <2>. HIDE DEF e
    <2>4. ContentOf(E)[Class[e.key]] = e
      BY <2>2, <2>3, ContentAt
    <2>. QED  BY <2>4 DEF e
  <1>3. \A k \in Key : Class[k] \in Classes
    BY DEF Classes
  <1>4. ASSUME NEW k \in Key, Absent(t, k) PROVE ContentOf(E)[Class[k]] = None
    <2>1. Class[k] \in Classes
      BY <1>3
    <2>2. \A e \in E : Class[e.key] # Class[k]
      BY <1>1, <1>4 DEF Absent
    <2>. QED  BY <2>1, <2>2, ContentNone
  <1>5. DOMAIN ContentOf(E) = Classes
    BY DEF ContentOf
  <1>. QED  BY <1>2, <1>3, <1>4, <1>5 DEF MapOf, E

\* What writing an entry does to the map.
LEMMA MapWrites ==
    ASSUME NEW m \in Masks, NEW t \in [0 .. m -> Slots], NEW i \in 0 .. m, NEW e \in Slots, IsActive(e),
           One(t, <<>>, 0), Alone(t, i, Class[e.key]), IsActive(t[i]) => Class[t[i].key] = Class[e.key]
    PROVE  MapOf(Put(t, i, e)) = With(MapOf(t), Class[e.key], e)
  <1>. DEFINE E == EntriesOf(t, <<>>, 0)
              F == EntriesOf(Put(t, i, e), <<>>, 0)
              c == Class[e.key]
  <1>1. E = {t[j] : j \in ActiveSlots(t)}
    BY NothingLeft
  <1>2. F = Others(t, i) \cup {e}
    BY Written
  <1>. HIDE DEF E, F
  <1>3. e.key \in Key /\ c \in Classes
    BY DEF IsActive, Classes
  <1>4. ASSUME NEW x, Class[x.key] # c PROVE x \in E <=> x \in F
    <2>1. x # e
      BY <1>4
    <2>2. \A j \in ActiveSlots(t) : t[j] = x => j # i
      BY <1>4 DEF ActiveSlots
    <2>. HIDE DEF c
    <2>. QED  BY <2>1, <2>2, <1>1, <1>2 DEF Others
  <1>5. \A d \in F : Class[d.key] = Class[e.key] => d = e
    BY <1>2 DEF Alone, Others
  <1>6. ContentOf(F)[c] = e
    BY <1>2, <1>3, <1>5, ContentAt
  <1>7. ContentOf(F) = With(ContentOf(E), c, e)
    <2>. HIDE DEF c
    <2>1. Agree(E, F, c)
      BY <1>4, Zenon DEF Agree
    <2>2. ContentOf(F) = With(ContentOf(E), c, ContentOf(F)[c])
      BY <2>1, <1>3, ContentChange
    <2>. QED  BY <2>2, <1>6
  <1>. QED  BY <1>7 DEF MapOf, E, F

LEMMA MapErases ==
    ASSUME NEW m \in Masks, NEW t \in [0 .. m -> Slots], NEW i \in 0 .. m, IsActive(t[i]), One(t, <<>>, 0)
    PROVE  MapOf(Put(t, i, Deleted)) = With(MapOf(t), Class[t[i].key], None)
  <1>. DEFINE E == EntriesOf(t, <<>>, 0)
              F == EntriesOf(Put(t, i, Deleted), <<>>, 0)
              c == Class[t[i].key]
  <1>1. E = {t[j] : j \in ActiveSlots(t)}
    BY NothingLeft
  <1>2. F = Others(t, i)
    BY Erased
  <1>. HIDE DEF E, F
  <1>3. t[i].key \in Key /\ c \in Classes /\ i \in ActiveSlots(t)
    BY DEF IsActive, Classes, ActiveSlots
  <1>4. ASSUME NEW x, Class[x.key] # c PROVE x \in E <=> x \in F
    <2>1. \A j \in ActiveSlots(t) : t[j] = x => j # i
      BY <1>4
    <2>. HIDE DEF c
    <2>. QED  BY <2>1, <1>1, <1>2 DEF Others
  <1>5. \A d \in F : Class[d.key] # c
    <2>1. Alone(t, i, c)
      BY EntryAlone
    <2>. QED  BY <2>1, <1>2 DEF Alone, Others
  <1>6. ContentOf(F)[c] = None
    BY <1>3, <1>5, ContentNone
  <1>7. ContentOf(F) = With(ContentOf(E), c, None)
    <2>. HIDE DEF c
    <2>1. Agree(E, F, c)
      BY <1>4, Zenon DEF Agree
    <2>2. ContentOf(F) = With(ContentOf(E), c, ContentOf(F)[c])
      BY <2>1, <1>3, ContentChange
    <2>. QED  BY <2>2, <1>6
  <1>. QED  BY <1>7 DEF MapOf, E, F

-----------------------------------------------------------------------------
(* What the innermost operation knows.                                     *)

LEMMA TopKnows ==
    ASSUME IInv, QInv, stack # <<>>
    PROVE  /\ Knows(Top, table, mask, home, used, old)
           /\ Len(stack) >= 2 => Top.op = "get" /\ Top.left = None
  <1>1. Len(stack) \in 1 .. Len(stack) /\ (Len(stack) >= 2 => Len(stack) \in 2 .. Len(stack))
    <2>1. Len(stack) \in Nat \ {0}
      BY DEF IInv, StackInv
    <2>2. \A n \in Nat \ {0} : n \in 1 .. n /\ (n >= 2 => n \in 2 .. n)
      OBVIOUS
    <2>. QED  BY <2>1, <2>2, Zenon
  <1>. QED  BY <1>1 DEF QInv, QuietStack, Top

LEMMA AtRest ==
    ASSUME IInv, QInv, ~Rebuilds
    PROVE  /\ mask \in Masks /\ table \in [0 .. mask -> Slots] /\ old = <<>> /\ used \in Nat /\ TableInv /\ StackInv
           /\ One(table, <<>>, 0) /\ Reach(table, mask) /\ HasEmpty(table, mask)
           /\ Content = MapOf(table)
           /\ \A n : EntriesOf(table, old, n) = EntriesOf(table, <<>>, 0)
  <1>1. mask \in Masks /\ table \in [0 .. mask -> Slots] /\ old = <<>> /\ used \in Nat /\ TableInv /\ StackInv
    BY DEF IInv, TableInv, TableOk, Rebuilds
  <1>2. Reach(table, mask) /\ HasEmpty(table, mask) /\ One(table, <<>>, next)
    BY <1>1 DEF QInv, QuietTable, EmptySlotRemains, HasEmpty, Rebuilds
  <1>3. \A n : EntriesOf(table, old, n) = EntriesOf(table, <<>>, 0)
    BY <1>1, NothingLeft
  <1>4. One(table, <<>>, 0)
    BY <1>2, NothingLeft
  <1>. QED  BY <1>1, <1>2, <1>3, <1>4, ContentSays DEF MapOf

\* When the table is at rest again.
LEMMA AtRestAfter ==
    ASSUME old' = <<>>, One(table', <<>>, 0), Reach(table', mask'), HasEmpty(table', mask')
    PROVE  QuietTable' /\ Content' = MapOf(table')
  <1>1. One(table', old', next') /\ EntriesOf(table', old', next') = EntriesOf(table', <<>>, 0)
    BY NothingLeft
  <1>2. EmptySlotRemains'
    BY DEF EmptySlotRemains, HasEmpty
  <1>. QED  BY <1>1, <1>2, ContentSaysNext DEF QuietTable, MapOf

\* When a rebuild starts.
LEMMA AtRebuild ==
    ASSUME NEW m \in Masks, NEW t \in [0 .. m -> Slots], One(t, <<>>, 0),
           mask' \in Masks, table' = EmptyTable(mask'), old' = t, next' = 0
    PROVE  QuietTable' /\ Content' = MapOf(t)
  <1>1. One(table', old', next') /\ EntriesOf(table', old', next') = EntriesOf(t, <<>>, 0)
    BY Started
  <1>2. EmptySlotRemains'
    BY EmptyRoom DEF EmptySlotRemains, HasEmpty
  <1>3. Reach(table', mask')
    BY EmptyReach
  <1>. QED  BY <1>1, <1>2, <1>3, ContentSaysNext DEF QuietTable, MapOf

\* What the map answers for the key that a lookup ended with.
LEMMA EndedReads ==
    ASSUME IInv, QInv, At("ended")
    PROVE  /\ Top.key \in Key /\ Class[Top.key] \in Classes /\ DOMAIN Content = Classes
           /\ Top.index \in 0 .. mask /\ used = Top.used
           /\ Top.found => /\ Content[Class[Top.key]] = table[Top.index]
                           /\ IsActive(table[Top.index]) /\ Class[table[Top.index].key] = Class[Top.key]
                           /\ table[Top.index] # None
                           /\ table[Top.index] \in [key : Key, value : Value]
           /\ ~Top.found => /\ Content[Class[Top.key]] = None
                            /\ ~IsActive(table[Top.index]) /\ Absent(table, Top.key)
                            /\ Meets(table, Top.key, mask, Top.index)
  <1>1. ~Rebuilds /\ stack # <<>> /\ Top.index \in 0 .. mask /\ Top.key \in Key /\ Top.pc = "ended"
    BY EndedTop DEF At
  <1>2. Knows(Top, table, mask, home, used, old)
    BY <1>1, TopKnows
  <1>3. used = Top.used
    BY <1>1, <1>2 DEF Knows
  <1>4. Top.found => IsActive(table[Top.index]) /\ Class[table[Top.index].key] = Class[Top.key]
    BY <1>1, <1>2 DEF Knows
  <1>5. ~Top.found => /\ ~IsActive(table[Top.index]) /\ Absent(table, Top.key)
                      /\ Meets(table, Top.key, mask, Top.index)
    BY <1>1, <1>2 DEF Knows
  <1>6. mask \in Masks /\ table \in [0 .. mask -> Slots] /\ One(table, <<>>, 0) /\ Content = MapOf(table)
    BY <1>1, AtRest
  <1>7. IsActive(table[Top.index]) => table[Top.index] \in [key : Key, value : Value]
    BY <1>1, <1>6, DictAssumption DEF Slots, IsActive, Free, Deleted
  <1>8. IsActive(table[Top.index]) => table[Top.index] # None
    BY <1>7, DictAssumption
  <1>9. Top.found => Content[Class[Top.key]] = table[Top.index]
    <2>1. \A i \in 0 .. mask : IsActive(table[i]) => Content[Class[table[i].key]] = table[i]
      BY <1>6, MapReads, Zenon
    <2>. QED  BY <2>1, <1>1, <1>4, Zenon
  <1>10. /\ ~Top.found => Content[Class[Top.key]] = None
         /\ Class[Top.key] \in Classes /\ DOMAIN Content = Classes
    BY <1>1, <1>5, <1>6, MapReads
  <1>. QED  BY <1>1, <1>3, <1>4, <1>5, <1>7, <1>8, <1>9, <1>10

-----------------------------------------------------------------------------
(* What is written to a table at rest.                                     *)

AtPeace(t, m) == One(t, <<>>, 0) /\ Reach(t, m) /\ HasEmpty(t, m)

LEMMA OverTable ==
    ASSUME NEW m \in Masks, NEW t \in [0 .. m -> Slots], NEW i \in 0 .. m, NEW e \in Slots, IsActive(e),
           IsActive(t[i]), e.key = t[i].key, AtPeace(t, m)
    PROVE  AtPeace(Put(t, i, e), m) /\ MapOf(Put(t, i, e)) = With(MapOf(t), Class[t[i].key], e)
  <1>1. One(t, <<>>, 0) /\ Reach(t, m) /\ HasEmpty(t, m)
    BY DEF AtPeace
  <1>2. Alone(t, i, Class[e.key])
    BY <1>1, EntryAlone
  <1>3. One(Put(t, i, e), <<>>, 0)
    BY <1>1, <1>2, Written
  <1>4. Meets(t, e.key, m, i)
    BY <1>1 DEF Reach, ActiveSlots
  <1>5. Reach(Put(t, i, e), m)
    BY <1>1, <1>4, PutReach
  <1>6. t[i].key # Empty
    BY DictAssumption DEF IsActive
  <1>7. HasEmpty(Put(t, i, e), m)
    BY <1>1, <1>6, PutRoom
  <1>8. MapOf(Put(t, i, e)) = With(MapOf(t), Class[e.key], e)
    <2>1. IsActive(t[i]) => Class[t[i].key] = Class[e.key]
      OBVIOUS
    <2>. QED  BY <2>1, <1>1, <1>2, MapWrites, Zenon
  <1>. QED  BY <1>3, <1>5, <1>7, <1>8 DEF AtPeace

LEMMA AddedTable ==
    ASSUME NEW m \in Masks, NEW t \in [0 .. m -> Slots], NEW i \in 0 .. m, NEW e \in Slots, IsActive(e),
           ~IsActive(t[i]), One(t, <<>>, 0), Absent(t, e.key)
    PROVE  One(Put(t, i, e), <<>>, 0) /\ MapOf(Put(t, i, e)) = With(MapOf(t), Class[e.key], e)
  <1>1. Alone(t, i, Class[e.key])
    BY EntryAlone
  <1>2. One(Put(t, i, e), <<>>, 0)
    BY <1>1, Written, Zenon
  <1>3. MapOf(Put(t, i, e)) = With(MapOf(t), Class[e.key], e)
    BY <1>1, MapWrites, Zenon
  <1>. QED  BY <1>2, <1>3

LEMMA ErasedTable ==
    ASSUME NEW m \in Masks, NEW t \in [0 .. m -> Slots], NEW i \in 0 .. m, IsActive(t[i]), AtPeace(t, m)
    PROVE  /\ AtPeace(Put(t, i, Deleted), m)
           /\ MapOf(Put(t, i, Deleted)) = With(MapOf(t), Class[t[i].key], None)
  <1>1. One(t, <<>>, 0) /\ Reach(t, m) /\ HasEmpty(t, m)
    BY DEF AtPeace
  <1>2. One(Put(t, i, Deleted), <<>>, 0)
    BY <1>1, Erased
  <1>3. Reach(Put(t, i, Deleted), m)
    BY <1>1, DeleteReach
  <1>4. t[i].key # Empty
    BY DictAssumption DEF IsActive
  <1>5. HasEmpty(Put(t, i, Deleted), m)
    BY <1>1, <1>4, PutRoom
  <1>6. MapOf(Put(t, i, Deleted)) = With(MapOf(t), Class[t[i].key], None)
    BY <1>1, MapErases
  <1>. QED  BY <1>2, <1>3, <1>5, <1>6 DEF AtPeace

-----------------------------------------------------------------------------
(* Every step keeps what is known, and is a step of the map.               *)

LEMMA TableLeft ==
    ASSUME QInv, UNCHANGED tableVars
    PROVE  QuietTable' /\ Content' = Content
  <1>1. QuietTable'
    BY QuietKept DEF QInv
  <1>2. table' = table /\ old' = old /\ next' = next
    BY DEF tableVars
  <1>. QED  BY <1>1, <1>2, ContentSays, ContentSaysNext

\* The frame on top takes a step and leaves the table alone.
LEMMA QuietStep ==
    ASSUME IInv, QInv, stack # <<>>, answer' = None, UNCHANGED tableVars,
           NEW g \in Frames, Become(g), Knows(g, table, mask, home, used, old),
           Len(stack) >= 2 => g.op = "get" /\ g.left = None
    PROVE  QInv' /\ Map!Next
  <1>1. QuietTable' /\ Content' = Content
    BY TableLeft
  <1>2. QuietStack'
    BY QuietBecome DEF IInv, QInv
  <1>. QED  BY <1>1, <1>2 DEF QInv, Map!Next, Map!Rest

\* It returns, and leaves the table alone.
LEMMA QuietReturn ==
    ASSUME IInv, QInv, stack # <<>>, stack' = Popped, UNCHANGED tableVars
    PROVE  QInv' /\ Content' = Content
  <1>1. QuietTable' /\ Content' = Content
    BY TableLeft
  <1>2. QuietStack'
    BY QuietPop DEF IInv, QInv
  <1>. QED  BY <1>1, <1>2 DEF QInv

LEMMA CallQuiet ==
    ASSUME ~Reentrant, IInv, QInv, NEW op \in KeyOps, NEW k \in Key, NEW v \in Value \cup {None}, Call(op, k, v)
    PROVE  QInv' /\ Map!Next
  <1>. DEFINE g == Lookup(op, k, v, None)
  <1>1. /\ ~Rebuilds /\ stack' = Append(stack, g) /\ UNCHANGED tableVars /\ answer' = None
        /\ op = "get" \/ stack = <<>>
        /\ v = None <=> op \in {"get", "delete"}
    BY DEF Call, CanCall, CanChange, CodeRuns, Quiet
  <1>2. op \in KeyOps \cup {"insert"} /\ None \in Nat \cup {None} /\ TableOk
        /\ (op \in {"set", "insert", "setdefault"} => v \in Value)
    BY <1>1 DEF IInv, TableInv
  <1>3. g \in Frames
    BY <1>1, <1>2, LookupFacts
  <1>4. Knows(g, table, mask, home, used, old) /\ g.op = op /\ g.left = None
    BY <1>1, LookupKnows
  <1>. HIDE DEF g
  <1>5. QuietTable' /\ Content' = Content
    BY <1>1, TableLeft
  <1>6. QuietStack'
    BY <1>1, <1>3, <1>4, QuietPush DEF IInv, QInv
  <1>. QED  BY <1>1, <1>5, <1>6 DEF QInv, Map!Next, Map!Rest

LEMMA MergeNextQuiet ==
    ASSUME IInv, QInv, NEW op \in {"insert", "set"}, NEW k \in Key, NEW v \in Value, MergeNext(op, k, v)
    PROVE  QInv' /\ Map!Next
  <1>. DEFINE g == Lookup(op, k, v, Top.left - 1)
  <1>1. ~Rebuilds /\ stack # <<>> /\ Top.pc = "merge" /\ Top.left > 0 /\ Become(g) /\ UNCHANGED tableVars
        /\ answer' = None
    BY DEF MergeNext, At, Quiet
  <1>2. Top.left - 1 \in Nat
    BY <1>1, TopFacts DEF FrameOk, IInv
  <1>3. op \in KeyOps \cup {"insert"} /\ TableOk
    BY DEF KeyOps, IInv, TableInv
  <1>4. g \in Frames
    BY <1>1, <1>2, <1>3, LookupFacts
  <1>5. Knows(g, table, mask, home, used, old)
    BY <1>1, LookupKnows
  <1>6. ~(Len(stack) >= 2)
    BY <1>1, TopKnows DEF Knows
  <1>. HIDE DEF g
  <1>. QED  BY <1>1, <1>4, <1>5, <1>6, QuietStep

LEMMA LookupQuiet ==
    ASSUME ~Reentrant, IInv, QInv, Probe \/ Compared
    PROVE  QInv' /\ Map!Next
  <1>1. stack # <<>> /\ UNCHANGED tableVars /\ answer' = None
    BY DEF Probe, Compared, At, Quiet
  <1>2. PICK g \in Frames : /\ Become(g) /\ Knows(g, table, mask, home, used, old)
                            /\ g.op = Top.op /\ g.left = Top.left
    BY ProbeKnows, ComparedKnows
  <1>3. Len(stack) >= 2 => Top.op = "get" /\ Top.left = None
    BY <1>1, TopKnows
  <1>. QED  BY <1>1, <1>2, <1>3, QuietStep

LEMMA ReturnQuiet ==
    ASSUME IInv, QInv, MergeEnd \/ Raise \/ Refused
    PROVE  QInv' /\ Map!Next
  <1>1. stack # <<>> /\ stack' = Popped /\ UNCHANGED tableVars
    BY DEF MergeEnd, Raise, Refused, Fail, At
  <1>2. QInv' /\ Content' = Content
    BY <1>1, QuietReturn
  <1>3. CASE MergeEnd
    BY <1>2, <1>3 DEF MergeEnd, Quiet, Map!Next, Map!Rest
  <1>4. CASE Raise \/ Refused
    BY <1>2, <1>4 DEF Raise, Refused, Fail, Answer, Map!Next, Map!Fail, Map!Reply
  <1>. QED  BY <1>2, <1>3, <1>4

LEMMA GetQuiet ==
    ASSUME IInv, QInv, FinishGet
    PROVE  QInv' /\ Map!Next
  <1>1. At("ended") /\ stack # <<>> /\ stack' = Popped /\ UNCHANGED tableVars
        /\ answer' = [op |-> "get", key |-> Top.key,
                      result |-> IF Top.found THEN table[Top.index].value ELSE None]
    BY DEF FinishGet, At, Answer
  <1>2. QInv' /\ Content' = Content
    BY <1>1, QuietReturn
  <1>3. /\ Top.key \in Key /\ Top.found \in BOOLEAN
        /\ Top.found => Content[Class[Top.key]] = table[Top.index] /\ table[Top.index] # None
        /\ ~Top.found => Content[Class[Top.key]] = None
    BY <1>1, EndedReads, TopFacts DEF IInv, Frames
  <1>4. Map!Get(Top.key)
    BY <1>1, <1>2, <1>3 DEF Map!Get, Map!Reply, Map!ValueOf, Map!At
  <1>. QED  BY <1>2, <1>3, <1>4 DEF Map!Next

\* A live entry takes a new value.
LEMMA OverQuiet ==
    ASSUME IInv, QInv, At("ended"), Top.found, Top.value \in Value,
           table' = [table EXCEPT ![Top.index].value = Top.value], UNCHANGED <<mask, old>>
    PROVE  /\ QuietTable'
           /\ Content' = With(Content, Class[Top.key], Entry(table[Top.index].key, Top.value))
  <1>. DEFINE i == Top.index
              e == Entry(table[i].key, Top.value)
  <1>1. ~Rebuilds
    BY DEF At
  <1>2. /\ mask \in Masks /\ table \in [0 .. mask -> Slots] /\ old = <<>>
        /\ One(table, <<>>, 0) /\ Reach(table, mask) /\ HasEmpty(table, mask) /\ Content = MapOf(table)
    BY <1>1, AtRest
  <1>3. /\ i \in 0 .. mask /\ IsActive(table[i]) /\ Class[table[i].key] = Class[Top.key]
        /\ table[i] \in [key : Key, value : Value]
    BY EndedReads
  <1>4. table' = Put(table, i, e)
    <2>1. [table[i] EXCEPT !.value = Top.value] = e
      BY <1>3 DEF Entry
    <2>. QED  BY <2>1 DEF Put
  <1>5. e \in Slots /\ IsActive(e) /\ e.key = table[i].key
    BY <1>3, SlotFacts
  <1>. HIDE DEF e, i
  <1>6. /\ AtPeace(Put(table, i, e), mask)
        /\ MapOf(Put(table, i, e)) = With(MapOf(table), Class[table[i].key], e)
    <2>1. AtPeace(table, mask)
      BY <1>2 DEF AtPeace
    <2>. QED  BY <2>1, <1>2, <1>3, <1>5, OverTable, Zenon
  <1>7. QuietTable' /\ Content' = MapOf(table')
    BY <1>2, <1>4, <1>6, AtRestAfter DEF AtPeace
  <1>8. Content' = With(Content, Class[Top.key], e)
    BY <1>2, <1>3, <1>4, <1>6, <1>7
  <1>. QED  BY <1>7, <1>8 DEF e, i

\* A key is stored that the table does not hold.
LEMMA StoreQuiet ==
    ASSUME IInv, IInv', QInv, At("ended"), ~Top.found, Top.value \in Value,
           NEW grow \in BOOLEAN, Store(Top.index, used, grow)
    PROVE  /\ QuietTable'
           /\ Content' = With(Content, Class[Top.key], Entry(Top.key, Top.value))
  <1>. DEFINE i == Top.index
              e == Entry(Top.key, Top.value)
              t == Put(table, i, e)
  <1>1. ~Rebuilds /\ TableInv /\ TableInv'
    BY DEF At, IInv
  <1>2. /\ mask \in Masks /\ table \in [0 .. mask -> Slots] /\ old = <<>>
        /\ One(table, <<>>, 0) /\ Reach(table, mask) /\ Content = MapOf(table)
    BY <1>1, AtRest
  <1>3. /\ i \in 0 .. mask /\ ~IsActive(table[i]) /\ Absent(table, Top.key) /\ Top.key \in Key
        /\ Meets(table, Top.key, mask, i)
    BY EndedReads
  <1>4. e \in Slots /\ IsActive(e) /\ e.key = Top.key
    BY <1>3, SlotFacts
  <1>5. StoredIn(table, i, Top.key, Top.value) = t
    BY <1>3 DEF StoredIn
  <1>6. /\ t \in [0 .. mask -> Slots]
        /\ \/ table' = t /\ old' = <<>> /\ mask' = mask
           \/ mask' \in Masks /\ table' = EmptyTable(mask') /\ old' = t /\ next' = 0
    BY <1>1, <1>3, <1>5, StoreShape, Zenon
  <1>7. Reach(table', mask')
    BY <1>1, <1>2, <1>3, StoreReach
  <1>8. EmptySlotRemains'
    BY <1>1, <1>3, StoreRoom
  <1>. HIDE DEF e, i
  <1>10. One(t, <<>>, 0) /\ MapOf(t) = With(MapOf(table), Class[e.key], e)
    <2>1. Absent(table, e.key)
      BY <1>3, <1>4
    <2>. QED  BY <2>1, <1>2, <1>3, <1>4, AddedTable, Zenon DEF t
  <1>. HIDE DEF t
  <1>12. QuietTable' /\ Content' = MapOf(t)
    <2>1. CASE table' = t /\ old' = <<>> /\ mask' = mask
      <3>1. HasEmpty(table', mask')
        BY <2>1, <1>8 DEF EmptySlotRemains, HasEmpty, Rebuilds
      <3>. QED  BY <2>1, <3>1, <1>7, <1>10, AtRestAfter
    <2>2. CASE mask' \in Masks /\ table' = EmptyTable(mask') /\ old' = t /\ next' = 0
      BY <2>2, <1>2, <1>6, <1>10, AtRebuild
    <2>. QED  BY <2>1, <2>2, <1>6
  <1>13. Content' = With(Content, Class[Top.key], e)
    BY <1>2, <1>4, <1>10, <1>12
  <1>. QED  BY <1>12, <1>13 DEF e

LEMMA SetQuiet ==
    ASSUME IInv, QInv, FinishSet
    PROVE  QInv' /\ Map!Next
  <1>1. At("ended") /\ stack # <<>> /\ Top.op \in {"set", "insert"} /\ stack' = Done(Top)
        /\ answer' = [op |-> "set", key |-> Top.key, result |-> Top.value]
    BY DEF FinishSet, At, Answer
  <1>2. IInv'
    BY FinishSetKeeps
  <1>3. Top.key \in Key /\ Top.value \in Value
    BY <1>1, EndedTop
  <1>4. QuietStack'
    BY <1>1, Alone1, QuietIdle DEF IInv, QInv
  <1>5. /\ Class[Top.key] \in Classes /\ DOMAIN Content = Classes /\ used = Top.used
        /\ Top.found => Content[Class[Top.key]] = table[Top.index] /\ table[Top.index] # None
        /\ ~Top.found => Content[Class[Top.key]] = None
    BY <1>1, EndedReads
  <1>6. CASE Top.found
    <2>1. table' = [table EXCEPT ![Top.index].value = Top.value] /\ UNCHANGED <<mask, old>>
      BY <1>5, <1>6 DEF FinishSet
    <2>2. /\ QuietTable'
          /\ Content' = With(Content, Class[Top.key], Entry(table[Top.index].key, Top.value))
      BY <2>1, <1>1, <1>3, <1>6, OverQuiet
    <2>3. Map!Set(Top.key, Top.value)
      BY <2>2, <1>1, <1>5, <1>6 DEF With, Map!Set, Map!Reply, Map!Entry, Entry
    <2>. QED  BY <2>2, <2>3, <1>3, <1>4 DEF QInv, Map!Next
  <1>7. CASE ~Top.found
    <2>1. Store(Top.index, used, Top.op = "set") /\ (Top.op = "set") \in BOOLEAN
      BY <1>5, <1>7 DEF FinishSet
    <2>2. /\ QuietTable'
          /\ Content' = With(Content, Class[Top.key], Entry(Top.key, Top.value))
      BY <2>1, <1>1, <1>2, <1>3, <1>7, StoreQuiet
    <2>3. Map!Set(Top.key, Top.value)
      BY <2>2, <1>1, <1>5, <1>7 DEF With, Map!Set, Map!Reply, Map!Entry, Entry
    <2>. QED  BY <2>2, <2>3, <1>3, <1>4 DEF QInv, Map!Next
  <1>. QED  BY <1>6, <1>7

LEMMA SetDefaultQuiet ==
    ASSUME IInv, QInv, FinishSetDefault
    PROVE  QInv' /\ Map!Next
  <1>1. At("ended") /\ stack # <<>> /\ Top.op = "setdefault" /\ stack' = Popped
    BY DEF FinishSetDefault, At
  <1>2. IInv'
    BY FinishSetDefaultKeeps
  <1>3. Top.key \in Key /\ Top.value \in Value
    BY <1>1, EndedTop
  <1>4. QuietStack'
    BY <1>1, Alone1, QuietIdle DEF IInv, QInv, Idle
  <1>5. /\ Class[Top.key] \in Classes /\ DOMAIN Content = Classes
        /\ Top.found => Content[Class[Top.key]] = table[Top.index] /\ table[Top.index] # None
        /\ ~Top.found => Content[Class[Top.key]] = None
    BY <1>1, EndedReads
  <1>6. CASE Top.found
    <2>1. UNCHANGED tableVars
          /\ answer' = [op |-> "setdefault", key |-> Top.key, result |-> table[Top.index].value]
      BY <1>6 DEF FinishSetDefault, Answer
    <2>2. QuietTable' /\ Content' = Content
      BY <2>1, TableLeft
    <2>3. Map!SetDefault(Top.key, Top.value)
      <3>1. Content = [Content EXCEPT ![Class[Top.key]] = @]
        BY <1>5, ContentSays DEF ContentOf
      <3>. QED  BY <3>1, <2>1, <2>2, <1>5, <1>6 DEF With, Map!SetDefault, Map!Reply, Map!ValueOf, Map!At
    <2>. QED  BY <2>2, <2>3, <1>3, <1>4 DEF QInv, Map!Next
  <1>7. CASE ~Top.found
    <2>1. Store(Top.index, used, TRUE)
          /\ answer' = [op |-> "setdefault", key |-> Top.key, result |-> Top.value]
      BY <1>7 DEF FinishSetDefault, Answer
    <2>2. /\ QuietTable'
          /\ Content' = With(Content, Class[Top.key], Entry(Top.key, Top.value))
      BY <2>1, <1>1, <1>2, <1>3, <1>7, StoreQuiet
    <2>3. Map!SetDefault(Top.key, Top.value)
      BY <2>1, <2>2, <1>5, <1>7 DEF With, Map!SetDefault, Map!Reply, Map!At, Map!Entry, Entry
    <2>. QED  BY <2>2, <2>3, <1>3, <1>4 DEF QInv, Map!Next
  <1>. QED  BY <1>6, <1>7

\* A live entry is deleted.
LEMMA EraseQuiet ==
    ASSUME IInv, QInv, ~Rebuilds, NEW i \in 0 .. mask, IsActive(table[i]),
           table' = [table EXCEPT ![i] = Deleted], UNCHANGED <<mask, old>>
    PROVE  QuietTable' /\ Content' = With(Content, Class[table[i].key], None)
  <1>1. /\ mask \in Masks /\ table \in [0 .. mask -> Slots] /\ old = <<>>
        /\ One(table, <<>>, 0) /\ Reach(table, mask) /\ HasEmpty(table, mask) /\ Content = MapOf(table)
    BY AtRest
  <1>2. table' = Put(table, i, Deleted)
    BY DEF Put
  <1>3. /\ AtPeace(Put(table, i, Deleted), mask)
        /\ MapOf(Put(table, i, Deleted)) = With(MapOf(table), Class[table[i].key], None)
    <2>1. AtPeace(table, mask)
      BY <1>1 DEF AtPeace
    <2>. QED  BY <2>1, <1>1, ErasedTable
  <1>. QED  BY <1>1, <1>2, <1>3, AtRestAfter DEF AtPeace

LEMMA DeleteQuiet ==
    ASSUME IInv, QInv, FinishDelete
    PROVE  QInv' /\ Map!Next
  <1>1. At("ended") /\ ~Rebuilds /\ stack # <<>> /\ Top.op = "delete" /\ stack' = Popped
    BY DEF FinishDelete, At
  <1>2. QuietStack'
    BY <1>1, Alone1, QuietIdle DEF IInv, QInv, Idle
  <1>3. /\ Class[Top.key] \in Classes /\ DOMAIN Content = Classes /\ Top.key \in Key /\ Top.index \in 0 .. mask
        /\ Top.found => /\ Content[Class[Top.key]] = table[Top.index] /\ table[Top.index] # None
                        /\ IsActive(table[Top.index]) /\ Class[table[Top.index].key] = Class[Top.key]
        /\ ~Top.found => Content[Class[Top.key]] = None
    BY <1>1, EndedReads
  <1>4. CASE Top.found
    <2>1. table' = [table EXCEPT ![Top.index] = Deleted] /\ UNCHANGED <<mask, old>>
          /\ answer' = [op |-> "delete", key |-> Top.key, result |-> table[Top.index].value]
      BY <1>4 DEF FinishDelete, Answer
    <2>2. QuietTable' /\ Content' = With(Content, Class[Top.key], None)
      BY <2>1, <1>1, <1>3, <1>4, EraseQuiet
    <2>3. Map!Delete(Top.key)
      BY <2>1, <2>2, <1>3, <1>4 DEF With, Map!Delete, Map!Reply, Map!ValueOf, Map!At
    <2>. QED  BY <2>2, <2>3, <1>2, <1>3 DEF QInv, Map!Next
  <1>5. CASE ~Top.found
    <2>1. UNCHANGED tableVars /\ answer' = [op |-> "delete", key |-> Top.key, result |-> None]
      BY <1>5 DEF FinishDelete, Answer
    <2>2. QuietTable' /\ Content' = Content
      BY <2>1, TableLeft
    <2>3. Map!Delete(Top.key)
      <3>1. Content = [Content EXCEPT ![Class[Top.key]] = @]
        BY <1>3, ContentSays DEF ContentOf
      <3>2. Content = With(Content, Class[Top.key], None)
        BY <3>1, <1>3, <1>5 DEF With
      <3>. QED  BY <3>2, <2>1, <2>2, <1>3, <1>5 DEF With, Map!Delete, Map!Reply, Map!ValueOf, Map!At
    <2>. QED  BY <2>2, <2>3, <1>2, <1>3 DEF QInv, Map!Next
  <1>. QED  BY <1>4, <1>5

LEMMA PopSlotLive ==
    ASSUME TableInv, ~Rebuilds, used > 0
    PROVE  PopSlot \in 0 .. mask /\ IsActive(table[PopSlot])
  <1>. DEFINE live == ActiveSlots(table)
              start == IF finger \in 1 .. mask THEN finger ELSE 1
              after == {i \in live : i >= start}
              from == IF after # {} THEN after ELSE live
  <1>1. TableOk /\ mask \in Masks /\ table \in [0 .. mask -> Slots] /\ used \in Nat
    BY DEF TableInv, TableOk
  <1>2. live # {} /\ live \in SUBSET (0 .. mask)
    <2>1. used = Cardinality(live)
      BY <1>1, IdleFacts DEF TableInv
    <2>. QED  BY <2>1, <1>1, FS_EmptySet, CountFacts
  <1>3. PopSlot \in live
    <2>1. from # {} /\ from \in SUBSET (0 .. mask) /\ from \subseteq live /\ mask \in Nat
      BY <1>1, <1>2, MaskFacts
    <2>2. \E i \in from : \A j \in from : i <= j
      <3>. HIDE DEF from
      <3>. QED  BY <2>1, FirstOf
    <2>3. PopSlot = IF 0 \in live THEN 0 ELSE CHOOSE i \in from : \A j \in from : i <= j
      BY Zenon DEF PopSlot
    <2>. HIDE DEF from, live
    <2>. QED  BY <2>1, <2>2, <2>3
  <1>. QED  BY <1>1, <1>3 DEF ActiveSlots

\* Code that changes the table runs at the outermost level.
LEMMA Outermost ==
    ASSUME ~Reentrant, CanCall, CanChange
    PROVE  ~Rebuilds /\ stack = <<>>
  BY DEF CanCall, CanChange, CodeRuns

LEMMA ClearQuiet ==
    ASSUME ~Reentrant, IInv, QInv, Clear
    PROVE  QInv' /\ Map!Next
  <1>1. /\ ~Rebuilds /\ stack = <<>> /\ stack' = stack /\ old' = old
        /\ table' = EmptyTable(MinSize - 1) /\ mask' = MinSize - 1
        /\ answer' = [op |-> "clear", key |-> None, result |-> None]
    BY Outermost DEF Clear, Answer
  <1>. DEFINE m == MinSize - 1
              t == EmptyTable(m)
  <1>2. m \in Masks
    BY SizeFacts
  <1>3. table' = t /\ mask' = m /\ old' = <<>>
    BY <1>1, AtRest
  <1>. HIDE DEF m
  <1>4. ActiveSlots(t) = {} /\ Reach(t, m) /\ HasEmpty(t, m)
    BY <1>2, EmptyTableFacts, EmptyReach, EmptyRoom
  <1>. HIDE DEF t
  <1>5. One(t, <<>>, 0) /\ EntriesOf(t, <<>>, 0) = {}
    BY <1>4, NothingLeft
  <1>6. QuietTable' /\ Content' = MapOf(t)
    BY <1>3, <1>4, <1>5, AtRestAfter
  <1>7. Content' = [c \in Classes |-> None]
    BY <1>5, <1>6 DEF MapOf, ContentOf, Same
  <1>8. DOMAIN Content = Classes
    BY ContentSays DEF ContentOf
  <1>9. QuietStack'
    BY <1>1, QuietIdle DEF Idle
  <1>10. Map!Clear
    BY <1>1, <1>7, <1>8 DEF Map!Clear, Map!Reply
  <1>. QED  BY <1>6, <1>9, <1>10 DEF QInv, Map!Next

LEMMA PopQuiet ==
    ASSUME ~Reentrant, IInv, QInv, PopItem
    PROVE  QInv' /\ Map!Next
  <1>. DEFINE i == PopSlot
  <1>1. /\ ~Rebuilds /\ stack = <<>> /\ stack' = stack /\ UNCHANGED <<mask, old>> /\ used > 0
        /\ table' = [table EXCEPT ![i] = Deleted]
        /\ answer' = [op |-> "pop", key |-> table[i].key, result |-> table[i].value]
    BY Outermost DEF PopItem, Answer
  <1>2. i \in 0 .. mask /\ IsActive(table[i])
    BY <1>1, PopSlotLive DEF IInv
  <1>. HIDE DEF i
  <1>3. QuietTable' /\ Content' = With(Content, Class[table[i].key], None)
    BY <1>1, <1>2, EraseQuiet
  <1>4. /\ mask \in Masks /\ table \in [0 .. mask -> Slots] /\ One(table, <<>>, 0)
        /\ Content = MapOf(table)
    BY <1>1, AtRest
  <1>5. Content[Class[table[i].key]] = table[i] /\ DOMAIN Content = Classes
    BY <1>2, <1>4, MapReads
  <1>6. Class[table[i].key] \in Classes
    BY <1>2 DEF IsActive, Classes
  <1>7. table[i] # None
    <2>1. table[i] \in [key : Key, value : Value]
      BY <1>2, <1>4, DictAssumption DEF Slots, IsActive, Free, Deleted
    <2>. QED  BY <2>1, DictAssumption
  <1>8. QuietStack'
    BY <1>1, QuietIdle DEF Idle
  <1>9. Map!Pop(Class[table[i].key])
    BY <1>1, <1>3, <1>5, <1>7 DEF With, Map!Pop, Map!Reply
  <1>. QED  BY <1>3, <1>5, <1>6, <1>8, <1>9 DEF QInv, Map!Next

LEMMA CallMergeQuiet ==
    ASSUME ~Reentrant, IInv, QInv, NEW n \in 1 .. MaxMerge, CallMerge(n)
    PROVE  QInv' /\ Map!Next
  <1>. DEFINE min == (used + n) * 2
  <1>1. /\ ~Rebuilds /\ stack = <<>> /\ stack' = Append(stack, Merging(n)) /\ answer' = None
        /\ \/ UNCHANGED <<table, mask, home, finger, old, next>>
           \/ Bounded(min) /\ StartRebuild(table, Capacity(min))
        /\ UNCHANGED <<fill, used>>
    BY Outermost DEF CallMerge, Quiet
  <1>2. QuietStack'
    <2>1. stack' = <<Merging(n)>>
      BY <1>1
    <2>. QED  BY <2>1, QuietIdle DEF Idle
  <1>3. QuietTable' /\ Content' = Content
    <2>1. CASE UNCHANGED <<table, mask, home, finger, old, next>>
      <3>1. UNCHANGED tableVars
        BY <2>1, <1>1 DEF tableVars
      <3>. QED  BY <3>1, TableLeft
    <2>2. CASE Bounded(min) /\ StartRebuild(table, Capacity(min))
      <3>1. /\ mask \in Masks /\ table \in [0 .. mask -> Slots] /\ used \in Nat /\ n \in Nat
            /\ One(table, <<>>, 0) /\ Content = MapOf(table)
        BY <1>1, AtRest
      <3>2. min \in Nat
        BY <3>1
      <3>. HIDE DEF min
      <3>3. Capacity(min) \in Sizes
        BY <2>2, <3>2, CapacityFacts
      <3>4. table' = EmptyTable(Capacity(min) - 1) /\ mask' = Capacity(min) - 1 /\ old' = table /\ next' = 0
        BY <2>2 DEF StartRebuild
      <3>5. mask' \in Masks /\ table' = EmptyTable(mask')
        BY <3>3, <3>4, SizeFacts
      <3>. QED  BY <3>1, <3>4, <3>5, AtRebuild
    <2>. QED  BY <2>1, <2>2, <1>1
  <1>. QED  BY <1>1, <1>2, <1>3 DEF QInv, Map!Next, Map!Rest

LEMMA MoveQuiet ==
    ASSUME IInv, QInv, MoveEntry
    PROVE  QInv' /\ Map!Next
  <1>1. /\ Rebuilds /\ stack' = stack /\ old' = old /\ next' = next + 1 /\ answer' = None
        /\ TableInv /\ StackInv /\ mask \in Masks /\ table \in [0 .. mask -> Slots]
    BY DEF MoveEntry, Quiet, IInv, TableInv, TableOk
  <1>2. One(table, old, next) /\ Reach(table, mask) /\ QuietStack
    BY DEF QInv, QuietTable
  <1>3. /\ Reach(table', mask')
        /\ IF IsActive(old[next])
             THEN \E i \in 0 .. mask : ~IsActive(table[i]) /\ table' = Put(table, i, old[next])
             ELSE table' = table
        /\ next \in DOMAIN old /\ DOMAIN old \subseteq Nat /\ old[next] \in Slots
    BY <1>1, <1>2, MoveReach
  <1>4. /\ One(table', old, next + 1)
        /\ EntriesOf(table', old, next + 1) = EntriesOf(table, old, next)
    <2>1. CASE IsActive(old[next])
      <3>1. PICK i \in 0 .. mask : ~IsActive(table[i]) /\ table' = Put(table, i, old[next])
        BY <2>1, <1>3
      <3>2. /\ One(Put(table, i, old[next]), old, next + 1)
            /\ EntriesOf(Put(table, i, old[next]), old, next + 1) = EntriesOf(table, old, next)
        <4>1. Movable(mask, table, i, old, next)
          BY <2>1, <3>1, <1>1, <1>2, <1>3 DEF Movable
        <4>. QED  BY <4>1, Moved
      <3>. QED  BY <3>1, <3>2
    <2>2. CASE ~IsActive(old[next])
      BY <2>2, <1>2, <1>3, Passed
    <2>. QED  BY <2>1, <2>2
  <1>5. EmptySlotRemains'
    BY <1>1 DEF EmptySlotRemains, Rebuilds
  <1>6. QuietTable' /\ Content' = Content
    BY <1>1, <1>3, <1>4, <1>5, ContentSays, ContentSaysNext DEF QuietTable
  <1>7. QuietStack'
    BY <1>1, <1>2, QuietMerging
  <1>. QED  BY <1>1, <1>6, <1>7 DEF QInv, Map!Next, Map!Rest

LEMMA EndRebuildQuiet ==
    ASSUME IInv, IInv', QInv, EndRebuild
    PROVE  QInv' /\ Map!Next
  <1>1. /\ Rebuilds /\ stack' = stack /\ old' = <<>> /\ answer' = None /\ UNCHANGED <<table, mask>>
        /\ next = Cardinality(DOMAIN old) /\ TableInv /\ TableInv' /\ StackInv
    BY DEF EndRebuild, Quiet, IInv
  <1>2. PICK m \in Masks : old \in [0 .. m -> Slots] /\ next \in 0 .. m + 1
    BY <1>1 DEF TableInv, RebuildOk
  <1>3. DOMAIN old = 0 .. m /\ Cardinality(DOMAIN old) = m + 1 /\ m \in Nat
    BY <1>2, CountFacts, MaskFacts
  <1>4. Rest(old, next) = {}
    BY <1>1, <1>3 DEF Rest
  <1>5. One(table, old, next) /\ Reach(table, mask) /\ QuietStack
    BY DEF QInv, QuietTable
  <1>6. One(table', <<>>, 0) /\ EntriesOf(table', <<>>, 0) = EntriesOf(table, old, next)
    BY <1>1, <1>4, <1>5, AllMoved
  <1>7. One(table', old', next') /\ EntriesOf(table', old', next') = EntriesOf(table, old, next)
    BY <1>1, <1>6, NothingLeft
  <1>8. EmptySlotRemains'
    BY <1>1, EndRoom
  <1>9. QuietTable' /\ Content' = Content
    BY <1>1, <1>5, <1>7, <1>8, ContentSays, ContentSaysNext DEF QuietTable
  <1>10. QuietStack'
    BY <1>1, <1>5, QuietMerging
  <1>. QED  BY <1>1, <1>9, <1>10 DEF QInv, Map!Next, Map!Rest

LEMMA InitQuiet ==
    ASSUME Init
    PROVE  QInv /\ Map!Init
  <1>1. MinSize - 1 \in Masks
    BY SizeFacts
  <1>2. /\ table = EmptyTable(mask) /\ mask \in Masks /\ old = <<>> /\ stack = <<>> /\ answer = None
    BY <1>1 DEF Init
  <1>3. ActiveSlots(table) = {} /\ Reach(table, mask) /\ HasEmpty(table, mask)
    BY <1>2, EmptyTableFacts, EmptyReach, EmptyRoom
  <1>4. One(table, old, next) /\ EntriesOf(table, old, next) = {}
    BY <1>2, <1>3, NothingLeft
  <1>5. QuietTable
    BY <1>3, <1>4 DEF QuietTable, EmptySlotRemains, HasEmpty
  <1>6. QuietStack
    BY <1>2 DEF QuietStack
  <1>7. Content = [c \in {Class[k] : k \in Key} |-> None]
    BY <1>4, ContentSays DEF ContentOf, Same, Classes
  <1>. QED  BY <1>2, <1>5, <1>6, <1>7 DEF QInv, Map!Init

LEMMA NextQuiet ==
    ASSUME ~Reentrant, IInv, IInv', QInv, [Next]_vars
    PROVE  QInv' /\ [Map!Next]_(Map!vars)
  <1>1. ASSUME NEW op \in Ops \cap KeyOps, NEW k \in Key, NEW v \in Value \cup {None}, Call(op, k, v)
        PROVE  QInv' /\ Map!Next
    BY <1>1, CallQuiet
  <1>2. ASSUME NEW n \in 1 .. MaxMerge, CallMerge(n) PROVE QInv' /\ Map!Next
    BY <1>2, CallMergeQuiet
  <1>3. ASSUME NEW op \in {"insert", "set"}, NEW k \in Key, NEW v \in Value, MergeNext(op, k, v)
        PROVE  QInv' /\ Map!Next
    BY <1>3, MergeNextQuiet
  <1>4. CASE Clear
    BY <1>4, ClearQuiet
  <1>5. CASE PopItem
    BY <1>5, PopQuiet
  <1>6. CASE Probe \/ Compared
    BY <1>6, LookupQuiet
  <1>7. CASE MergeEnd \/ Raise \/ Refused
    BY <1>7, ReturnQuiet
  <1>8. CASE FinishGet
    BY <1>8, GetQuiet
  <1>9. CASE FinishSet
    BY <1>9, SetQuiet
  <1>10. CASE FinishSetDefault
    BY <1>10, SetDefaultQuiet
  <1>11. CASE FinishDelete
    BY <1>11, DeleteQuiet
  <1>12. CASE MoveEntry
    BY <1>12, MoveQuiet
  <1>13. CASE EndRebuild
    BY <1>13, EndRebuildQuiet
  <1>14. CASE UNCHANGED vars
    <2>1. UNCHANGED tableVars /\ stack' = stack /\ answer' = answer
      BY <1>14 DEF vars, tableVars
    <2>2. QuietTable' /\ Content' = Content
      BY <2>1, TableLeft
    <2>3. QuietStack'
      BY <2>1 DEF QInv, QuietStack, tableVars
    <2>. QED  BY <2>1, <2>2, <2>3 DEF QInv, Map!vars
  <1>. QED  BY <1>1, <1>2, <1>3, <1>4, <1>5, <1>6, <1>7, <1>8, <1>9, <1>10, <1>11, <1>12, <1>13, <1>14
            DEF Next, Code, Native

\* While comparisons leave the table alone, each lookup knows what it passed:
\* the table, with any hashes, sizes and merges, is what QInv says.
LEMMA QuietInvariant == ~Reentrant => (Spec => []QInv)
  <1>. SUFFICES ASSUME ~Reentrant PROVE Spec => []QInv
    OBVIOUS
  <1>1. Init => QInv
    BY InitQuiet
  <1>2. IInv /\ IInv' /\ QInv /\ [Next]_vars => QInv'
    BY NextQuiet
  <1>. QED  BY <1>1, <1>2, Invariant, PTL DEF Spec

\* A live key is met by its probe before an empty slot, if comparisons leave
\* the table alone: __tinypy_internal_dict_lookup finds what was stored.
THEOREM KeysFound == ~Reentrant => (Spec => []KeysReachable)
  <1>1. QInv => KeysReachable
    BY ReachableSays DEF QInv, QuietTable
  <1>. QED  BY <1>1, QuietInvariant, PTL

\* The stores of __tinypy_internal_dict_store never take the last empty slot, if
\* comparisons leave the table alone: every probe ends.
THEOREM EmptySlotKept == ~Reentrant => (Spec => []EmptySlotRemains)
  <1>1. QInv => EmptySlotRemains
    BY DEF QInv, QuietTable
  <1>. QED  BY <1>1, QuietInvariant, PTL

\* Each step of the table, those of a rebuild included, is an operation of a
\* map or leaves it as it is, if comparisons leave the table alone.
THEOREM MapImplemented == ~Reentrant => (Spec => ImplementsMap)
  <1>. SUFFICES ASSUME ~Reentrant PROVE Spec => ImplementsMap
    OBVIOUS
  <1>1. Init => Map!Init
    BY InitQuiet
  <1>2. IInv /\ IInv' /\ QInv /\ [Next]_vars => [Map!Next]_(Map!vars)
    BY NextQuiet
  <1>3. Spec => []QInv
    BY QuietInvariant
  <1>. QED  BY <1>1, <1>2, <1>3, Invariant, PTL DEF Spec, ImplementsMap, Map!Spec

-----------------------------------------------------------------------------
(* What lookups know when comparisons change the table: the table may be   *)
(* another one of the same size at the same address, but the entry that a  *)
(* lookup compared is in its slot, and was stored where its own probe,     *)
(* which is that of the lookup, meets the slot.                            *)

\* No lookup compares at a slot that it has visited before: its probe does
\* not come back to a slot that holds a key with its hash.
ComparesOnce ==
    \A i \in 1 .. Len(stack) :
        stack[i].pc = "compare" =>
            \A q \in 0 .. stack[i].p - 1 : Walk[Hash[stack[i].key], stack[i].mask, q] # stack[i].index

\* What a lookup remembers of its way, whatever became of the table.
Traces(f) ==
    /\ f.pc \in {"probe", "compare"} /\ f.dummy # None =>
          \E q \in 0 .. f.p - 1 : Walk[Hash[f.key], f.mask, q] = f.dummy
    /\ f.pc = "compare" => f.index = Walk[Hash[f.key], f.mask, f.p] /\ Hash[f.stored] = Hash[f.key]

\* What the innermost knows of the table as it is.
Stands(f, t, m) ==
    /\ f.pc = "probe" => Passes(t, f.key, m, f.p)
    /\ f.pc = "ended" /\ ~f.found => Meets(t, f.key, m, f.index)

Follows ==
    /\ \A i \in 1 .. Len(stack) : Traces(stack[i])
    /\ stack # <<>> => Stands(Top, table, mask)

RInv == Reach(table, mask) /\ Follows

LEMMA EndedFollows ==
    ASSUME NEW f \in Frames, NEW i, NEW found \in BOOLEAN, NEW t, NEW m,
           ~found => Meets(t, f.key, m, i)
    PROVE  Traces(Ended(f, i, found)) /\ Stands(Ended(f, i, found), t, m)
  <1>. DEFINE g == Ended(f, i, found)
  <1>1. g.pc = "ended" /\ g.index = i /\ g.found = found /\ g.key = f.key
    BY DEF Ended, Frames
  <1>. HIDE DEF g
  <1>2. Traces(g) /\ Stands(g, t, m)
    BY <1>1, Zenon DEF Traces, Stands
  <1>. QED  BY <1>2 DEF g

\* A lookup that starts, or starts again, has passed nothing.
LEMMA StartFollows ==
    ASSUME NEW f, f.pc = "probe", f.p = 0, f.dummy = None, NEW t, NEW m
    PROVE  Traces(f) /\ Stands(f, t, m)
  <1>1. 0 .. 0 - 1 = {}
    OBVIOUS
  <1>2. Passes(t, f.key, m, f.p)
    BY <1>1, Zenon DEF Passes
  <1>. QED  BY <1>2, Zenon DEF Traces, Stands

LEMMA LookupFollows ==
    ASSUME NEW op, NEW k, NEW v, NEW left, NEW u, NEW t, NEW m
    PROVE  /\ Traces(Lookup(op, k, v, left)) /\ Stands(Lookup(op, k, v, left), t, m)
           /\ LET f == [Lookup(op, k, v, left) EXCEPT !.used = u]
              IN  Traces(f) /\ Stands(f, t, m)
  <1>. DEFINE f == Lookup(op, k, v, left)
              g == [f EXCEPT !.used = u]
  <1>1. /\ f.pc = "probe" /\ f.p = 0 /\ f.dummy = None
        /\ g.pc = "probe" /\ g.p = 0 /\ g.dummy = None
    BY DEF Lookup
  <1>. HIDE DEF f, g
  <1>2. Traces(f) /\ Stands(f, t, m) /\ Traces(g) /\ Stands(g, t, m)
    BY <1>1, StartFollows
  <1>. QED  BY <1>2 DEF f, g

LEMMA MergingFollows ==
    ASSUME NEW n, NEW t, NEW m
    PROVE  Traces(Merging(n)) /\ Stands(Merging(n), t, m)
  <1>1. Merging(n).pc = "merge"
    BY DEF Merging
  <1>. QED  BY <1>1 DEF Traces, Stands

-----------------------------------------------------------------------------
(* The stack.                                                              *)

LEMMA FollowsPop ==
    ASSUME StackInv, Follows, stack # <<>>, stack' = Popped
    PROVE  Follows'
  <1>1. stack \in Seq(Frames) /\ Len(stack) \in Nat \ {0}
    BY DEF StackInv
  <1>2. Len(stack') = Len(stack) - 1 /\ \A i \in 1 .. Len(stack') : stack'[i] = stack[i]
    BY <1>1, PoppedFacts
  <1>3. \A i \in 1 .. Len(stack') : i \in 1 .. Len(stack) /\ stack'[i].pc = "compare"
    BY <1>1, <1>2 DEF StackInv, FramesOk
  <1>4. stack' # <<>> => Len(stack') \in 1 .. Len(stack')
    BY <1>1, <1>2, PoppedFacts
  <1>5. \A i \in 1 .. Len(stack') : Traces(stack'[i])
    BY <1>2, <1>3 DEF Follows
  <1>6. stack' # <<>> => Top'.pc = "compare"
    BY <1>3, <1>4 DEF Top
  <1>7. stack' # <<>> => Stands(Top', table', mask')
    BY <1>6 DEF Stands
  <1>. QED  BY <1>5, <1>7 DEF Follows

LEMMA FollowsReplaced ==
    ASSUME StackInv, Follows, stack # <<>>, NEW g, Traces(g), Stands(g, table', mask'),
           Len(stack') = Len(stack), stack'[Len(stack)] = g,
           \A i \in 1 .. Len(stack) - 1 : stack'[i] = stack[i]
    PROVE  Follows'
  <1>1. stack \in Seq(Frames) /\ Len(stack) \in Nat \ {0}
    BY DEF StackInv
  <1>2. \A i \in 1 .. Len(stack) : i = Len(stack) \/ i \in 1 .. Len(stack) - 1
    BY <1>1
  <1>3. Top' = g
    BY DEF Top
  <1>4. Stands(Top', table', mask')
    BY <1>3
  <1>5. \A i \in 1 .. Len(stack') : Traces(stack'[i])
    BY <1>2 DEF Follows
  <1>. QED  BY <1>4, <1>5 DEF Follows

LEMMA FollowsBecome ==
    ASSUME StackInv, Follows, stack # <<>>, NEW g \in Frames, Become(g), Traces(g), Stands(g, table', mask')
    PROVE  Follows'
  <1>1. stack \in Seq(Frames) /\ Len(stack) \in Nat \ {0}
    BY DEF StackInv
  <1>2. /\ Len(stack') = Len(stack) /\ stack'[Len(stack)] = g
        /\ \A i \in 1 .. Len(stack) - 1 : stack'[i] = stack[i]
    BY <1>1 DEF Become
  <1>. QED  BY <1>2, FollowsReplaced

LEMMA FollowsPush ==
    ASSUME StackInv, Follows, NEW g \in Frames, stack' = Append(stack, g), Traces(g), Stands(g, table', mask')
    PROVE  Follows'
  <1>1. stack \in Seq(Frames) /\ Len(stack) \in Nat
    BY DEF StackInv
  <1>2. /\ Len(stack') = Len(stack) + 1 /\ stack'[Len(stack) + 1] = g
        /\ \A i \in 1 .. Len(stack) : stack'[i] = stack[i]
    BY <1>1
  <1>3. \A i \in 1 .. Len(stack) + 1 : i = Len(stack) + 1 \/ i \in 1 .. Len(stack)
    BY <1>1
  <1>4. Top' = g
    BY <1>2 DEF Top
  <1>5. Stands(Top', table', mask')
    BY <1>4
  <1>6. \A i \in 1 .. Len(stack') : Traces(stack'[i])
    BY <1>2, <1>3 DEF Follows
  <1>. QED  BY <1>5, <1>6 DEF Follows

LEMMA FollowsDone ==
    ASSUME StackInv, Follows, stack # <<>>, stack' = Done(Top)
    PROVE  Follows'
  <1>1. stack \in Seq(Frames) /\ Len(stack) \in Nat \ {0} /\ Top \in Frames
    BY DEF StackInv, Top
  <1>2. CASE Top.left = None
    BY <1>2, FollowsPop DEF Done
  <1>3. CASE Top.left # None
    <2>1. stack' = Append(Popped, Merging(Top.left))
      BY <1>3 DEF Done
    <2>2. /\ Popped \in Seq(Frames) /\ Len(Popped) = Len(stack) - 1
          /\ \A i \in 1 .. Len(stack) - 1 : Popped[i] = stack[i]
      BY <1>1, PoppedFacts
    <2>3. Merging(Top.left) \in Frames
      <3>1. Top.left \in Nat
        BY <1>1, <1>3 DEF Frames
      <3>. QED  BY <3>1, SizeFacts, MaskFacts, DictAssumption DEF Merging, Frames
    <2>4. /\ Len(stack') = Len(stack) /\ stack'[Len(stack)] = Merging(Top.left)
          /\ \A i \in 1 .. Len(stack) - 1 : stack'[i] = stack[i]
      BY <2>1, <2>2, <2>3, <1>1, AppendProperties
    <2>. QED  BY <2>4, MergingFollows, FollowsReplaced
  <1>. QED  BY <1>2, <1>3

\* The table changes under a comparison, under a merge, or when nothing is in
\* progress.
LEMMA FollowsSame ==
    ASSUME Follows, stack' = stack, stack # <<>> => Top.pc \in {"compare", "merge"}
    PROVE  Follows'
  BY DEF Follows, Stands, Top

LEMMA FollowsLeft ==
    ASSUME Follows, stack' = stack, UNCHANGED tableVars
    PROVE  Follows'
  BY DEF Follows, Top, tableVars

-----------------------------------------------------------------------------
(* The steps.                                                              *)

LEMMA CallFollows ==
    ASSUME IInv, RInv, NEW op \in KeyOps, NEW k \in Key, NEW v \in Value \cup {None}, Call(op, k, v)
    PROVE  RInv'
  <1>. DEFINE g == Lookup(op, k, v, None)
  <1>1. /\ ~Rebuilds /\ stack' = Append(stack, g) /\ UNCHANGED tableVars
        /\ v = None <=> op \in {"get", "delete"}
    BY DEF Call, CanCall, CodeRuns
  <1>2. op \in KeyOps \cup {"insert"} /\ None \in Nat \cup {None} /\ TableOk
        /\ (op \in {"set", "insert", "setdefault"} => v \in Value)
    BY <1>1 DEF IInv, TableInv
  <1>3. g \in Frames
    BY <1>1, <1>2, LookupFacts
  <1>4. Traces(g) /\ Stands(g, table', mask')
    BY LookupFollows
  <1>. HIDE DEF g
  <1>5. Follows'
    BY <1>1, <1>3, <1>4, FollowsPush DEF IInv, RInv
  <1>. QED  BY <1>1, <1>5 DEF RInv, tableVars

LEMMA CallMergeFollows ==
    ASSUME IInv, RInv, NEW n \in 1 .. MaxMerge, CallMerge(n)
    PROVE  RInv'
  <1>. DEFINE min == (used + n) * 2
  <1>1. TableInv /\ StackInv /\ TableOk /\ used \in Nat /\ n \in Nat
    BY DictAssumption DEF IInv, TableInv, TableOk
  <1>2. /\ stack' = Append(stack, Merging(n))
        /\ \/ table' = table /\ mask' = mask
           \/ Bounded(min) /\ StartRebuild(table, Capacity(min))
    BY DEF CallMerge
  <1>3. Merging(n) \in Frames
    BY <1>1, SizeFacts, MaskFacts, DictAssumption DEF Merging, Frames
  <1>4. Follows'
    BY <1>1, <1>2, <1>3, MergingFollows, FollowsPush DEF RInv
  <1>5. Reach(table', mask')
    <2>1. CASE table' = table /\ mask' = mask
      BY <2>1 DEF RInv
    <2>2. CASE Bounded(min) /\ StartRebuild(table, Capacity(min))
      <3>1. min \in Nat
        BY <1>1
      <3>. HIDE DEF min
      <3>2. Capacity(min) \in Sizes
        BY <2>2, <3>1, CapacityFacts
      <3>3. table' = EmptyTable(mask') /\ mask' \in Masks
        BY <2>2, <3>2, SizeFacts DEF StartRebuild
      <3>. QED  BY <3>3, EmptyReach
    <2>. QED  BY <2>1, <2>2, <1>2
  <1>. QED  BY <1>4, <1>5 DEF RInv

LEMMA MergeNextFollows ==
    ASSUME IInv, RInv, NEW op \in {"insert", "set"}, NEW k \in Key, NEW v \in Value, MergeNext(op, k, v)
    PROVE  RInv'
  <1>. DEFINE g == Lookup(op, k, v, Top.left - 1)
  <1>1. ~Rebuilds /\ stack # <<>> /\ Top.pc = "merge" /\ Top.left > 0 /\ Become(g) /\ UNCHANGED tableVars
    BY DEF MergeNext, At
  <1>2. Top.left - 1 \in Nat
    BY <1>1, TopFacts DEF FrameOk, IInv
  <1>3. op \in KeyOps \cup {"insert"} /\ TableOk
    BY DEF KeyOps, IInv, TableInv
  <1>4. g \in Frames
    BY <1>1, <1>2, <1>3, LookupFacts
  <1>5. Traces(g) /\ Stands(g, table', mask')
    BY LookupFollows
  <1>. HIDE DEF g
  <1>6. Follows'
    BY <1>1, <1>4, <1>5, FollowsBecome DEF IInv, RInv
  <1>. QED  BY <1>1, <1>6 DEF RInv, tableVars

LEMMA ClearFollows ==
    ASSUME IInv, RInv, Clear
    PROVE  RInv'
  <1>1. /\ stack # <<>> => Top.pc = "compare"
        /\ table' = EmptyTable(MinSize - 1) /\ mask' = MinSize - 1 /\ stack' = stack
    BY DEF Clear, CanCall, CodeRuns, At
  <1>2. Reach(table', mask')
    BY <1>1, SizeFacts, EmptyReach
  <1>. QED  BY <1>1, <1>2, FollowsSame DEF RInv

LEMMA PopItemFollows ==
    ASSUME IInv, RInv, PopItem
    PROVE  RInv'
  <1>1. TableInv /\ mask \in Masks /\ table \in [0 .. mask -> Slots]
    BY DEF IInv, TableInv, TableOk
  <1>2. /\ ~Rebuilds /\ (stack # <<>> => Top.pc = "compare") /\ used > 0
        /\ table' = Put(table, PopSlot, Deleted) /\ mask' = mask /\ stack' = stack
    BY DEF PopItem, CanCall, CodeRuns, At, Put
  <1>3. PopSlot \in 0 .. mask
    BY <1>1, <1>2, PopSlotLive
  <1>4. Reach(table', mask')
    BY <1>1, <1>2, <1>3, DeleteReach DEF RInv
  <1>. QED  BY <1>2, <1>4, FollowsSame DEF RInv

LEMMA ReturnFollows ==
    ASSUME IInv, RInv, stack # <<>>, stack' = Popped, UNCHANGED tableVars
    PROVE  RInv'
  <1>1. Follows'
    BY FollowsPop DEF IInv, RInv
  <1>. QED  BY <1>1 DEF RInv, tableVars

\* What a lookup that is over knows of the slot it reports.
LEMMA EndedMeets ==
    ASSUME IInv, RInv, At("ended")
    PROVE  /\ TableInv /\ StackInv /\ ~Rebuilds /\ stack # <<>> /\ Follows /\ Reach(table, mask)
           /\ mask \in Masks /\ table \in [0 .. mask -> Slots]
           /\ ~Top.found => Meets(table, Top.key, mask, Top.index)
  <1>1. stack # <<>> /\ Top.pc = "ended" /\ ~Rebuilds
    BY DEF At
  <1>2. ~Top.found => Meets(table, Top.key, mask, Top.index)
    BY <1>1 DEF RInv, Follows, Stands
  <1>. QED  BY <1>1, <1>2 DEF IInv, TableInv, TableOk, RInv

LEMMA SetFollows ==
    ASSUME IInv, RInv, FinishSet
    PROVE  RInv'
  <1>1. At("ended") /\ Top.op \in {"set", "insert"} /\ stack' = Done(Top)
    BY DEF FinishSet
  <1>2. /\ Top.index \in 0 .. mask /\ Top.key \in Key /\ Top.value \in Value
        /\ Top.found => IsActive(table[Top.index])
    BY <1>1, EndedTop
  <1>3. /\ TableInv /\ StackInv /\ ~Rebuilds /\ stack # <<>> /\ Follows /\ Reach(table, mask)
        /\ mask \in Masks /\ table \in [0 .. mask -> Slots]
        /\ ~Top.found => Meets(table, Top.key, mask, Top.index)
    BY <1>1, EndedMeets
  <1>4. Follows'
    BY <1>1, <1>3, FollowsDone
  <1>5. Reach(table', mask')
    <2>1. CASE Top.found /\ used = Top.used
      <3>. DEFINE e == Entry(table[Top.index].key, Top.value)
      <3>1. table' = [table EXCEPT ![Top.index].value = Top.value] /\ mask' = mask
        BY <2>1 DEF FinishSet
      <3>2. IsActive(table[Top.index]) /\ table[Top.index] \in Slots
        BY <2>1, <1>2, <1>3
      <3>3. table[Top.index].key \in Key /\ table[Top.index] \in [key : Key, value : Value]
        BY <3>2, DictAssumption DEF IsActive, Slots, Free, Deleted
      <3>4. table' = Put(table, Top.index, e)
        <4>1. [table[Top.index] EXCEPT !.value = Top.value] = e
          BY <3>3 DEF Entry
        <4>. QED  BY <3>1, <4>1 DEF Put
      <3>5. e \in Slots /\ IsActive(e) /\ e.key = table[Top.index].key
        BY <3>3, <1>2, SlotFacts
      <3>6. Meets(table, e.key, mask, Top.index)
        <4>1. Meets(table, table[Top.index].key, mask, Top.index)
          BY <3>2, <1>2, <1>3 DEF Reach, ActiveSlots
        <4>. HIDE DEF e
        <4>. QED  BY <4>1, <3>5
      <3>. HIDE DEF e
      <3>7. Reach(Put(table, Top.index, e), mask)
        BY <3>5, <3>6, <1>2, <1>3, PutReach, Zenon
      <3>. QED  BY <3>1, <3>4, <3>7
    <2>2. CASE ~(Top.found /\ used = Top.used)
      <3>1. Store(Top.index, Top.used, Top.op = "set")
        BY <2>2 DEF FinishSet
      <3>2. ~IsActive(table[Top.index]) => Meets(table, Top.key, mask, Top.index)
        BY <1>2, <1>3
      <3>. QED  BY <3>1, <3>2, <1>2, <1>3, StoreReach
    <2>. QED  BY <2>1, <2>2
  <1>. QED  BY <1>4, <1>5 DEF RInv

LEMMA SetDefaultFollows ==
    ASSUME IInv, RInv, FinishSetDefault
    PROVE  RInv'
  <1>1. At("ended") /\ Top.op = "setdefault" /\ stack' = Popped
    BY DEF FinishSetDefault
  <1>2. Top.index \in 0 .. mask /\ Top.key \in Key /\ Top.value \in Value
    BY <1>1, EndedTop
  <1>3. /\ TableInv /\ StackInv /\ ~Rebuilds /\ stack # <<>> /\ Follows /\ Reach(table, mask)
        /\ ~Top.found => Meets(table, Top.key, mask, Top.index)
    BY <1>1, EndedMeets
  <1>4. CASE Top.found
    BY <1>4, <1>1, <1>3, ReturnFollows DEF FinishSetDefault
  <1>5. CASE ~Top.found
    <2>1. Store(Top.index, used, TRUE)
      BY <1>5 DEF FinishSetDefault
    <2>2. Reach(table', mask')
      BY <2>1, <1>2, <1>3, <1>5, StoreReach
    <2>3. Follows'
      BY <1>1, <1>3, FollowsPop
    <2>. QED  BY <2>2, <2>3 DEF RInv
  <1>. QED  BY <1>4, <1>5

LEMMA DeleteFollows ==
    ASSUME IInv, RInv, FinishDelete
    PROVE  RInv'
  <1>1. At("ended") /\ stack' = Popped
    BY DEF FinishDelete
  <1>2. Top.index \in 0 .. mask
    BY <1>1, EndedTop
  <1>3. /\ TableInv /\ StackInv /\ stack # <<>> /\ Follows /\ Reach(table, mask)
        /\ mask \in Masks /\ table \in [0 .. mask -> Slots]
    BY <1>1, EndedMeets
  <1>4. CASE Top.found
    <2>1. table' = Put(table, Top.index, Deleted) /\ mask' = mask
      BY <1>4 DEF FinishDelete, Put
    <2>2. Reach(table', mask')
      BY <2>1, <1>2, <1>3, DeleteReach
    <2>3. Follows'
      BY <1>1, <1>3, FollowsPop
    <2>. QED  BY <2>2, <2>3 DEF RInv
  <1>5. CASE ~Top.found
    BY <1>5, <1>1, <1>3, ReturnFollows DEF FinishDelete
  <1>. QED  BY <1>4, <1>5

LEMMA RebuildFollows ==
    ASSUME IInv, RInv, MoveEntry \/ EndRebuild
    PROVE  RInv'
  <1>1. TableInv /\ StackInv /\ Rebuilds /\ stack' = stack
    BY DEF IInv, MoveEntry, EndRebuild
  <1>2. stack # <<>> => Top.pc \in {"compare", "merge"}
    BY <1>1, TopFacts DEF Fits, Frames, Rebuilds
  <1>3. Follows'
    BY <1>1, <1>2, FollowsSame DEF RInv
  <1>4. Reach(table', mask')
    <2>1. CASE MoveEntry
      BY <2>1, <1>1, MoveReach DEF RInv
    <2>2. CASE EndRebuild
      BY <2>2 DEF EndRebuild, RInv
    <2>. QED  BY <2>1, <2>2
  <1>. QED  BY <1>3, <1>4 DEF RInv

LEMMA InitFollows ==
    ASSUME Init
    PROVE  RInv
  <1>1. mask \in Masks /\ table = EmptyTable(mask) /\ stack = <<>>
    BY SizeFacts DEF Init
  <1>2. Follows
    BY <1>1 DEF Follows
  <1>. QED  BY <1>1, <1>2, EmptyReach DEF RInv

LEMMA ProbeGoesOn ==
    ASSUME IInv, RInv, Probe
    PROVE  \E g \in Frames : Become(g) /\ Traces(g) /\ Stands(g, table, mask)
  <1>. DEFINE f == Top
  <1>1. TableInv /\ StackInv /\ TableOk /\ table \in [0 .. mask -> Slots] /\ mask \in Masks
    BY DEF IInv, TableInv, TableOk
  <1>2. ~Rebuilds /\ stack # <<>> /\ f.pc = "probe" /\ old = <<>>
    BY DEF Probe, At, Rebuilds
  <1>3. f \in Frames /\ FrameOk(f) /\ Fits(f, table, mask, old)
    BY <1>1, <1>2, TopFacts
  <1>4. Traces(f) /\ Stands(f, table, mask)
    <2>1. Len(stack) \in 1 .. Len(stack)
      BY <1>1, <1>2 DEF StackInv
    <2>. QED  BY <2>1, <1>2 DEF RInv, Follows, Top
  <1>5. PICK p \in f.p .. Last :
            LET i == Walk[Hash[f.key], f.mask, p]
            IN  /\ Stops(f, p) /\ \A q \in f.p .. p - 1 : ~Stops(f, q)
                /\ Become(IF ~IsActive(table[i])
                         THEN IF FirstDummy(f, p) = None
                                THEN Ended(f, i, FALSE)
                                ELSE Ended(f, FirstDummy(f, p), IsActive(table[FirstDummy(f, p)]))
                         ELSE IF table[i].key = f.key \/ Quick(table[i].key, f.key)
                                THEN Ended(f, i, TRUE)
                                ELSE [f EXCEPT !.pc = "compare", !.p = p, !.dummy = FirstDummy(f, p),
                                               !.index = i, !.stored = table[i].key])
    BY Zenon DEF Probe, f
  <1>. HIDE DEF f
  <1>6. /\ f.key \in Key /\ f.mask = mask /\ f.p \in 0 .. Last /\ f.dummy \in {None} \cup 0 .. mask
        /\ Passes(table, f.key, mask, f.p)
        /\ f.dummy # None => \E q \in 0 .. f.p - 1 : Walk[Hash[f.key], mask, q] = f.dummy
    <2>1. f.key \in Key /\ f.mask = mask /\ f.p \in 0 .. Last /\ f.dummy \in {None} \cup 0 .. mask
      BY <1>2, <1>3 DEF FrameOk, Fits, Frames
    <2>2. f.pc \in {"probe", "compare"}
      BY <1>2
    <2>3. Passes(table, f.key, mask, f.p)
      BY <1>2, <1>4, Zenon DEF Stands
    <2>4. f.dummy # None => \E q \in 0 .. f.p - 1 : Walk[Hash[f.key], f.mask, q] = f.dummy
      BY <2>2, <1>4, Zenon DEF Traces
    <2>. QED  BY <2>1, <2>3, <2>4, Zenon
  <1>7. p \in 0 .. Last
    <2>1. f.p \in 0 .. Last
      BY <1>6
    <2>. QED  BY <2>1, SizeFacts
  <1>8. Passes(table, f.key, mask, p)
    <2>1. \A q \in f.p .. p - 1 : ~Stops(f, q)
      BY <1>5, Zenon
    <2>. QED  BY <2>1, <1>1, <1>6, NotStopped
  <1>9. PICK i \in 0 .. mask :
            /\ i = Walk[Hash[f.key], mask, p]
            /\ IsActive(table[i]) /\ table[i].key # f.key => Hash[table[i].key] = Hash[f.key]
            /\ Become(IF ~IsActive(table[i])
                     THEN IF FirstDummy(f, p) = None
                            THEN Ended(f, i, FALSE)
                            ELSE Ended(f, FirstDummy(f, p), IsActive(table[FirstDummy(f, p)]))
                     ELSE IF table[i].key = f.key \/ Quick(table[i].key, f.key)
                            THEN Ended(f, i, TRUE)
                            ELSE [f EXCEPT !.pc = "compare", !.p = p, !.dummy = FirstDummy(f, p),
                                           !.index = i, !.stored = table[i].key])
    <2>. DEFINE s == Walk[Hash[f.key], mask, p]
    <2>1. s \in 0 .. mask
      BY <1>1, <1>6, <1>7, WalkFacts, Zenon
    <2>2. Stops(f, p)
      BY <1>5, Zenon
    <2>3. \/ table[s].key \in {Empty, f.key}
          \/ Hash[table[s].key] = Hash[f.key]
      BY <2>2, <1>6, Zenon DEF Stops
    <2>4. IsActive(table[s]) /\ table[s].key # f.key => Hash[table[s].key] = Hash[f.key]
      <3>. HIDE DEF s
      <3>. QED  BY <2>3, DictAssumption DEF IsActive
    <2>. QED  BY <2>1, <2>4, <1>5, <1>6, Zenon
  <1>10. FirstDummy(f, p) # None =>
             /\ FirstDummy(f, p) \in 0 .. mask
             /\ \E q \in 0 .. p - 1 : Walk[Hash[f.key], mask, q] = FirstDummy(f, p)
    <2>1. FirstDummy(f, p) \in {None} \cup 0 .. mask
      BY <1>1, <1>6, FirstDummyFacts
    <2>2. FirstDummy(f, p) # None => \E q \in 0 .. p - 1 : Walk[Hash[f.key], mask, q] = FirstDummy(f, p)
      BY <1>1, <1>6, FirstDummyMet, Zenon
    <2>. DEFINE d == FirstDummy(f, p)
    <2>. HIDE DEF d
    <2>3. d # None => d \in 0 .. mask
      BY <2>1 DEF d
    <2>. QED  BY <2>2, <2>3, Zenon DEF d
  <1>11. CASE ~IsActive(table[i]) /\ FirstDummy(f, p) = None
    <2>1. Become(Ended(f, i, FALSE))
      BY <1>9, <1>11
    <2>2. Ended(f, i, FALSE) \in Frames
      BY <1>1, <1>2, <1>3, EndedFacts
    <2>3. Meets(table, f.key, mask, i)
      BY <1>7, <1>8, <1>9, Zenon DEF Meets
    <2>4. Traces(Ended(f, i, FALSE)) /\ Stands(Ended(f, i, FALSE), table, mask)
      BY <2>3, <1>3, EndedFollows
    <2>. QED  BY <2>1, <2>2, <2>4
  <1>12. CASE ~IsActive(table[i]) /\ FirstDummy(f, p) # None
    <2>. DEFINE d == FirstDummy(f, p)
                b == IsActive(table[d])
    <2>1. d \in 0 .. mask
      BY <1>10, <1>12
    <2>2. Become(Ended(f, d, b))
      BY <1>9, <1>12
    <2>3. Meets(table, f.key, mask, d)
      <3>1. PICK q \in 0 .. p - 1 : Walk[Hash[f.key], mask, q] = d
        BY <1>10, <1>12, Zenon
      <3>2. q \in 0 .. Last
        BY <1>7, Before
      <3>3. Passes(table, f.key, mask, q)
        BY <1>7, <1>8, PassesBefore
      <3>. QED  BY <3>1, <3>2, <3>3, Zenon DEF Meets
    <2>. HIDE DEF d
    <2>4. b \in BOOLEAN /\ (b => IsActive(table[d]))
      BY DEF IsActive
    <2>. HIDE DEF b
    <2>5. Ended(f, d, b) \in Frames
      BY <2>1, <2>4, <1>1, <1>2, <1>3, EndedFacts
    <2>6. Traces(Ended(f, d, b)) /\ Stands(Ended(f, d, b), table, mask)
      BY <2>3, <2>4, <1>3, EndedFollows
    <2>. QED  BY <2>2, <2>5, <2>6
  <1>13. CASE IsActive(table[i]) /\ (table[i].key = f.key \/ Quick(table[i].key, f.key))
    <2>1. Become(Ended(f, i, TRUE))
      BY <1>9, <1>13
    <2>2. Ended(f, i, TRUE) \in Frames
      BY <1>1, <1>2, <1>3, <1>13, EndedFacts
    <2>3. Traces(Ended(f, i, TRUE)) /\ Stands(Ended(f, i, TRUE), table, mask)
      BY <1>3, EndedFollows
    <2>. QED  BY <2>1, <2>2, <2>3
  <1>14. CASE IsActive(table[i]) /\ ~(table[i].key = f.key \/ Quick(table[i].key, f.key))
    <2>. DEFINE d == FirstDummy(f, p)
                g == [f EXCEPT !.pc = "compare", !.p = p, !.dummy = d, !.index = i, !.stored = table[i].key]
    <2>1. Become(g)
      BY <1>9, <1>14
    <2>2. table[i].key \in Key /\ Hash[table[i].key] = Hash[f.key]
      BY <1>9, <1>14 DEF IsActive
    <2>3. i \in 0 .. MaxSize - 1 /\ d \in Nat \cup {None}
      <3>1. d \in {None} \cup 0 .. mask
        BY <1>1, <1>6, FirstDummyFacts
      <3>. HIDE DEF d
      <3>. QED  BY <3>1, <1>1, MaskFacts
    <2>4. d # None => \E q \in 0 .. p - 1 : Walk[Hash[f.key], mask, q] = d
      BY <1>10, Zenon
    <2>. HIDE DEF d
    <2>5. g \in Frames
      BY <2>2, <2>3, <1>3, <1>7 DEF Frames
    <2>6. /\ g.pc = "compare" /\ g.key = f.key /\ g.mask = f.mask
          /\ g.dummy = d /\ g.index = i /\ g.stored = table[i].key /\ g.p = p
      BY <1>3 DEF Frames
    <2>. HIDE DEF g
    <2>7. g.dummy # None => \E q \in 0 .. g.p - 1 : Walk[Hash[g.key], g.mask, q] = g.dummy
      BY <2>4, <2>6, <1>6, Zenon
    <2>8. g.index = Walk[Hash[g.key], g.mask, g.p] /\ Hash[g.stored] = Hash[g.key]
      BY <2>2, <2>6, <1>6, <1>9, Zenon
    <2>9. Traces(g)
      BY <2>7, <2>8, Zenon DEF Traces
    <2>10. Stands(g, table, mask)
      BY <2>6 DEF Stands
    <2>. QED  BY <2>1, <2>5, <2>9, <2>10
  <1>. QED  BY <1>11, <1>12, <1>13, <1>14, Zenon

\* A comparison that left the table where it is and the key in its slot: the
\* lookup has still passed no empty slot, if it has not been there before.
LEMMA StillPasses ==
    ASSUME NEW m \in Masks, NEW t, NEW k \in Key, NEW p \in 0 .. Last, NEW i, Reach(t, m), i \in ActiveSlots(t),
           i = Walk[Hash[k], m, p], Hash[t[i].key] = Hash[k],
           \A q \in 0 .. p - 1 : Walk[Hash[k], m, q] # i
    PROVE  Passes(t, k, m, p)
  <1>1. PICK r \in 0 .. Last : Walk[Hash[t[i].key], m, r] = i /\ Passes(t, t[i].key, m, r)
    BY Zenon DEF Reach, Meets
  <1>2. Walk[Hash[k], m, r] = i /\ Passes(t, k, m, r)
    BY <1>1, Zenon DEF Passes
  <1>3. r \in 0 .. p - 1 \/ r = p \/ p \in 0 .. r - 1
    BY Order
  <1>4. CASE r \in 0 .. p - 1
    BY <1>2, <1>4, Zenon
  <1>5. CASE r = p
    BY <1>2, <1>5
  <1>6. CASE p \in 0 .. r - 1
    BY <1>2, <1>6, PassesBefore
  <1>. QED  BY <1>3, <1>4, <1>5, <1>6

LEMMA ComparedGoesOn ==
    ASSUME IInv, RInv, ComparesOnce, EmptySlotRemains, Compared
    PROVE  \E g \in Frames : Become(g) /\ Traces(g) /\ Stands(g, table, mask)
  <1>1. TableInv /\ StackInv /\ TableOk /\ mask \in Masks /\ table \in [0 .. mask -> Slots]
    BY DEF IInv, TableInv, TableOk
  <1>2. ~Rebuilds /\ stack # <<>> /\ Top.pc = "compare"
    BY DEF Compared, At
  <1>3. Top \in Frames /\ FrameOk(Top)
    BY <1>1, <1>2, TopFacts
  <1>4. Len(stack) \in 1 .. Len(stack)
    BY <1>1, <1>2 DEF StackInv
  <1>5. Traces(Top)
    BY <1>4 DEF RInv, Follows, Top
  <1>6. \A q \in 0 .. Top.p - 1 : Walk[Hash[Top.key], Top.mask, q] # Top.index
    BY <1>2, <1>4, Zenon DEF ComparesOnce, Top
  <1>7. PICK left \in IF Top.left # None /\ Reentrant THEN 0 .. MaxMerge ELSE {Top.left} :
            LET f == [Top EXCEPT !.left = left]
            IN  Become(IF Changed(f)
                         THEN [Lookup(f.op, f.key, f.value, f.left) EXCEPT !.used = f.used]
                         ELSE IF Class[f.stored] = Class[f.key]
                           THEN Ended(f, f.index, TRUE)
                           ELSE [f EXCEPT !.pc = "probe", !.index = 0, !.stored = None,
                                          !.p = IF @ = Last THEN @ - mask ELSE @ + 1])
    BY DEF Compared
  <1>. DEFINE f == [Top EXCEPT !.left = left]
  <1>8. left \in Nat \cup {None}
    BY <1>3, <1>7, DictAssumption DEF Frames
  <1>9. /\ f \in Frames /\ f.pc = "compare" /\ f.key = Top.key /\ f.op = Top.op /\ f.value = Top.value
        /\ f.mask = Top.mask /\ f.dummy = Top.dummy /\ f.index = Top.index /\ f.stored = Top.stored
        /\ f.left = left /\ f.used = Top.used /\ f.p = Top.p
    BY <1>2, <1>3, <1>8 DEF Frames
  <1>10. Become(IF Changed(f)
                  THEN [Lookup(f.op, f.key, f.value, f.left) EXCEPT !.used = f.used]
                  ELSE IF Class[f.stored] = Class[f.key]
                    THEN Ended(f, f.index, TRUE)
                    ELSE [f EXCEPT !.pc = "probe", !.index = 0, !.stored = None,
                                   !.p = IF @ = Last THEN @ - mask ELSE @ + 1])
    BY <1>7
  <1>. HIDE DEF f
  <1>11. FrameOk(f)
    BY <1>2, <1>3, <1>9 DEF FrameOk
  <1>12. /\ f.key \in Key /\ f.stored \in Key /\ f.p \in 0 .. Last
         /\ f.op \in {"set", "insert", "setdefault"} => f.value \in Value
         /\ f.op \in KeyOps \cup {"insert"} /\ f.value \in Value \cup {None} /\ f.used \in Nat
         /\ f.left \in Nat \cup {None} /\ f.index \in 0 .. f.mask
    <2>1. f.key \in Key /\ f.stored \in Key /\ (f.op \in {"set", "insert", "setdefault"} => f.value \in Value)
          /\ f.index \in 0 .. f.mask
      BY <1>9, <1>11 DEF FrameOk
    <2>2. /\ f.op \in KeyOps \cup {"insert"} /\ f.value \in Value \cup {None} /\ f.used \in Nat
          /\ f.left \in Nat \cup {None} /\ f.p \in 0 .. Last
      BY <1>9 DEF Frames
    <2>. QED  BY <2>1, <2>2
  <1>13. CASE Changed(f)
    <2>. DEFINE l == Lookup(f.op, f.key, f.value, f.left)
                g == [l EXCEPT !.used = f.used]
    <2>1. Become(g)
      BY <1>10, <1>13
    <2>2. Traces(g) /\ Stands(g, table, mask)
      BY LookupFollows
    <2>3. l \in Frames /\ FrameOk(l) /\ Fits(l, table, mask, old)
      BY <1>1, <1>2, <1>12, LookupFacts
    <2>. HIDE DEF l
    <2>4. g \in Frames
      BY <2>3, <1>12, UsedFacts
    <2>. HIDE DEF g
    <2>. QED  BY <2>1, <2>2, <2>4
  <1>14. ASSUME ~Changed(f)
         PROVE  /\ f.mask = mask /\ f.stored = table[f.index].key /\ f.index \in 0 .. mask
                /\ IsActive(table[f.index]) /\ f.index \in ActiveSlots(table)
    <2>1. f.mask = mask /\ f.stored = table[f.index].key
      BY <1>14 DEF Changed
    <2>. QED  BY <2>1, <1>1, <1>12 DEF IsActive, ActiveSlots
  <1>15. CASE ~Changed(f) /\ Class[f.stored] = Class[f.key]
    <2>1. Become(Ended(f, f.index, TRUE))
      BY <1>10, <1>15
    <2>2. Ended(f, f.index, TRUE) \in Frames
      <3>1. f.pc # "merge" /\ TRUE \in BOOLEAN
        BY <1>9
      <3>. QED  BY <3>1, <1>1, <1>2, <1>9, <1>11, <1>14, <1>15, EndedFacts
    <2>3. Traces(Ended(f, f.index, TRUE)) /\ Stands(Ended(f, f.index, TRUE), table, mask)
      BY <1>9, EndedFollows
    <2>. QED  BY <2>1, <2>2, <2>3
  <1>16. CASE ~Changed(f) /\ Class[f.stored] # Class[f.key]
    <2>1. /\ f.index = Walk[Hash[f.key], mask, f.p] /\ Hash[f.stored] = Hash[f.key]
          /\ \A q \in 0 .. f.p - 1 : Walk[Hash[f.key], mask, q] # f.index
      <3>1. f.mask = mask
        BY <1>14, <1>16
      <3>2. Top.index = Walk[Hash[Top.key], Top.mask, Top.p] /\ Hash[Top.stored] = Hash[Top.key]
        BY <1>2, <1>5, Zenon DEF Traces
      <3>. QED  BY <3>1, <3>2, <1>6, <1>9, Zenon
    <2>2. Passes(table, f.key, mask, f.p)
      <3>1. Hash[table[f.index].key] = Hash[f.key] /\ f.index \in ActiveSlots(table)
        BY <2>1, <1>14, <1>16, Zenon
      <3>2. Reach(table, mask)
        BY DEF RInv
      <3>. QED  BY <2>1, <3>1, <3>2, <1>1, <1>12, StillPasses, Zenon
    <2>3. table[Walk[Hash[f.key], mask, f.p]].key # Empty
      <3>1. table[f.index].key # Empty
        BY <1>14, <1>16, DictAssumption DEF IsActive
      <3>. QED  BY <3>1, <2>1, Zenon
    <2>4. f.p # Last
      <3>1. SUFFICES ASSUME f.p = Last PROVE FALSE
        OBVIOUS
      <3>2. PICK i \in 0 .. mask : table[i].key = Empty
        BY <1>2 DEF EmptySlotRemains
      <3>3. PICK q \in 0 .. Last : Walk[Hash[f.key], mask, q] = i
        BY <1>1, <1>12, WalkFacts, Zenon
      <3>4. q \in 0 .. f.p - 1 \/ q = f.p \/ f.p \in 0 .. q - 1
        BY <1>12, Order, Zenon
      <3>5. f.p \notin 0 .. q - 1
        <4>1. \A r \in 0 .. Last : Last \notin 0 .. r - 1
          BY SizeFacts
        <4>. QED  BY <4>1, <3>1, Zenon
      <3>6. CASE q \in 0 .. f.p - 1
        BY <2>2, <3>2, <3>3, <3>6, Zenon DEF Passes
      <3>7. CASE q = f.p
        BY <2>3, <3>2, <3>3, <3>7, Zenon
      <3>. QED  BY <3>4, <3>5, <3>6, <3>7
    <2>. DEFINE n == f.p + 1
                g == Onward(f, n)
    <2>5. /\ n \in 0 .. Last
          /\ \A q \in 0 .. n - 1 : q \in 0 .. f.p - 1 \/ q = f.p
          /\ \A q \in 0 .. f.p - 1 : q \in 0 .. n - 1
      BY <2>4, <1>12, NextPosition, Zenon
    <2>6. Become(g)
      BY <1>10, <1>16, <2>4, Zenon DEF Onward
    <2>. HIDE DEF n
    <2>7. g.pc = "probe" /\ g.key = f.key /\ g.mask = f.mask /\ g.dummy = f.dummy /\ g.p = n /\ g \in Frames
      BY <2>5, <1>9, OnwardFacts, Zenon
    <2>. HIDE DEF g
    <2>8. Passes(table, g.key, mask, g.p)
      BY <2>2, <2>3, <2>5, <2>7, Zenon DEF Passes
    <2>9. Stands(g, table, mask)
      BY <2>7, <2>8 DEF Stands
    <2>10. f.dummy # None => \E q \in 0 .. f.p - 1 : Walk[Hash[f.key], f.mask, q] = f.dummy
      <3>1. Top.pc \in {"probe", "compare"}
        BY <1>2
      <3>2. Top.dummy # None => \E q \in 0 .. Top.p - 1 : Walk[Hash[Top.key], Top.mask, q] = Top.dummy
        BY <3>1, <1>5, Zenon DEF Traces
      <3>. QED  BY <3>2, <1>9, Zenon
    <2>11. g.dummy # None => \E q \in 0 .. g.p - 1 : Walk[Hash[g.key], g.mask, q] = g.dummy
      BY <2>5, <2>7, <2>10, Zenon
    <2>12. g.pc # "compare"
      BY <2>7
    <2>13. Traces(g)
      BY <2>11, <2>12, Zenon DEF Traces
    <2>. QED  BY <2>6, <2>7, <2>9, <2>13
  <1>. QED  BY <1>13, <1>15, <1>16

LEMMA LookupGoesOn ==
    ASSUME IInv, RInv, ComparesOnce, EmptySlotRemains, Probe \/ Compared
    PROVE  RInv'
  <1>1. stack # <<>> /\ UNCHANGED tableVars
    BY DEF Probe, Compared, At
  <1>2. PICK g \in Frames : Become(g) /\ Traces(g) /\ Stands(g, table, mask)
    BY ProbeGoesOn, ComparedGoesOn
  <1>3. Stands(g, table', mask')
    BY <1>1, <1>2 DEF tableVars
  <1>4. Follows'
    BY <1>1, <1>2, <1>3, FollowsBecome DEF IInv, RInv
  <1>. QED  BY <1>1, <1>4 DEF RInv, tableVars

LEMMA NextFollows ==
    ASSUME IInv, RInv, ComparesOnce, EmptySlotRemains, [Next]_vars
    PROVE  RInv'
  <1>1. ASSUME NEW op \in Ops \cap KeyOps, NEW k \in Key, NEW v \in Value \cup {None}, Call(op, k, v)
        PROVE  RInv'
    BY <1>1, CallFollows
  <1>2. ASSUME NEW n \in 1 .. MaxMerge, CallMerge(n) PROVE RInv'
    BY <1>2, CallMergeFollows
  <1>3. ASSUME NEW op \in {"insert", "set"}, NEW k \in Key, NEW v \in Value, MergeNext(op, k, v)
        PROVE  RInv'
    BY <1>3, MergeNextFollows
  <1>4. CASE Clear
    BY <1>4, ClearFollows
  <1>5. CASE PopItem
    BY <1>5, PopItemFollows
  <1>6. CASE Probe \/ Compared
    BY <1>6, LookupGoesOn
  <1>7. CASE MergeEnd \/ Raise \/ Refused \/ FinishGet
    <2>1. stack # <<>> /\ stack' = Popped /\ UNCHANGED tableVars
      BY <1>7 DEF MergeEnd, Raise, Refused, FinishGet, Fail, At
    <2>. QED  BY <2>1, ReturnFollows
  <1>8. CASE FinishSet
    BY <1>8, SetFollows
  <1>9. CASE FinishSetDefault
    BY <1>9, SetDefaultFollows
  <1>10. CASE FinishDelete
    BY <1>10, DeleteFollows
  <1>11. CASE MoveEntry \/ EndRebuild
    BY <1>11, RebuildFollows
  <1>12. CASE UNCHANGED vars
    <2>1. UNCHANGED tableVars /\ stack' = stack
      BY <1>12 DEF vars, tableVars
    <2>. QED  BY <2>1, FollowsLeft DEF RInv, tableVars
  <1>. QED  BY <1>1, <1>2, <1>3, <1>4, <1>5, <1>6, <1>7, <1>8, <1>9, <1>10, <1>11, <1>12
            DEF Next, Code, Native

\* Whatever comparisons do to the table (stores, deletions, clears, merges,
\* rebuilds, at any depth), a live key is met by its probe before an empty
\* slot, as long as the table keeps an empty slot and no lookup compares at a
\* slot it has visited before: what __tinypy_internal_dict_lookup notices of a
\* changed table is enough then.
THEOREM KeysFoundReentrant == Spec /\ []EmptySlotRemains /\ []ComparesOnce => []KeysReachable
  <1>1. Init => RInv
    BY InitFollows
  <1>2. IInv /\ RInv /\ ComparesOnce /\ EmptySlotRemains /\ [Next]_vars => RInv'
    BY NextFollows
  <1>3. RInv => KeysReachable
    BY ReachableSays DEF RInv
  <1>. QED  BY <1>1, <1>2, <1>3, Invariant, PTL DEF Spec

==============================================================================
