-------------------------------- MODULE Dict --------------------------------
(***************************************************************************)
(* The hash table of dict and set (src/core/dict.c): open addressing with  *)
(* deleted slots, a table embedded in the object and larger allocated      *)
(* ones.  Comparing a key may run Python code, which may use or change     *)
(* the table in the middle of a lookup.                                    *)
(*                                                                         *)
(* The operations in progress are the frames of `stack`, the innermost     *)
(* last: code runs at the outermost level and while a key is compared.     *)
(* What code a store or a deletion runs by releasing a value runs once the *)
(* operation is done, as code at its own level.                            *)
(***************************************************************************)
EXTENDS Integers, Sequences, FiniteSets

CONSTANTS
    Key, Value, None,
    Empty, Dummy,   \* the keys of a slot never used and of a deleted one
    Hash, Class,    \* the hash of each key, and what it is equal to
    Slow,           \* the keys whose comparison runs code
    Ops,            \* the operations code uses
    Small, Addr,    \* where a table is: in the object, or allocated
    MinSize,        \* TINYPY_DICT_MIN_SIZE
    Growth,         \* how much larger than its keys a table grows: 4, then 2
    MaxSize,        \* bound: the largest table
    MaxDepth,       \* bound: operations nested in key comparisons
    MaxMerge,       \* bound: the entries a merge expects, and brings
    Reentrant       \* whether the code a comparison runs changes this table

Sizes == {n \in 1 .. MaxSize : \E i \in 0 .. MaxSize : n = MinSize * 2 ^ i}
Masks == {n - 1 : n \in Sizes}

\* A probe is followed up to here: after 13 steps the bits of a hash are used
\* up, and what is left goes round through every slot.
Last == 13 + 2 * MaxSize

Hashes == {Hash[k] : k \in Key}

\* The slots a probe visits, one after the other: the bits of the hash come in
\* five at a time.
Perturb[h \in Hashes, p \in 0 .. Last] ==
    IF p = 0 THEN h ELSE Perturb[h, p - 1] \div 32

ProbeNext[h \in Hashes, m \in Masks, p \in 0 .. Last] ==
    IF p = 0 THEN h % (m + 1)
             ELSE (5 * ProbeNext[h, m, p - 1] + 1 + Perturb[h, p - 1]) % (m + 1)

Walk == [h \in Hashes, m \in Masks, p \in 0 .. Last |-> ProbeNext[h, m, p]]

ASSUME DictAssumption ==
    /\ IsFiniteSet(Key) /\ {Empty, Dummy, None} \cap Key = {}
    /\ Empty # Dummy /\ Empty # None /\ Dummy # None
    /\ None \notin [key : Key, value : Value]
    /\ Hash \in [Key -> Nat]
    /\ \A k, l \in Key : Class[k] = Class[l] => Hash[k] = Hash[l]
    /\ Slow \subseteq Key
    /\ Ops \subseteq {"get", "set", "setdefault", "delete", "merge", "clear", "popitem"}
    /\ Small \notin Addr
    /\ MinSize \in Nat /\ MaxSize \in Nat /\ MinSize \in Sizes /\ Growth \in Nat \ {0}
    /\ MaxDepth \in Nat /\ MaxMerge \in Nat
    /\ Reentrant \in BOOLEAN

\* A probe visits every slot.
ASSUME WalkAssumption ==
    \A h \in Hashes, m \in Masks : {Walk[h, m, p] : p \in 0 .. Last} = 0 .. m

VARIABLES
    table, mask, fill, used, \* the slots, and how many are not empty, live
    home,                    \* where the table is
    finger,                  \* the hash field of slot 0
    old, next,               \* the table a rebuild moves from, and its next slot
    stack,                   \* the operations in progress
    answer                   \* the operation that took effect last, as its caller sees it

tableVars == <<table, mask, fill, used, home, finger, old, next>>
vars == <<table, mask, fill, used, home, finger, old, next, stack, answer>>

-----------------------------------------------------------------------------
(* Slots and probes.                                                       *)

Free           == [key |-> Empty, value |-> None]
Deleted        == [key |-> Dummy, value |-> None]
Entry(k, v)    == [key |-> k, value |-> v]
IsActive(e)    == e.key \in Key
ActiveSlots(t) == {i \in DOMAIN t : IsActive(t[i])}
EmptyTable(m)  == [i \in 0 .. m |-> Free]

\* Both of one exact built-in type, compared without running code.
Quick(k, l)    == {k, l} \cap Slow = {}

\* The first free slot of a table without deleted slots.
CleanSlot(t, h, m) ==
    Walk[h, m, CHOOSE p \in 0 .. Last : /\ ~IsActive(t[Walk[h, m, p]])
                                        /\ \A q \in 0 .. p - 1 : IsActive(t[Walk[h, m, q]])]

\* The smallest table that holds more than n keys.
Capacity(n) == CHOOSE c \in Sizes : c > n /\ \A d \in Sizes : d > n => c <= d
Bounded(n)  == \E c \in Sizes : c > n

-----------------------------------------------------------------------------
(* Operations in progress.                                                 *)

Top       == stack[Len(stack)]
Rebuilds  == old # <<>>
At(pc)    == stack # <<>> /\ Top.pc = pc /\ ~Rebuilds
Become(f) == stack' = [stack EXCEPT ![Len(stack)] = f]
Popped    == SubSeq(stack, 1, Len(stack) - 1)
CodeRuns  == ~Rebuilds /\ (stack = <<>> \/ At("compare"))
CanCall   == CodeRuns /\ Len(stack) < MaxDepth
CanChange == stack = <<>> \/ Reentrant

\* The operations on one key, which start with a lookup.
KeyOps == {"get", "set", "setdefault", "delete"}

\* A lookup as it starts: what it remembers of the table.
Lookup(op, k, v, left) ==
    [op |-> op, key |-> k, value |-> v, pc |-> "probe", p |-> 0, dummy |-> None,
     index |-> 0, stored |-> None, found |-> FALSE, home |-> home, mask |-> mask, used |-> used, left |-> left]

\* The lookup is over: nothing of it is remembered but its result.
Ended(f, i, found) ==
    [f EXCEPT !.pc = "ended", !.index = i, !.found = found, !.p = 0, !.dummy = None, !.stored = None,
              !.home = Small, !.mask = 0]

\* The operation of f returns; a merge goes on with its next entry.
Merging(left) ==
    [op |-> "insert", key |-> None, value |-> None, pc |-> "merge", p |-> 0, dummy |-> None,
     index |-> 0, stored |-> None, found |-> FALSE, home |-> Small, mask |-> 0, used |-> 0, left |-> left]
Done(f) == IF f.left # None THEN Append(Popped, Merging(f.left)) ELSE Popped

Answer(op, k, r) == answer' = [op |-> op, key |-> k, result |-> r]
Quiet == answer' = None

\* An operation fails, the table being as it was; a failed merge stops.
Fail == stack' = Popped /\ Answer("error", None, None)

-----------------------------------------------------------------------------
(* Code at the outermost level or called by a comparison.                  *)

Call(op, k, v) ==
    /\ CanCall /\ (op = "get" \/ CanChange)
    /\ v = None <=> op \in {"get", "delete"}
    /\ stack' = Append(stack, Lookup(op, k, v, None))
    /\ Quiet /\ UNCHANGED tableVars

\* The new table, at another address than the one it replaces, and empty at
\* first; the small one is emptied in place.
StartRebuild(t, cap) ==
    /\ home' \in IF cap = MinSize THEN {Small} ELSE Addr \ {home}
    /\ table' = EmptyTable(cap - 1) /\ mask' = cap - 1 /\ finger' = 0
    /\ old' = t /\ next' = 0

\* Merging another table, or the keys of a set: the table is resized once
\* for the entries expected.
CallMerge(n) ==
    LET min == (used + n) * 2
    IN  /\ CanCall /\ CanChange /\ "merge" \in Ops /\ n > 0
        /\ Quiet /\ UNCHANGED <<fill, used>>
        /\ \/ /\ \/ (fill + n) * 3 < (mask + 1) * 2
                 \/ Bounded(min) /\ Capacity(min) = MinSize /\ home = Small /\ fill = used
              /\ stack' = Append(stack, Merging(n))
              /\ UNCHANGED <<table, mask, home, finger, old, next>>
           \/ /\ (fill + n) * 3 >= (mask + 1) * 2 /\ Bounded(min)
              /\ ~(Capacity(min) = MinSize /\ home = Small /\ fill = used)
              /\ stack' = Append(stack, Merging(n))
              /\ StartRebuild(table, Capacity(min))

\* The entries come from another table.  The update of a set by a dictionary
\* lets the table grow again.
MergeNext(op, k, v) ==
    /\ At("merge") /\ Top.left > 0
    /\ Become(Lookup(op, k, v, Top.left - 1))
    /\ Quiet /\ UNCHANGED tableVars

MergeEnd ==
    /\ At("merge")
    /\ stack' = Popped
    /\ Quiet /\ UNCHANGED tableVars

\* mutant: the table is reset to its small size, but not to the small table
Clear_KeepsHome ==
    /\ CanCall /\ CanChange /\ "clear" \in Ops /\ ~(home = Small /\ fill = 0)
    /\ table' = EmptyTable(MinSize - 1) /\ mask' = MinSize - 1
    /\ fill' = 0 /\ used' = 0 /\ finger' = 0
    /\ Answer("clear", None, None)
    /\ UNCHANGED <<home, old, next, stack>>

\* tinypy_dict_clear also drops a table that only holds deleted slots.
Clear ==
    /\ CanCall /\ CanChange /\ "clear" \in Ops /\ ~(home = Small /\ fill = 0)
    /\ table' = EmptyTable(MinSize - 1) /\ mask' = MinSize - 1
    /\ home' = Small /\ fill' = 0 /\ used' = 0 /\ finger' = 0
    /\ Answer("clear", None, None)
    /\ UNCHANGED <<old, next, stack>>

\* The slot popitem takes: slot 0 when it is live, else the first live one
\* from where the last search ended.
PopSlot ==
    LET live  == ActiveSlots(table)
        start == IF finger \in 1 .. mask THEN finger ELSE 1
        after == {i \in live : i >= start}
        least(s) == CHOOSE i \in s : \A j \in s : i <= j
    IN  IF 0 \in live THEN 0 ELSE least(IF after # {} THEN after ELSE live)

PopItem ==
    /\ CanCall /\ CanChange /\ "popitem" \in Ops /\ used > 0
    /\ table' = [table EXCEPT ![PopSlot] = Deleted]
    /\ used' = used - 1
    /\ finger' = PopSlot + 1
    /\ Answer("pop", table[PopSlot].key, table[PopSlot].value)
    /\ UNCHANGED <<mask, fill, home, old, next, stack>>

-----------------------------------------------------------------------------
(* __tinypy_internal_dict_lookup.                                          *)

\* mutant: a lookup goes on in a table that the comparison replaced by one of
\* the same size
Changed_SizeOnly(f) == mask # f.mask

\* mutant: the probe starts again while the key compared is still there
Changed_Inverted(f) == home # f.home \/ mask # f.mask \/ table[f.index].key = f.stored

\* Whether the comparison replaced the table that the lookup reads, or the key
\* it compared.
Changed(f) == home # f.home \/ mask # f.mask \/ table[f.index].key # f.stored

\* mutant: a deleted slot ends the probe
Stops_AtDummy(f, p) ==
    LET e == table[Walk[Hash[f.key], f.mask, p]]
    IN  \/ e.key \in {Empty, Dummy, f.key}
        \/ IsActive(e) /\ Hash[e.key] = Hash[f.key] /\ ~(Quick(e.key, f.key) /\ Class[e.key] # Class[f.key])

\* Where a probe stops: at an empty slot, at the key itself, at an equal one,
\* or at one with the same hash that only code can compare.
Stops(f, p) ==
    LET e == table[Walk[Hash[f.key], f.mask, p]]
    IN  \/ e.key \in {Empty, f.key}
        \/ IsActive(e) /\ Hash[e.key] = Hash[f.key] /\ ~(Quick(e.key, f.key) /\ Class[e.key] # Class[f.key])

\* The first deleted slot among those the probe visited before position p.
FirstDummy(f, p) ==
    LET slot(q) == Walk[Hash[f.key], f.mask, q]
        dummies == {q \in f.p .. p - 1 : table[slot(q)].key = Dummy}
    IN  IF f.dummy # None \/ dummies = {} THEN f.dummy
        ELSE slot(CHOOSE q \in dummies : \A r \in dummies : q <= r)

\* The probe goes on to its next stop.  A missing key reports the first
\* deleted slot, which a comparison may have filled since.
Probe ==
    /\ At("probe")
    /\ \E p \in Top.p .. Last :
        LET f     == Top
            i     == Walk[Hash[f.key], f.mask, p]
            e     == table[i]
            dummy == FirstDummy(f, p)
        IN  /\ Stops(f, p) /\ \A q \in f.p .. p - 1 : ~Stops(f, q)
            /\ Become(IF ~IsActive(e)
                        THEN IF dummy = None THEN Ended(f, i, FALSE)
                                             ELSE Ended(f, dummy, IsActive(table[dummy]))
                        ELSE IF e.key = f.key \/ Quick(e.key, f.key)
                               THEN Ended(f, i, TRUE)
                               ELSE [f EXCEPT !.pc = "compare", !.p = p, !.dummy = dummy,
                                         !.index = i, !.stored = e.key])
    /\ Quiet /\ UNCHANGED tableVars

\* The comparison raises, or compares the keys: the probe starts again when
\* its code replaced the table or the key compared.  It may also have changed
\* the table that a merge takes its entries from.
Raise == At("compare") /\ Fail /\ UNCHANGED tableVars

Compared ==
    /\ At("compare")
    /\ \E left \in IF Top.left # None /\ Reentrant THEN 0 .. MaxMerge ELSE {Top.left} :
       LET f == [Top EXCEPT !.left = left]
       IN  Become(IF Changed(f)
                    THEN [Lookup(f.op, f.key, f.value, f.left) EXCEPT !.used = f.used]
                    ELSE IF Class[f.stored] = Class[f.key]
                      THEN Ended(f, f.index, TRUE)
                      \* The probe of a full table goes round.
                      ELSE [f EXCEPT !.pc = "probe", !.index = 0, !.stored = None,
                                     !.p = IF @ = Last THEN @ - mask ELSE @ + 1])
    /\ Quiet /\ UNCHANGED tableVars

-----------------------------------------------------------------------------
(* What an operation does with the slot its lookup found.                  *)

\* What a store into slot i makes of the table, as the slot is now: a live
\* entry there, filled in by a comparison, only takes the new value.
Added(i)     == ~IsActive(table[i])
UsedAfter(i) == IF Added(i) THEN used + 1 ELSE used
FillAfter(i) == IF table[i].key = Empty THEN fill + 1 ELSE fill

\* mutant: the table grows once it is full
Grows_Late(i, before, grow) == UsedAfter(i) > before /\ FillAfter(i) > mask + 1

\* A table that gained keys since `before` stays a third empty; a merge, which
\* does not grow the table, keeps its last empty slot.
Grows(i, before, grow) ==
    IF grow THEN UsedAfter(i) > before /\ FillAfter(i) * 3 >= (mask + 1) * 2
            ELSE FillAfter(i) > mask

\* mutant: the slot that the lookup reported free is taken without a look
Store_AssumesFree(i, before, grow) ==
    /\ ~Grows(i, before, grow)
    /\ table' = [table EXCEPT ![i] = Entry(Top.key, Top.value)]
    /\ used' = used + 1
    /\ fill' = FillAfter(i)
    /\ finger' = IF i = 0 THEN Hash[Top.key] ELSE finger
    /\ UNCHANGED <<mask, home, old, next>>

\* __tinypy_internal_dict_store
Store(i, before, grow) ==
    LET min    == UsedAfter(i) * Growth
        stored == [table EXCEPT ![i] = Entry(IF Added(i) THEN Top.key ELSE @.key, Top.value)]
    IN  /\ used' = UsedAfter(i)
        /\ fill' = FillAfter(i)
        /\ IF Grows(i, before, grow)
             THEN Bounded(min) /\ StartRebuild(stored, Capacity(min))
             ELSE /\ table' = stored
                  /\ finger' = IF i = 0 /\ Added(i) THEN Hash[Top.key] ELSE finger
                  /\ UNCHANGED <<mask, home, old, next>>

\* A larger table is allocated before anything is stored: refused, it leaves
\* the dictionary as it was.
Refused ==
    /\ At("ended")
    /\ LET f == Top
           i == f.index
       IN  /\ \/ f.op \in {"set", "insert"} /\ ~(f.found /\ used = f.used) /\ Grows(i, f.used, f.op = "set")
              \/ f.op = "setdefault" /\ ~f.found /\ Grows(i, used, TRUE)
           /\ Bounded(UsedAfter(i) * Growth) => Capacity(UsedAfter(i) * Growth) # MinSize
    /\ Fail /\ UNCHANGED tableVars

FinishGet ==
    /\ At("ended") /\ Top.op = "get"
    /\ Answer("get", Top.key, IF Top.found THEN table[Top.index].value ELSE None)
    /\ stack' = Popped
    /\ UNCHANGED tableVars

\* __tinypy_internal_dict_insert: a found key only takes the new value while
\* the dictionary has as many keys as before the lookup.
FinishSet ==
    /\ At("ended") /\ Top.op \in {"set", "insert"}
    /\ IF Top.found /\ used = Top.used
         THEN /\ table' = [table EXCEPT ![Top.index].value = Top.value]
              /\ UNCHANGED <<mask, fill, used, home, finger, old, next>>
         ELSE Store(Top.index, Top.used, Top.op = "set")
    /\ stack' = Done(Top)
    /\ Answer("set", Top.key, Top.value)

FinishSetDefault ==
    /\ At("ended") /\ Top.op = "setdefault"
    /\ IF Top.found
         THEN /\ Answer("setdefault", Top.key, table[Top.index].value)
              /\ UNCHANGED tableVars
         ELSE /\ Store(Top.index, used, TRUE)
              /\ Answer("setdefault", Top.key, Top.value)
    /\ stack' = Popped

FinishDelete ==
    /\ At("ended") /\ Top.op = "delete"
    /\ IF Top.found
         THEN /\ table' = [table EXCEPT ![Top.index] = Deleted]
              /\ used' = used - 1
              /\ Answer("delete", Top.key, table[Top.index].value)
              /\ UNCHANGED <<mask, fill, home, finger, old, next>>
         ELSE /\ Answer("delete", Top.key, None)
              /\ UNCHANGED tableVars
    /\ stack' = Popped

\* dictresize moves the live entries in table order; the new table then holds
\* no deleted slots.
MoveEntry ==
    /\ Rebuilds /\ next <= Cardinality(DOMAIN old) - 1
    /\ LET e == old[next]
           i == CleanSlot(table, Hash[e.key], mask)
       IN  IF IsActive(e)
             THEN /\ table' = [table EXCEPT ![i] = e]
                  /\ finger' = IF i = 0 THEN Hash[e.key] ELSE finger
             ELSE UNCHANGED <<table, finger>>
    /\ next' = next + 1
    /\ Quiet /\ UNCHANGED <<mask, fill, used, home, old, stack>>

EndRebuild ==
    /\ Rebuilds /\ next = Cardinality(DOMAIN old)
    /\ old' = <<>> /\ next' = 0 /\ fill' = used
    /\ Quiet /\ UNCHANGED <<table, mask, used, home, finger, stack>>

-----------------------------------------------------------------------------
Init ==
    /\ table = EmptyTable(MinSize - 1) /\ mask = MinSize - 1
    /\ fill = 0 /\ used = 0 /\ home = Small /\ finger = 0
    /\ old = <<>> /\ next = 0
    /\ stack = <<>> /\ answer = None

Code ==
    \/ \E op \in Ops \cap KeyOps, k \in Key, v \in Value \cup {None} : Call(op, k, v)
    \/ \E n \in 1 .. MaxMerge : CallMerge(n)
    \/ Clear
    \/ PopItem
    \/ Compared
    \/ Raise

Native ==
    \/ Probe
    \/ Refused
    \/ FinishGet
    \/ FinishSet
    \/ FinishSetDefault
    \/ FinishDelete
    \/ MoveEntry
    \/ EndRebuild
    \/ \E op \in {"insert", "set"}, k \in Key, v \in Value : MergeNext(op, k, v)
    \/ MergeEnd

Next == Code \/ Native

Spec == Init /\ [][Next]_vars

\* The thread goes on with native code, and the code a comparison calls, at
\* any depth, returns.
Fairness ==
    /\ WF_vars(Native)
    /\ \A d \in 1 .. MaxDepth : SF_vars(Len(stack) = d /\ (Compared \/ Raise))

FairSpec == Spec /\ Fairness

-----------------------------------------------------------------------------
(* Properties.                                                             *)

Slots == [key : Key, value : Value] \cup {Free, Deleted}

Frames == [op : KeyOps \cup {"insert"}, key : Key \cup {None}, value : Value \cup {None},
           pc : {"probe", "compare", "ended", "merge"}, p : 0 .. Last,
           dummy : Nat \cup {None}, index : 0 .. MaxSize - 1, stored : Key \cup {None}, found : BOOLEAN,
           home : Addr \cup {Small}, mask : Nat, used : Nat, left : Nat \cup {None}]

\* The type invariant of the table and of the operations in progress.
TypeOk ==
    /\ mask \in Masks
    /\ table \in [0 .. mask -> Slots]
    /\ fill \in Nat /\ used \in Nat
    /\ home \in Addr \cup {Small} /\ (home = Small <=> mask = MinSize - 1)
    /\ finger \in Nat
    /\ next \in Nat
    /\ stack \in Seq(Frames)

\* The entries that a rebuild has still to move.
Unmoved == {i \in DOMAIN old : i >= next /\ IsActive(old[i])}

\* used counts the live entries and fill the slots that are not empty,
\* whatever comparisons do to the table between a lookup and its store.
CountsExact ==
    /\ used = Cardinality(ActiveSlots(table)) + Cardinality(Unmoved)
    /\ Rebuilds \/ fill = Cardinality({i \in 0 .. mask : table[i].key # Empty})

\* The probe of a stored key meets it before an empty slot: no store, however
\* stale its lookup, and no rebuild puts a key where lookups do not find it.
\* It holds for keys whose probes do not return to a slot before they have
\* visited all; for the others the code breaks it (run dict_again).
KeysReachable ==
    \A i \in ActiveSlots(table) :
        \E p \in 0 .. Last :
            /\ Walk[Hash[table[i].key], mask, p] = i
            /\ \A q \in 0 .. p - 1 : table[Walk[Hash[table[i].key], mask, q]].key # Empty

\* The table keeps an empty slot, which ends every probe.
EmptySlotRemains == Rebuilds \/ \E i \in 0 .. mask : table[i].key = Empty

\* Every operation ends.
OperationsEnd == []<>(stack = <<>>)

\* The entries, those that a rebuild has still to move included.
Entries == {table[i] : i \in ActiveSlots(table)} \cup {old[i] : i \in Unmoved}
Content == [c \in {Class[k] : k \in Key} |->
               LET same == {e \in Entries : Class[e.key] = c}
               IN  IF same = {} THEN None ELSE CHOOSE e \in same : TRUE]

Map == INSTANCE DictMap WITH content <- Content

\* While comparisons leave it alone, the table is a map: each operation takes
\* effect in one step, or fails and changes nothing.
ImplementsMap == Map!Spec
=============================================================================
