# tinypy, specified

tinypy is a host-embedded Python 2.7 virtual machine and compiler in C11. This
directory holds TLA+ models of the parts of it whose correctness depends on the
order in which things happen, the TLC configurations that check them on small
instances, and TLAPS proofs for every instance. `PROJECT.json` lists the runs,
the line ranges each definition translates (`map`), a plausible bug for every
property (`mutants`), the hazards and the theorems.

    tlc -workers 2 -config MCPool_heap.cfg MCPool         # one run
    tlapm Lifetime_proofs.tla                             # the proofs of one module

A component is a module, its instances for TLC are `MC` modules with their
configurations, and its theorems are modules that extend it:

| Component | Model | Runs | Theorems |
|---|---|---|---|
| Pool | `Pool` | `MCPool` | `Pool_lemmas`, `Pool_proofs` |
| Lifetime | `Lifetime` | `MCLifetime`, `MCLifetimeChain` | `Lifetime_proofs` |
| Dict | `Dict`, `DictMap` | `MCDict` | `Dict_proofs` |
| Types | `Types` | `MCTypes` | `Types_proofs`, `Types_caches` |
| Errors and shutdown | `Diagnostics`, `Shutdown` | `MCShutdown` | `Shutdown_proofs` |
| Facts about sequences, loops and sums | | | `Collections` |

## The system

A VM (`tinypy_vm_t`) belongs to one owner thread. Nothing in it runs
concurrently. What makes it hard is *re-entry*: releasing a reference, comparing
two keys, looking up an attribute, rendering an error or clearing a weak
reference may call Python or host code, which may do anything to the objects the
C code is in the middle of changing. The other hard parts are bounds (the heap
budget, native recursion, full tables), partial failure (memory that is refused
half-way) and long sequences of calls that must keep linked structures
consistent.

| Component | State it keeps | Operations | Talks to | What makes it correct |
|---|---|---|---|---|
| Pool allocator `core/pool.c` | arenas, pools, free chains, kept pools, transient cache, byte count | allocate, checked allocate, deallocate, reallocate, trim, transient get/put, finalize | host allocator; every object | no block handed out twice, empty arenas go back, exact accounting, budget kept, refusal changes nothing |
| Object lifetime `core/value.c`, `core/weakref.c` | counts, weak reference lists, two queues, two depths | incref, decref, finalizers, resurrection, weak references and callbacks | pool, types, Python and host code | counts are the references, nothing reachable dies, nothing dead is reached, all garbage is destroyed, bounded recursion |
| Dictionary and set table `core/dict.c`, `core/set.c` | slots, mask, fill, used, embedded or allocated table | lookup, store, setdefault, delete, popitem, clear, merge, rebuild | key comparison (Python code), pool | a map; counts exact; every key reachable; every probe ends |
| Types `core/type.c`, `class.c` | bases, MRO, versions, lookup cache, memos, subclass lists, locks | lookup, assign version, modified, C3, set bases, create, die | dictionaries, finalizers, key comparisons | no cache answers what a fresh lookup would not; a failed assignment of `__bases__` leaves nothing behind |
| Errors `core/error.c` | list of errors, list of diagnostics to render | make, render, read, release, detach | `str()` of exceptions, host | each record freed once, on the right list, none left attached |
| VM shutdown `core/vm.c` | phase, graph of all values, what the pass holds | finalizer passes, sweep | lifetime, errors, native values | host finalizers once each, instances before functions, ends |
| Intern table `core/intern.c` | open-addressed weak table of strings | find, intern, unintern, resize | strings, dying strings | one interned string per value, no dying string, every probe ends |
| Generators `core/generator.c` | frame, started, running, finished | send, throw, close | evaluator, lifetime | runs once at a time, finishes once |
| Imports `runtime/import.c` | `sys.modules`, loading modules | import, reload, from-list, hooks | host resolver, evaluator | failed modules leave `sys.modules`, circular imports see the partial module |
| Evaluator, builtins, exceptions | frames, blocks, raised state | opcodes, builtin functions | everything | value semantics of Python 2.7 |
| Compiler, profiles, verifier, marshal, artifacts, text, numbers, regular expressions | transient | pure transformations | pool (arenas) | input to output, no protocol |

`PROJECT.json` lists every part under `components`, also those left out, and
under `hazards` what is hard to test in each, at its line. Hazards of parts not
yet modelled name the planned module.

## Pool: `Pool.tla`, `MCPool.tla`

A pool is `<<arena, slot>>`; `al` is the whole `tinypy_pool_allocator` with the
heap accounting of the VM: per arena the returned and the untouched pools, per
size class the list of used pools and the kept pool, the lists of unused and
usable arenas, the table size, the transient cache and `allocated_bytes`.
`live` and `large` are the callers' side: what they hold and may give back. The
addresses of blocks inside a pool are abstracted to counts (handed out, on the
free chain, never carved), because the C code finds a pool from a block by
address and nothing else. Each request computes the *set* of its outcomes, so
that a host that refuses memory at any call is a choice and not a separate
action.

The modelled code includes arenas that lose a pool to misaligned memory, the
arena table that moves as it grows, one wholly free arena retained without a
budget, empty pools kept per class, the trim of all caches when a budget takes
effect, resizing in place, and `tinypy_vm_create` and `tinypy_vm_destroy` as far
as the heap goes.

| Run | Question | Bounds |
|---|---|---|
| `pool_heap` | Is every pool in one place, do its counts match what callers hold, are kept pools counted and dropped, is the byte count exact, the budget kept, and does a refused request take nothing? | two size classes, two arenas of two pools (each has lost one to alignment), four blocks, budgets of 0, 116 and 200 bytes, a host that may refuse, small, direct, resized and transient requests |
| `pool_arenas` | Is the usable list sorted, is at most one free arena retained, does the table move only while nothing points into it? | three arenas of two or three pools, one size class, nine blocks |

A pool has three blocks of 8 bytes or two of 12, which shows every state of a
pool (untouched, partly used, full, empty, kept) and a class change; two arenas
show moves between them and the third shows sorting in the middle of the list.
The arena table has one entry and doubles, so that it moves twice; a request
that needs a new arena is made only while one of the first `MaxArenas` entries of
the table is next (`NextArena`), and callers hold fewer than `MaxLive` blocks. Without a
budget programs ask for 8, 12 and 40 bytes, with one for 12, 20 and 40: two
direct sizes make room for a resize that the budget refuses.

## Lifetime: `Lifetime.tla`, `MCLifetime.tla`, `MCLifetimeChain.tla`

The native calls of a release are frames on `stack`; the program counter of a
frame says where the release of its object is (clear weak references, call
callbacks, defer, run the next finalizer, leave it, settle, release the fields,
destroy). Python or host code runs at the outermost level and inside callbacks
and finalizers, where it may create objects, load, store and drop references,
create and read weak references, and thereby resurrect the dying object.
`ReleaseZero`, `RunFinalizer`, `LeaveFinalizer`, `Settle` and so on are the
steps between two such calls. `release_depth` and `finalizer_depth`, and the
queues that the reference count word of a deferred object links, are variables.

Abstractions: a type is one of seven kinds, which tell apart what dying depends
on; the memo of the `__del__` lookup is its result; a callback is not an object;
weak reference subclasses without a callback are ordered like those with one;
free lists count as destruction; the reference an instance has to its type is
one of its fields; the VM is live (shutdown is the module `Shutdown`).
The order in which fields are released is arbitrary, so the result holds for
every order.

| Run | Question | Bounds |
|---|---|---|
| `lifetime_programs` | Does the count equal the references, and does a weak reference ever yield a dying object, whatever programs, callbacks and finalizers do? | two objects of different kinds out of four, two variables, two weak references, the limits 1 and 2, all three symmetric |
| `lifetime_chain` | Is nothing left in a queue, is native recursion bounded, and is a long chain destroyed? | a chain of nine, every mix of two kinds, both limits 2 |

The limits are 32 and 8 in the code (`internal.h:145-146`); at 1 and 2 both queues fill
and drain with a handful of objects, nine is more than twice what the two limits
let nest. The chain run assumes that the owner thread goes on with native code
and that the code a finalizer runs returns (`ChainSpec`): a finalizer that loops
forever hangs the VM by design.

## Dict: `Dict.tla`, `DictMap.tla`, `MCDict.tla`

The table of dict and set: slots that are empty, deleted or live, probed by the
perturbed recurrence of the code. A key is a model value with a hash and a class
of equal keys; comparing one of the keys in `Slow` with another of the same hash
runs code. Operations in progress are frames on `stack`. While a comparison
runs, code may start further operations on the same table, so the outer lookup
finds the table moved, rebuilt, cleared or its slot taken, and acts on what it
remembers: the table's address and mask, the key it compared, the first deleted
slot it met, and the number of keys before it started. An allocated table has
one of two addresses, so one that is freed and allocated again may come back at
the address the lookup remembers.

`DictMap.tla` is what a dictionary promises: a map from classes of equal keys to
the first key and the last value, whose operations take effect at once or fail
without a trace. `ImplementsMap` is the refinement: the content is the live
entries, those a rebuild has still to move included.

| Run | Question | Bounds |
|---|---|---|
| `dict_map` | Is the table a map, does it keep an empty slot, does every operation end? | four keys (three in one probe, two of them equal), tables of 4 and 8 slots, comparisons that leave the table alone |
| `dict_reentrant` | Are the counts exact and all keys reachable whatever comparisons do? | three keys, one operation inside another, set, delete, clear and merge |
| `dict_full` (violated) | Does the table keep an empty slot whatever comparisons do? | four keys, set, delete and merge |
| `dict_again` (violated) | Are keys reachable when a probe comes back to a slot? | three keys, a table of 4 slots, set and clear |

The embedded table has 4 slots here and 8 in the code, and tables grow by 2 where
the code grows by 4 (2 above 50000 keys): both are CONSTANTS. With 4 slots two
keys make the table grow and shrink. Termination assumes that native code goes
on and that a comparison returns (`FairSpec`, strong fairness per nesting depth:
a comparison that does not return hangs the lookup by design).

**`dict_full` is violated: a code bug.** A store grows the table only when the
dictionary has more keys than before its lookup. If each lookup's comparison
deletes another key, that is never so, and every store still takes an empty slot.
Once none is left, looking up a missing key never returns. The comment above
`__tinypy_internal_dict_store` says that the other branch, without growth, "still
grows rather than lose its last empty slot, which ends every probe"; the growing
branch does not. A program of twenty lines (an anchor key whose `__eq__` deletes
one of three other keys at each of three stores) hangs the built interpreter.

**`dict_again` is violated: a code bug.** The probe of some hashes visits a slot
again before it has visited all of them (hash 1088: slots 0, 1, 0, 2). If the
comparison at the second visit clears the dictionary and stores that key again,
table, mask and slot look as before, so the lookup goes on instead of starting
again as the comment above it says, and passes slot 1, which is empty now. The
new key is stored in slot 2, where no lookup finds it: in the built interpreter
`k in d.keys()` is true and `k in d` is false. `dict_reentrant` shows that keys
whose probes do not come back are safe, addresses that are reused included.

Abstractions: the hash of a key is fixed; the values
released by a store or a deletion run their code after the operation; the table
a merge reads is external, and brings fewer or more entries than announced only
when a comparison ran; the version and cache counters, copies, iteration and
`swap_contents` are left out.

## Types: `Types.tla`, `MCTypes.tla`

Classes with their bases, MROs and weak subclass lists; the version of each
type, the one cache entry all names share, and the memos of `__init__` and
`__del__`; the locks an assignment of `__bases__` takes. Lookups, requests for a
version and assignments are frames on `stack`; while keys are compared, a key or
a class is released, or the bases are iterated, code may look up, change, create
and rebase types itself. C3 is stated as what its result is (`Candidate`), and
`Merge` is a pass over one record of an assignment. Withdrawing versions is the
smallest set closed under the walk of `type_modified`, which stops at a type
without a version.

| Run | Question | Bounds |
|---|---|---|
| `types_caches` | Do the caches answer what a walk would, do changes reach every type with a version, are versions unique and locks released, and does a failed assignment leave nothing? | two heap types on two built-in ones and an old-style class, one assignment of `__bases__`, one operation inside another, a version counter that wraps after 4; `Programs` checks rebasing and changes of classes apart |
| `types_finalizer` (violated) | Is `has_finalizer` what a lookup of `__del__` finds? | three classes, one that gains and loses `__del__` |
| `types_cycle` (violated) | Is a type ever derived from itself? | three classes, two assignments |

**`types_finalizer` is violated: a code bug.** The finalizer check of a dying
instance assigns `has_finalizer` whatever happened during its lookup, and only
the version conditionally. If a key comparison of that lookup stores `__del__`
in the class and lets another instance die, that one's check publishes TRUE under
the new version, and the outer one then writes FALSE beside it: instances that
die later skip their `__del__`. The comment at `value.c:320` says that the memo is
published "only when it left the type unchanged".

**`types_cycle` is violated: a code bug.** The cycle check of `__bases__` comes
before the bases are read, and bases in a tuple subclass are iterated by code of
its own. That code may make the new base derived from the type: both
assignments pass the check, and two types are derived from each other, which no
later walk over subclasses survives.

Abstractions: `mro()` overrides, metaclasses, instance layouts and slots, and the
`__new__` memo are left out; an iteration of odd bases gives the classes it has;
among records that are ready the order is free; odd tuples come from assignments
only. The next version is a counter modulo a small power where the code has 64
bits.

## Errors and shutdown: `Diagnostics.tla`, `Shutdown.tla`, `MCShutdown.tla`

`Diagnostics` is `error.c`: records on one of two doubly linked lists, whose
links are variables so that unlinking is what the code does, and the rendering
of a pending one, which runs `str()`. `Shutdown` extends it with
`tinypy_vm_destroy`: each pass collects the values of the VM, finalizes
instances, releases those, finalizes functions once no instance is left to
finalize, and the sweep frees what remains. Every finalizer, `__del__` and
`str()` is a frame, and may drop, take and create values, and raise, read and
release errors. The `fuel` of a frame bounds what its code does, and `Work` and
`Fuel` say how much.

| Run | Question | Bounds |
|---|---|---|
| `shutdown` | Are the lists and bytes of errors exact, is a record kept while it renders, does every finalizer run once, in order, does nothing refer to the VM at its end, and does it end? | three instances, one with `__del__`, a function, two errors, two passes (8 in the code), one activation inside another |

Two passes show both exits of the loop (settled, and given up). Termination
assumes that code that runs returns and that `tinypy_vm_destroy` goes on
(`WF_vars(Code \/ Destroy)`): a finalizer that never returns hangs the VM by
design; that the loops end although each finalizer may make new values is what
the run shows.

Abstractions: the runtime's own native instances; references between values;
`native_finalizable_created` is whether it changed since the pass began; errors
made once the VM runs no code (rendered at once); refused memory for records and
messages; the program before `vm_destroy` is an initial state, with an unread
diagnostic or none. A value may take the name of one that was freed.

## What is proved

Forty-one theorems and the lemmas they rest on, in eight modules, all checked by
TLAPS to the last leaf. Each
safety invariant and each action property that a passing run checks is a theorem,
for every value of the constants, with two exceptions: `StackBounded`, which is
no theorem (see below), and the properties of `Dict` and `Types` that are theorems
under a hypothesis the table names.

`Pool_proofs.tla` (with `Pool_lemmas.tla`) proves, for any sizes of pools, arenas,
headers and blocks that `PoolAssumption` allows, any number of arenas, any budgets
and any host:

| Theorem | Statement |
|---|---|
| `Invariant` | `Spec => []PoolInv`, on which the others rest |
| `TypeCorrect` | `Spec => []TypeOk` |
| `OnePlace` | `Spec => []PoolsInOnePlace`: a carved pool is on its arena's free list or on the list of its class, once |
| `HeldCounted` | `Spec => []BlocksHeldAreCounted`: a pool counts the blocks its callers have, and stays in its arena as long as there is one |
| `KeptCounted`, `KeptHoldNoArena` | `Spec => []KeptPoolsCounted`, `[]KeptPoolsHoldNoArena`: an empty pool is kept or off its list, and kept pools alone never keep an arena from the host |
| `ArenasOrdered`, `FreeArenaAlone` | `Spec => []UsableArenasOrdered`, `[]OneFreeArena`: the usable arenas are those with a free pool, the fullest first, and at most one is wholly free |
| `ExactBytes` | `Spec => []BytesExact`: `allocated_bytes` is what exists |
| `CheckedInBudget`, `RefusalFree` | `Spec => CheckedStaysInBudget`, `RefusalTakesNothing` |
| `TableMovesSafely` | `Spec => TableMovesUnreferenced`: the arena table moves only while no list points into it |

`PoolInv` says that the heap *serves* its callers: every pool's count is what the
callers hold of it, the bytes that are neither table, arena nor cache are those of
the direct blocks, and the heap is `Settled`. `Settled` has a part for each
structure (`ArenaOk`, `PoolOk`, `UsedOk`, `KeptOk`, `TableOk`, the order of the
usable list) and the three policies (empty pools are kept, kept pools hold no
arena, nothing is retained under a budget). The policies have a parameter, the set
of pools or arenas that are excused: in the middle of a deallocation the pool at
hand is empty and not yet kept, or its arena is free and not yet returned, and
the lemma about each helper says whom it excuses before and after. `bytes` alone
would not be inductive: what a deallocation subtracts depends on whether it
returns an arena. Loops of the C code (moving an arena along the list, releasing kept
pools) are recursive functions of the model; `LoopRuns` of `Collections.tla` gives their
result from a predicate each turn keeps, by taking the least number of turns at
which it could fail. Sums over pools and blocks are handled the same way
(`SumRecursion`, `SumChanges`). That the sizes programs ask for are finitely many
is an assumption (`PoolAssumption`): the direct blocks are a sum over them.

`Lifetime_proofs.tla` proves, for any number of objects, variables and weak
references and any limits (the finalizer limit above 1):

| Theorem | Statement |
|---|---|
| `TypeCorrect` | `Spec => []TypeOk` |
| `CountsCorrect` | `Spec => []ReferencesCounted`: the count of every object that no queue or release holds is the number of references to it |
| `WeakrefsCorrect` | `Spec => []WeakrefsReachUsable`: a weak reference never yields an object whose destruction can no longer be undone |
| `NothingStrandedCorrect` | `Spec => []NothingStranded`: when the outermost release has returned, both queues are empty and no object is half destroyed |
| `BasicWeakrefsCorrect` | `Spec => []BasicWeakrefsFirst`: an object's shared reference and shared proxy are at the head of its list, one of each |
| `DepthsCorrect` | `Spec => []DepthsBalanced`: both depths return to zero with the outermost release |
| `Invariance` | `Spec => []IInv`, on which the others rest |

`ReferencesCounted` is not inductive: whether a count drops to zero correctly
depends on where the object is, so `IInv` adds `FramesOk` (at each program
counter the object of a frame has the life that counter implies, and no object
has two frames), `QueuesOk` (a queued object is in one queue, once, and in no
frame), `WeakrefsOk` (weak lists have no duplicates and refer to their object)
and `DepthsOk` (a history of depths, one for each frame, from which leaving a
frame restores them). There is one lemma per action; `StepOk` combines them.

`NothingStranded` needs to know who will empty a queue. `Awaited` says that a
queue that is not empty has a frame that drains it (one that releases contents
for the releases, one at or behind a finalizer for the finalizations), that a
dying object has a frame and that a queued one is in a queue. An object is
deferred only where a depth has reached its limit, and `DepthsWitnessed` shows
that a depth above zero is the work of a frame further out: that frame is the
one that drains the queue. `BasicWeakrefsFirst` follows from `ListsOk`, about every
entry of every list; `BehindPlace` says what is behind the place of a new one.
The assumptions are those of `LifetimeAssumption`: finite sets, a `None` that is
neither an object nor a kind of weak reference, positive limits, and a finalizer
limit of at least 2, without which the outermost finalizer would defer again what
it takes from the queue.

`Dict_proofs.tla` proves, for any keys and hashes, any table sizes and growth,
any set of operations and any depth of operations nested in key comparisons:

| Theorem | Statement |
|---|---|
| `Invariant` | `Spec => []IInv`, on which the others rest |
| `TypeCorrect` | `Spec => []TypeOk`: among others, the slot that `popitem`, a store or a rebuild takes exists |
| `CountsCorrect` | `Spec => []CountsExact`: `used` and `fill` are what a recount of the table would say |
| `KeysFound` | `~Reentrant => (Spec => []KeysReachable)` |
| `EmptySlotKept` | `~Reentrant => (Spec => []EmptySlotRemains)` |
| `MapImplemented` | `~Reentrant => (Spec => ImplementsMap)`: each step of the table is an operation of the map of `DictMap` or a stutter |
| `KeysFoundReentrant` | `Spec /\ []EmptySlotRemains /\ []ComparesOnce => []KeysReachable` |

`CountsExact` alone is not inductive: a store relies on the slot its lookup left
behind, and a rebuild on having room. `IInv` adds `RebuildOk` (the new table has
no deleted slots and more slots than there are entries, moved and unmoved) and
`FramesOk` (a lookup that is running or has just ended knows the table there is
now, and a slot it found is live; a lookup in a comparison knows only that its
slots are of the table it started with; below the innermost frame there are
comparisons only). `PutAdded` to `PutDeleted` say what writing one slot does to
the two counts, `StoreFacts`, `DeletedFacts`, `StartRebuildFacts`,
`MoveEntryFacts` and `EndRebuildFacts` what each change of the table keeps, and
`PushFacts`, `TopReplaced` and `PopFacts` the same for the stack; there is then one
lemma per action. The assumptions are `DictAssumption` and `WalkAssumption`: a
probe visits every slot, a fact of `5 * i + 1` modulo a power of two that is true
of hashes of up to 65 bits and that TLC evaluates for the sizes it runs with.

`~Reentrant` is a VM whose comparisons only read the table (every built-in key
does). `QInv` then says of the table that no two live entries are equal, those a
rebuild has still to move included, that every key is reachable and that a slot is
empty; and of every lookup in progress that the slots it has passed are neither
empty nor hold an equal key, that the deleted slot it remembers is not live and on its
probe, and that one that ended without a key knows that there is none. The
refinement maps every step to a step of `Map` with these facts: a store that finds
no key is an insertion because there is none.

Without that hypothesis `KeysReachable` is false (`dict_again`) and so is
`EmptySlotRemains` (`dict_full`). `KeysFoundReentrant` says that these two are all
that can go wrong: whatever comparisons do, at any depth, keys are reachable as
long as an empty slot remains and no lookup compares at a slot it has been at
before (`ComparesOnce`). The argument is why the code's check of a changed table
suffices. After a comparison the lookup goes on only if the mask is the same and
the compared key is still in the slot. The table may be another one, but that key
was stored where its own probe meets the slot, and its hash, hence its probe, is
that of the lookup: no slot before it is empty. The invariant (`Follows`) is about
comparisons at every depth: each knows its position in its probe, and what it
remembers lies before it. The check of the table's address turns out not to be
needed for this. Both hypotheses hold in every state of the run `dict_reentrant`,
where hashes are such that no probe comes back.

`Types_proofs.tla` proves, for any hierarchy, names, programs and counter width:

| Theorem | Statement |
|---|---|
| `VersionsUnique` | `Spec => []VersionsNameOneState`: no version is given out twice while a type, a cache entry or a memo has it |
| `CacheKeyOwned` | `Spec => []EntryKeyHeld`: the key of the cache entry is the cache's |
| `LocksReleased` | `Spec => []LocksOwned`: a locked type is locked by an assignment in progress |
| `FailureUndone` | `Spec => FailedAssignmentUndone`: a failed assignment of `__bases__` restores bases, MROs and locks |

`VInv` says that versions differ and lie below the next one; it needs no fact
about hierarchies, since withdrawing only removes versions. `LInv` relates each
assignment on the stack to the locks it owns (`FrameOk`): a type it has locked
either still has the MRO it remembers or has it in its record. Steps that leave
assignments alone are `Quiet`, and one lemma covers them all; the others have a
lemma each.

`Types_caches.tla` goes on from these:

| Theorem | Statement |
|---|---|
| `Typed` | `Spec => []TypeOk`: bases, MROs, lists of subclasses, locks and frames are about types that exist |
| `ChangesAreSeen` | `Registers => (Spec => []ChangesReach)`: a change to a class withdraws the version of every type that has the class in its MRO |
| `AnswersAreCurrent` | `Registers => (Spec => []CachesCurrent)`: while a type has its version, the lookup cache and the memo of `__init__` answer what a walk would find |

`ChangesReach` relates the MRO of a type to lists of subclasses that may be
several bases away, and between them types may have no version, be in the middle
of an assignment, or have an MRO of their own. `RInv` says where the two agree: a
type that a base does not list has no version (`Listing`), an MRO that is trusted
comes from those of the bases (`Following`, with the old MRO of a type that an
assignment has already changed), and a type with a version got it after its bases
got theirs, so that theirs are lower (`Ordered`). Bases here are those whose lists
are right, during an assignment those it replaces (`Kept`). A type with a version
that a change does not reach would, by `Following`, have a base with the class in
its MRO, a version and a lower one, which it does not reach either; the least of
those versions contradicts itself (`Reaches`). `CInv` adds what a lookup in
progress knows: as long as the version it started with stands, it walks the
current MRO and has passed no class that has the name (`WalksCurrent`), so that what it
publishes is right whatever its comparisons ran (`EntryCurrent`, `MemosCurrent`).

`Registers` says that registration with the bases is refused memory only in a
hierarchy where no type has two different types among its bases, which includes
that of the run. It is needed; without it the code is wrong. Let `A` be a
class and the list of subclasses of `D` be refused memory when `A.__bases__` becomes
`(P, D)`: the new bases stay, the assignment fails, and `A` is marked as having an
MRO of its own, hence no versions. If then `P.__bases__` is assigned, the types
that `P` lists have their MROs installed again, `A` among them, and the mark is
removed (`refresh_classic_mro`, `type.c:1810`). `A` gets a version although `D` does not
list it, and a change to `D` leaves what is cached of `A` in place. The comment at
`type.c:1831` says otherwise: "A base that does not list the type would not withdraw
its version, so no cache keeps its lookups until a later assignment registers it."
With a single base only an assignment to `A` itself removes the mark, and that one
registers `A`: any other would have to reach `A` through the base that does not list it.

`Shutdown_proofs.tla` proves, for any values, errors, programs and number of passes:

| Theorem | Statement |
|---|---|
| `ListsCorrect` | `Spec => []ListsSound`: the two lists hold exactly the attached records, linked both ways, each on the list its exception selects |
| `RenderingSafe` | `Spec => []RenderingKept`: a record that renders is not freed |
| `BytesExactlyCounted` | `Spec => []BytesCounted` |
| `TypeCorrect` | `Spec => []TypeOk`: the host holds no freed record, no byte count goes below zero, a pass holds only values it collected |
| `FinalizersRunOnce` | `Spec => []FinalizedOnce` |
| `SweepFinalized` | `Spec => []SweptFinalized`: only what the last pass left behind is swept without its finalizer |
| `FunctionsLast` | `Spec => InstancesFirst`: functions are finalized after the instances |
| `VmForgotten` | `Spec => []NothingRefersToVm` |

The invariant has a part for each concern: `ErrorsInv` (the lists are linked both
ways and founded: any set of records on them has one whose previous record is not
in the set, so that every record is reached from a head), `RendersInv` (a record
that renders has no exception any more), `ValuesInv` and `PassInv` (what each phase
of a pass has done to the values it holds), and `FramesInv` (a value that is being
finalized has one frame, and a dying one is not held by the pass). `DueInv` (a
value the pass has not reached, or will deal with later, is accounted for), `GoneInv`,
`BytesInv` and `TypesInv` rest on these; `BytesInv` gives that the count stays a
natural number, `TypesInv` that a record the host released is marked or freed.

`Collections.tla` holds the facts about sequences, stacks, loops and sums that
several of these modules use.

Only model-checked, and why:

- `ChainReclaimed`, `OperationsEnd` and `Destroyed`: liveness under fairness, and
  with it ENABLED, is outside the prover.
- `StackBounded`: a property of the chain program. Arbitrary programs nest
  callbacks in releases as deep as they like, so it is no theorem of `Spec`.
- `KeysReachable`, `EmptySlotRemains` and the refinement beyond the hypotheses
  above: the runs `dict_full` and `dict_again` refute them.
- `ChangesReach` and `CachesCurrent` without `Registers`: see above.

## Plan

The components below come next, in this order.

1. `Import` - `sys.modules` through failing, circular and nested imports; and
   `Generator` - one that re-enters, finishes and is closed.
2. `Intern` - probes, deleted slots and weak entries.
3. Iteration over a container that changes, and the list emptied while it is
   sorted.

## Not modelled, and why

The evaluator's opcodes, builtins, text, numbers, regular expressions, marshal
and the compiler are functions from data to data; their state space is the data,
and the repository checks them against CPython. The bytecode verifier is a
candidate for a later model. Cycle diagnostics exist in debug builds only and
change nothing a program sees. The command line is a host of the library.
