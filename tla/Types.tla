------------------------------- MODULE Types -------------------------------
(***************************************************************************)
(* New-style classes (src/core/type.c): bases, method resolution orders,   *)
(* the weak lists of subclasses, the version of each type, the cache of    *)
(* attribute lookups and the memos that trust a version.                   *)
(*                                                                         *)
(* A version says that nothing a lookup depends on has changed since it    *)
(* was given out.  A change withdraws it from the type and from the types  *)
(* derived from it.  Comparing keys in a lookup, iterating new bases and    *)
(* finalizing what an assignment of __bases__ releases run code, which may *)
(* look up, change, create and rebase types itself.  The operations under  *)
(* way are the frames of `stack`, the innermost last.                      *)
(*                                                                         *)
(* A name a class defines has a value of its own, named by the class: a    *)
(* value that is replaced is one that is deleted and stored again, which   *)
(* withdraws versions in the same way.  All names share one cache entry.   *)
(***************************************************************************)
EXTENDS Naturals, Sequences, FiniteSets

CONSTANTS
    Heap,           \* the types a program creates
    Static,         \* the built-in types, all derived from Root
    Root,           \* object
    Classic,        \* old-style classes
    Keys,           \* names
    InitKey,        \* __init__
    DelKey,         \* __del__
    NoClass, NoKey,
    StartBases,     \* the bases of the types there are at the start, or <<>>
    StartMro,       \* their method resolution orders
    StartDefs,      \* the names classes define at the start
    NewBases,       \* the tuples of bases a program gives each type
    Sites,          \* the classes and names a program defines or deletes
    Uses,           \* the types it looks names up in, and why: "plain", "init", "fin"
    Refused,        \* what memory may be refused to: "list", "subclass"
    MaxVersion,     \* the largest version: 2^64 - 1
    MaxDepth        \* bound: operations inside one another

Types == Heap \cup Static
Classes == Types \cup Classic
Members(s) == {s[i] : i \in DOMAIN s}

\* The orders of a set of classes.
Arrangements(u) ==
    {s \in [1 .. Cardinality(u) -> u] : \A i, j \in DOMAIN s : s[i] = s[j] => i = j}

\* Nothing is left before x in the sequences, the classes `taken` being gone.
Free(x, seqs, taken) ==
    \A r \in Members(seqs) : \A p, q \in DOMAIN r : p < q /\ r[q] = x => r[p] \in taken

\* The merge takes x next: the head of the first sequence that has a free one.
Candidate(x, seqs, taken) ==
    \E k \in DOMAIN seqs :
        /\ x \in Members(seqs[k]) \ taken /\ Free(x, seqs, taken)
        /\ \A l \in 1 .. k - 1 : \A y \in Members(seqs[l]) \ taken : ~Free(y, seqs, taken)

\* The MRO C3 gives type t for the bases bs, whose orders are ms: the only
\* element, or none when the bases conflict or have a duplicate.
C3(t, bs, ms) ==
    LET seqs == Append(ms, bs)
        all  == UNION {Members(r) : r \in Members(seqs)}
    IN  {<<t>> \o s : s \in {r \in Arrangements(all) :
            /\ Len(bs) = Cardinality(Members(bs))
            /\ \A i \in DOMAIN r : Candidate(r[i], seqs, {r[j] : j \in 1 .. i - 1})}}

Bases(t) == IF t \in Static THEN (IF t = Root THEN <<>> ELSE <<Root>>) ELSE StartBases[t]
Order(t) == IF t \in Static THEN (IF t = Root THEN <<Root>> ELSE <<t, Root>>) ELSE StartMro[t]

ASSUME TypesAssumption ==
    /\ IsFiniteSet(Classes) /\ Root \in Static
    /\ Heap \cap Static = {} /\ Types \cap Classic = {} /\ NoClass \notin Classes
    /\ InitKey \in Keys /\ DelKey \in Keys /\ InitKey # DelKey /\ NoKey \notin Keys
    /\ StartDefs \subseteq [Classes -> SUBSET Keys]
    /\ Sites \subseteq Classes \X Keys
    /\ Uses \subseteq Types \X {"plain", "init", "fin"}
    /\ MaxVersion \in Nat \ {0} /\ MaxDepth \in Nat
    /\ {StartBases, StartMro} \subseteq [Heap -> Seq(Classes)]
    /\ \A t \in Heap :
          /\ NewBases[t] \subseteq Seq(Classes) \ {<<>>}
          /\ StartBases[t] = <<>> => StartMro[t] = <<>>
          /\ \A c \in (Members(StartBases[t]) \cup Members(StartMro[t])) \cap Heap :
                StartBases[c] # <<>>
    /\ \A t \in Heap : StartBases[t] # <<>> =>
          /\ StartMro[t] \in C3(t, StartBases[t],
                 [i \in DOMAIN StartBases[t] |->
                     IF StartBases[t][i] \in Classic THEN <<StartBases[t][i]>>
                                                     ELSE Order(StartBases[t][i])])

VARIABLES
    live,       \* the types that exist
    bases, mro, \* of each type
    odd,        \* the types whose bases are in a tuple subclass with code of its own
    subs,       \* the subclasses each type lists, through weak references
    defs,       \* the names each class defines
    custom,     \* has_custom_mro: no cache follows these types
    rebasing,   \* rebasing_mro: the MRO is to be checked before a version
    lock,       \* bases_updating: the type whose __bases__ assignment it is in
    done,       \* the types in an assignment that have their new MRO
    old,        \* the MRO and the flag such a type goes back to
    version, next,  \* of each type, and the next one to give out; 0 is none
    listed,     \* the types whose MRO has old-style classes, with versions
    entry,      \* the cache entry of lookups
    held,       \* the keys the cache owns a reference to
    init,       \* constructor_init and its version
    fin,        \* has_finalizer and its version
    stack

hierarchy == <<live, bases, odd, mro, subs>>
locks == <<lock, done, old>>
versions == <<version, next, listed>>
cache == <<entry, held>>
memos == <<init, fin>>
vars == <<hierarchy, defs, custom, rebasing, locks, versions, cache, memos, stack>>

None == [version |-> 0, value |-> NoClass]
NoMro == [mro |-> <<>>, custom |-> FALSE]

Top == stack[Len(stack)]
Below == SubSeq(stack, 1, Len(stack) - 1)
Push(f) == stack' = Append(stack, f)
Pop == stack' = Below
Become(f) == stack' = Append(Below, f)
AtTop(op, step) == stack # <<>> /\ Top.op = op /\ Top.step = step

\* Where code runs: at the outermost level, while keys are compared, as a key
\* or a class is released, and in the iteration of the bases that are merged.
CodeRuns == stack # <<>> => Top.step \in {"walk", "release", "compute", "undo", "finish"}
MayCall == CodeRuns /\ Len(stack) < MaxDepth

(***************************************************************************)
(* Versions                                                                *)
(***************************************************************************)

\* The types a change to t reaches from t: the subclasses it lists and, for a
\* built-in type, the built-in types derived from it.
Derived(t) ==
    subs[t] \cup (IF t \in Static THEN {s \in Static : t \in Members(mro[s])} ELSE {})

Versioned == {t \in Types : version[t] # 0}
Closed(c) == \A t \in c : Derived(t) \cap Versioned \subseteq c

\* The types that lose their version when t changes: the walk from t stops at
\* types without one.
Withdrawn(t) ==
    LET reached == {c \in SUBSET Versioned : t \in c /\ Closed(c)}
    IN  {s \in Versioned : t \in Versioned /\ \A c \in reached : s \in c}

Without(w) == [t \in Types |-> IF t \in w THEN 0 ELSE version[t]]

\* A change to a class, of either kind.
Modified(c) ==
    /\ next' = next
    /\ IF c \in Classic
       THEN version' = Without(UNION {Withdrawn(t) : t \in listed}) /\ listed' = {}
       ELSE version' = Without(Withdrawn(c)) /\ listed' = listed

\* Every type of the MRO but the first is in the MRO of a base.
Follows(t) ==
    \A i \in 2 .. Len(mro[t]) : mro[t][i] \in Types =>
        \E b \in Members(bases[t]) \cap Types : mro[t][i] \in Members(mro[b])

Locked(t) == t \in Heap /\ lock[t] # NoClass
Eligible(t) == version[t] = 0 /\ t \notin custom /\ ~Locked(t)
Unversioned(t) == {i \in DOMAIN bases[t] : bases[t][i] \in Types /\ version[bases[t][i]] = 0}
FirstBase(t) == bases[t][CHOOSE i \in Unversioned(t) : \A j \in Unversioned(t) : i <= j]
Wants(t) == [op |-> "version", step |-> "ask", type |-> t, asked |-> NoClass]

\* assign_version of the type on top asks its bases for versions in turn.
AskBase ==
    /\ AtTop("version", "ask")
    /\ Eligible(Top.type) /\ Unversioned(Top.type) # {}
    /\ FirstBase(Top.type) # Top.asked
    /\ stack' = Append(Append(Below, [Top EXCEPT !.asked = FirstBase(Top.type)]),
                       Wants(FirstBase(Top.type)))
    /\ UNCHANGED <<hierarchy, defs, custom, rebasing, locks, versions, cache, memos>>

\* No version: the type has no MRO to rely on, or one of its bases got none.
RefuseVersion ==
    /\ AtTop("version", "ask")
    /\ \/ ~Eligible(Top.type)
       \/ Unversioned(Top.type) # {} /\ FirstBase(Top.type) = Top.asked
    /\ Pop
    /\ UNCHANGED <<hierarchy, defs, custom, rebasing, locks, versions, cache, memos>>

Ready(t) == Eligible(t) /\ Unversioned(t) = {}

\* The MRO has types its bases do not have: the caches never follow it.
DistrustMro ==
    /\ AtTop("version", "ask") /\ Ready(Top.type)
    /\ Top.type \in rebasing /\ ~Follows(Top.type)
    /\ rebasing' = rebasing \ {Top.type}
    /\ custom' = custom \cup {Top.type}
    /\ Pop
    /\ UNCHANGED <<hierarchy, defs, locks, versions, cache, memos>>

HasClassic(t) == Members(mro[t]) \cap Classic # {}

\* mutant: the counter starts again.
Counted_Reused(n) == IF n = MaxVersion THEN 1 ELSE n + 1

\* The version counter wraps around to 0, and stays there.
Counted(n) == IF n = 0 THEN 0 ELSE (n + 1) % (MaxVersion + 1)

GiveVersion ==
    /\ AtTop("version", "ask") /\ Ready(Top.type)
    /\ Top.type \in rebasing => Follows(Top.type)
    /\ rebasing' = rebasing \ {Top.type}
    /\ \/ /\ listed' = IF HasClassic(Top.type) THEN listed \cup {Top.type} ELSE listed
          /\ version' = [version EXCEPT ![Top.type] = next]
          /\ next' = Counted(next)
       \/ /\ "list" \in Refused /\ HasClassic(Top.type) /\ Top.type \notin listed
          /\ UNCHANGED versions
    /\ Pop
    /\ UNCHANGED <<hierarchy, defs, custom, locks, cache, memos>>

(***************************************************************************)
(* Lookups                                                                 *)
(***************************************************************************)

\* What a lookup without a cache finds: the first class of an MRO with the name.
Find(m, k) ==
    LET at == {i \in DOMAIN m : k \in defs[m[i]]}
    IN  IF at = {} THEN NoClass ELSE m[CHOOSE i \in at : \A j \in at : i <= j]

KeyOf(use, k) == CASE use = "init" -> InitKey [] use \in {"fin", "has"} -> DelKey [] OTHER -> k

Looks(t, use, k) ==
    [op |-> "lookup", step |-> "start", type |-> t, use |-> use, key |-> KeyOf(use, k),
     version |-> 0, mro |-> <<>>, at |-> 0, found |-> NoClass]

\* A lookup asks for a version first, unless the type has one.
Asking(f) == IF version[f.type] = 0 THEN <<f, Wants(f.type)>> ELSE <<f>>

\* The finalizer check of a dying instance trusts its memo when it says no.
NoFinalizer(t) == version[t] # 0 /\ fin[t].version = version[t] /\ ~fin[t].has

Lookup(t, use, k) ==
    /\ MayCall /\ t \in live
    /\ use = "fin" => ~NoFinalizer(t)
    /\ stack' = stack \o Asking(Looks(t, use, k))
    /\ UNCHANGED <<hierarchy, defs, custom, rebasing, locks, versions, cache, memos>>

\* What the caller of a lookup that began under version v does with the value.
\* The finalizer check keeps the answer in any case, and its version only when
\* the lookup left the type unchanged; creating or rebasing a type keeps the
\* answer ("has") and leaves the version alone.
Publish(t, use, v, value) ==
    /\ init' = IF use = "init" /\ version[t] = v
               THEN [init EXCEPT ![t] = [version |-> v, value |-> value]] ELSE init
    /\ fin' = IF use \in {"fin", "has"}
              THEN [fin EXCEPT ![t] =
                       [has |-> value # NoClass,
                        version |-> IF use = "fin" /\ version[t] = v THEN v ELSE @.version]]
              ELSE fin

Hit(t, k) ==
    version[t] # 0 /\ entry.version = version[t] /\ entry.type = t /\ entry.key = k

\* The constructor's memo, or the cache entry, answers.
AnswerAtOnce ==
    /\ AtTop("lookup", "start")
    /\ LET t == Top.type IN
       \/ /\ Top.use = "init" /\ version[t] # 0 /\ init[t].version = version[t]
          /\ UNCHANGED memos
       \/ /\ ~(Top.use = "init" /\ version[t] # 0 /\ init[t].version = version[t])
          /\ Hit(t, Top.key)
          /\ Publish(t, Top.use, version[t], entry.value)
    /\ Pop
    /\ UNCHANGED <<hierarchy, defs, custom, rebasing, locks, versions, cache>>

\* Otherwise the walk holds the MRO there is now, to its end.
StartWalk ==
    /\ AtTop("lookup", "start")
    /\ LET t == Top.type IN
       /\ ~(Top.use = "init" /\ version[t] # 0 /\ init[t].version = version[t])
       /\ ~Hit(t, Top.key)
       /\ Become([Top EXCEPT !.step = "walk", !.version = version[t], !.mro = mro[t], !.at = 1])
    /\ UNCHANGED <<hierarchy, defs, custom, rebasing, locks, versions, cache, memos>>

ProbeMiss ==
    /\ AtTop("lookup", "walk")
    /\ Top.at < Len(Top.mro) /\ Top.key \notin defs[Top.mro[Top.at]]
    /\ Become([Top EXCEPT !.at = @ + 1])
    /\ UNCHANGED <<hierarchy, defs, custom, rebasing, locks, versions, cache, memos>>

\* The probe that ends the walk, and what it found.
Ends == Top.key \in defs[Top.mro[Top.at]] \/ Top.at = Len(Top.mro)
Probed == IF Top.key \in defs[Top.mro[Top.at]] THEN Top.mro[Top.at] ELSE NoClass

Cacheable == Top.version # 0 /\ version[Top.type] = Top.version

\* The cache keeps nothing: there was no version, or the walk changed the type.
EndUncached ==
    /\ AtTop("lookup", "walk") /\ Ends /\ ~Cacheable
    /\ Publish(Top.type, Top.use, Top.version, Probed)
    /\ Pop
    /\ UNCHANGED <<hierarchy, defs, custom, rebasing, locks, versions, cache>>

Filled(f, value) ==
    [version |-> f.version, type |-> f.type, key |-> f.key, value |-> value]

\* The keys the cache owns once the entry holds k and the key before is released.
HeldWith(k) == (held \ {entry.key}) \cup {k}

\* mutant: the version is the one after the walk.
EndCached_LateVersion ==
    /\ AtTop("lookup", "walk") /\ Ends /\ version[Top.type] # 0
    /\ entry' = Filled([Top EXCEPT !.version = version[Top.type]], Probed)
    /\ held' = HeldWith(Top.key)
    /\ Publish(Top.type, Top.use, Top.version, Probed) /\ Pop
    /\ UNCHANGED <<hierarchy, defs, custom, rebasing, locks, versions>>

\* mutant: the key is released before the entry is filled.
EndCached_ReleasesFirst ==
    /\ AtTop("lookup", "walk") /\ Ends /\ Cacheable
    /\ held' = HeldWith(Top.key)
    /\ IF entry.key \in {NoKey, Top.key}
       THEN entry' = Filled(Top, Probed) /\ Publish(Top.type, Top.use, Top.version, Probed) /\ Pop
       ELSE Become([Top EXCEPT !.step = "release", !.found = Probed]) /\ UNCHANGED <<entry, memos>>
    /\ UNCHANGED <<hierarchy, defs, custom, rebasing, locks, versions>>

\* The entry is complete before the key it replaces is released, whose finalizer
\* check may look up through the same entry.
EndCached ==
    /\ AtTop("lookup", "walk") /\ Ends /\ Cacheable
    /\ entry' = Filled(Top, Probed)
    /\ held' = HeldWith(Top.key)
    /\ IF entry.key \in {NoKey, Top.key}
       THEN Publish(Top.type, Top.use, Top.version, Probed) /\ Pop
       ELSE Become([Top EXCEPT !.step = "release", !.found = Probed]) /\ UNCHANGED memos
    /\ UNCHANGED <<hierarchy, defs, custom, rebasing, locks, versions>>

KeyReleased ==
    /\ AtTop("lookup", "release")
    /\ Publish(Top.type, Top.use, Top.version, Top.found)
    /\ Pop
    /\ UNCHANGED <<hierarchy, defs, custom, rebasing, locks, versions, cache>>

(***************************************************************************)
(* Changes to a class, creation and death                                  *)
(***************************************************************************)

\* A class defines or deletes a name.
ChangeDict(c, k) ==
    /\ CodeRuns
    /\ c \in live \cup Classic
    /\ defs' = [defs EXCEPT ![c] = IF k \in @ THEN @ \ {k} ELSE @ \cup {k}]
    /\ Modified(c)
    /\ UNCHANGED <<hierarchy, custom, rebasing, locks, cache, memos, stack>>

OrderOf(c) == IF c \in Classic THEN <<c>> ELSE mro[c]
Orders(bs) == [i \in DOMAIN bs |-> OrderOf(bs[i])]

\* refresh_classic_mro: what the MRO m of t says about the caches.
Custom(t, m, was) == was \/ (Members(m) \ {t}) \cap custom # {}
\* mutant: a MRO computed during an assignment is trusted.
Rebasing_Trusted(m, strange) == strange

Rebasing(m, strange) == strange \/ \E c \in Members(m) : Locked(c)

Flagged(s, t, on) == IF on THEN s \cup {t} ELSE s \ {t}

\* A new class.  Its bases list it before the lookup of __del__ that ends its
\* creation gives it a version.
Create(t, bs) ==
    /\ MayCall
    /\ t \notin live
    /\ Members(bs) \subseteq live \cup Classic
    /\ \E m \in C3(t, bs, Orders(bs)) :
          /\ mro' = [mro EXCEPT ![t] = m]
          /\ custom' = Flagged(custom, t, Custom(t, m, FALSE))
          /\ rebasing' = Flagged(rebasing, t, Rebasing(m, FALSE))
    /\ live' = live \cup {t}
    /\ bases' = [bases EXCEPT ![t] = bs]
    /\ subs' = [b \in Types |-> IF b \in Members(bs) THEN subs[b] \cup {t} ELSE subs[b]]
    /\ stack' = stack \o <<Looks(t, "has", DelKey), Wants(t)>>
    /\ UNCHANGED <<odd, defs, locks, versions, cache, memos>>

\* What keeps a class alive: classes, MROs being replaced, and operations.
Mentioned(f) ==
    IF f.op = "bases" THEN {f.type} \cup Members(f.before) \cup UNION {Members(m) : m \in Members(f.orders)}
    ELSE IF f.op = "lookup" THEN {f.type} \cup Members(f.mro) ELSE {f.type}

Referenced(t) ==
    \/ \E s \in live \ {t} : t \in Members(bases[s]) \cup Members(mro[s])
    \/ \E s \in Heap : lock[s] # NoClass /\ (t = s \/ t \in Members(old[s].mro))
    \/ \E i \in DOMAIN stack : t \in Mentioned(stack[i])

\* mutant: the bases still list the class.
Die_Listed(t) ==
    /\ CodeRuns
    /\ t \in live \cap Heap /\ ~Referenced(t)
    /\ live' = live \ {t}
    /\ bases' = [bases EXCEPT ![t] = <<>>]
    /\ mro' = [mro EXCEPT ![t] = <<>>]
    /\ version' = [version EXCEPT ![t] = 0]
    /\ UNCHANGED <<odd, subs, defs, custom, rebasing, locks, next, listed, cache, memos, stack>>

\* The last reference to a class goes.  A later class may have its address.
Die(t) ==
    /\ CodeRuns
    /\ t \in live \cap Heap /\ ~Referenced(t)
    /\ live' = live \ {t}
    /\ bases' = [bases EXCEPT ![t] = <<>>]
    /\ odd' = odd \ {t}
    /\ mro' = [mro EXCEPT ![t] = <<>>]
    /\ subs' = [b \in Types |-> IF b = t THEN {} ELSE subs[b] \ {t}]
    /\ defs' = [defs EXCEPT ![t] = {}]
    /\ custom' = custom \ {t}
    /\ rebasing' = rebasing \ {t}
    /\ version' = [version EXCEPT ![t] = 0]
    /\ listed' = listed \ {t}
    /\ init' = [init EXCEPT ![t] = None]
    /\ fin' = [fin EXCEPT ![t] = [version |-> 0, has |-> FALSE]]
    /\ UNCHANGED <<locks, next, cache, stack>>

(***************************************************************************)
(* Assigning __bases__                                                     *)
(***************************************************************************)

\* The descendants the lists of subclasses lead to from a set of types.
Descendants(s) ==
    LET closed == {c \in SUBSET Types : s \subseteq c /\ \A t \in c : subs[t] \subseteq c}
    IN  {d \in Types : \A c \in closed : d \in c}

Records(t) == {d \in Heap : lock[d] = t}

Recorded(s, t) ==
    /\ lock' = [d \in Heap |-> IF d \in s THEN t ELSE lock[d]]
    /\ old' = [d \in Heap |-> IF d \in s THEN [mro |-> mro[d], custom |-> FALSE] ELSE old[d]]

\* A base may not be derived from the type, as far as its MRO shows.
Cyclic(t, b) == b = t \/ (b \in Types /\ t \in Members(mro[b]))

SetBases(t, bs, strange) ==
    /\ MayCall
    /\ t \in live /\ bs # bases[t]
    /\ lock[t] = NoClass
    /\ Members(bs) \subseteq live \cup Classic
    /\ \A b \in Members(bs) : ~Cyclic(t, b)
    /\ \A d \in Descendants({t}) : ~Locked(d)
    /\ Recorded(Descendants({t}), t)
    /\ bases' = [bases EXCEPT ![t] = bs]
    /\ odd' = Flagged(odd, t, strange)
    /\ Push([op |-> "bases", step |-> "scan", type |-> t, before |-> bases[t], odd |-> t \in odd,
             current |-> NoClass, orders |-> <<>>, todo |-> {},
             was |-> [d \in Descendants({t}) |-> mro[d]]])
    /\ UNCHANGED <<live, mro, subs, defs, custom, rebasing, done, versions, cache, memos>>

Waiting(t) == Records(t) \ done
InTurn(t) == {r \in Waiting(t) : Members(bases[r]) \cap Waiting(t) = {}}

\* Record r gets the MRO m.
Install(r, m) ==
    /\ old' = [old EXCEPT ![r].custom = r \in custom]
    /\ mro' = [mro EXCEPT ![r] = m]
    /\ Modified(r)
    /\ custom' = Flagged(custom, r, Custom(r, m, FALSE))
    /\ rebasing' = Flagged(rebasing, r, Rebasing(m, r \in odd))
    /\ done' = done \cup {r}

Merges(r) == C3(r, bases[r], Orders(bases[r]))

\* The next record whose bases have their new MROs gets its own.
Merge ==
    /\ AtTop("bases", "scan")
    /\ \E r \in InTurn(Top.type) \ odd : \E m \in Merges(r) : Install(r, m)
    /\ UNCHANGED <<live, bases, odd, subs, defs, lock, cache, memos, stack>>

\* Bases in a tuple subclass are iterated by its code, after their MROs were read.
StartMerge ==
    /\ AtTop("bases", "scan")
    /\ \E r \in InTurn(Top.type) \cap odd :
          Become([Top EXCEPT !.step = "compute", !.current = r, !.orders = Orders(bases[r])])
    /\ UNCHANGED <<hierarchy, defs, custom, rebasing, locks, versions, cache, memos>>

EndMerge ==
    /\ AtTop("bases", "compute")
    /\ \E m \in C3(Top.current, bases[Top.current], Top.orders) : Install(Top.current, m)
    /\ Become([Top EXCEPT !.step = "scan", !.current = NoClass, !.orders = <<>>])
    /\ UNCHANGED <<live, bases, odd, subs, defs, lock, cache, memos>>

\* Subclasses that code created meanwhile from an MRO being replaced.
Late(t) == Descendants(Records(t)) \ Records(t)

RecordLate ==
    /\ AtTop("bases", "scan") /\ Waiting(Top.type) = {}
    /\ Late(Top.type) # {} /\ \A d \in Late(Top.type) : ~Locked(d)
    /\ Recorded(Late(Top.type), Top.type)
    /\ UNCHANGED <<hierarchy, defs, custom, rebasing, done, versions, cache, memos, stack>>

\* An iteration that raises, bases in conflict, records that wait for each other,
\* a late subclass in another assignment, or no memory for its record.
Fail ==
    /\ \/ AtTop("bases", "compute")
       \/ AtTop("bases", "scan") /\ \E r \in InTurn(Top.type) \ odd : Merges(r) = {}
       \/ AtTop("bases", "scan") /\ Waiting(Top.type) # {} /\ InTurn(Top.type) = {}
       \/ AtTop("bases", "scan") /\ Waiting(Top.type) = {} /\ Late(Top.type) # {}
    /\ bases' = [bases EXCEPT ![Top.type] = Top.before]
    /\ odd' = Flagged(odd, Top.type, Top.odd)
    /\ Become([Top EXCEPT !.step = "undo", !.current = NoClass, !.orders = <<>>])
    /\ UNCHANGED <<live, mro, subs, defs, custom, rebasing, locks, versions, cache, memos>>

\* mutant: the type itself keeps its new MRO.
Undo_Descendants ==
    /\ AtTop("bases", "undo")
    /\ \E r \in Records(Top.type) \cap done :
          /\ mro' = IF r # Top.type THEN [mro EXCEPT ![r] = old[r].mro] ELSE mro
          /\ Modified(r)
          /\ done' = done \ {r}
    /\ UNCHANGED <<live, bases, odd, subs, defs, custom, rebasing, lock, old, cache, memos, stack>>

\* A record gets its MRO back; the new one is released.
Undo ==
    /\ AtTop("bases", "undo")
    /\ \E r \in Records(Top.type) \cap done :
          /\ mro' = [mro EXCEPT ![r] = old[r].mro]
          /\ Modified(r)
          /\ custom' = Flagged(custom, r, Custom(r, old[r].mro, old[r].custom))
          /\ rebasing' = Flagged(rebasing, r, Rebasing(old[r].mro, r \in odd))
          /\ done' = done \ {r}
    /\ UNCHANGED <<live, bases, odd, subs, defs, lock, old, cache, memos, stack>>

\* mutant: a type without a new MRO stays locked.
Unlocked_Done(t) ==
    /\ lock' = [d \in Heap |-> IF lock[d] = t /\ d \in done THEN NoClass ELSE lock[d]]
    /\ old' = [d \in Heap |-> IF lock[d] = t THEN NoMro ELSE old[d]]
    /\ done' = done \ Records(t)

Unlocked(t) ==
    /\ lock' = [d \in Heap |-> IF lock[d] = t THEN NoClass ELSE lock[d]]
    /\ old' = [d \in Heap |-> IF lock[d] = t THEN NoMro ELSE old[d]]
    /\ done' = done \ Records(t)

EndUndo ==
    /\ AtTop("bases", "undo") /\ Records(Top.type) \cap done = {}
    /\ Unlocked(Top.type)
    /\ Pop
    /\ UNCHANGED <<hierarchy, defs, custom, rebasing, versions, cache, memos>>

\* All have their MROs: the bases left no longer list the type, and the new ones
\* do.  A base that cannot list it keeps the caches from following the type.
Rebase ==
    /\ AtTop("bases", "scan") /\ Waiting(Top.type) = {} /\ Late(Top.type) = {}
    /\ LET t == Top.type
           bs == bases[t]
           new == Members(bs) \cap Types
           Full(n) == "subclass" \in Refused /\ bs[n + 1] \in Types /\ t \notin subs[bs[n + 1]]
       IN \E n \in {m \in 0 .. Len(bs) : m < Len(bs) => Full(m)} :
             /\ subs' = [b \in Types |->
                            IF \E i \in 1 .. n : b = bs[i] THEN subs[b] \cup {t}
                            ELSE IF b \in Members(Top.before) \ new THEN subs[b] \ {t} ELSE subs[b]]
             /\ custom' = IF n < Len(bs) THEN custom \cup {t} ELSE custom
             /\ Modified(t)
    /\ Become([Top EXCEPT !.step = "finish", !.todo = Records(Top.type)])
    /\ UNCHANGED <<live, bases, odd, mro, defs, rebasing, locks, cache, memos>>

\* has_finalizer of each record is looked up again.
RefreshRecord ==
    /\ AtTop("bases", "finish")
    /\ \E r \in Top.todo :
          stack' = Append(Below, [Top EXCEPT !.todo = @ \ {r}]) \o Asking(Looks(r, "has", DelKey))
    /\ UNCHANGED <<hierarchy, defs, custom, rebasing, locks, versions, cache, memos>>

EndRebase ==
    /\ AtTop("bases", "finish") /\ Top.todo = {}
    /\ Unlocked(Top.type)
    /\ Pop
    /\ UNCHANGED <<hierarchy, defs, custom, rebasing, versions, cache, memos>>

(***************************************************************************)
(* Specification                                                           *)
(***************************************************************************)

Init ==
    /\ live = Static \cup {t \in Heap : StartBases[t] # <<>>}
    /\ bases = [t \in Types |-> Bases(t)]
    /\ mro = [t \in Types |-> Order(t)]
    /\ subs = [t \in Types |-> {s \in Heap : t \in Members(StartBases[s])}]
    /\ defs \in StartDefs
    /\ odd = {} /\ custom = {} /\ rebasing = {} /\ done = {} /\ listed = {} /\ held = {}
    /\ lock = [t \in Heap |-> NoClass]
    /\ old = [t \in Heap |-> NoMro]
    /\ version = [t \in Types |-> 0] /\ next = 1
    /\ entry = [version |-> 0, type |-> NoClass, key |-> NoKey, value |-> NoClass]
    /\ init = [t \in Types |-> None]
    /\ fin = [t \in Types |-> [version |-> 0, has |-> FALSE]]
    /\ stack = <<>>

Next ==
    \/ AskBase \/ RefuseVersion \/ DistrustMro \/ GiveVersion
    \/ \E u \in Uses, k \in Keys : k = KeyOf(u[2], k) /\ Lookup(u[1], u[2], k)
    \/ AnswerAtOnce \/ StartWalk \/ ProbeMiss \/ EndUncached \/ EndCached \/ KeyReleased
    \/ \E s \in Sites : ChangeDict(s[1], s[2])
    \/ \E t \in Heap : \E bs \in NewBases[t] : Create(t, bs)
    \/ \E t \in Heap, strange \in BOOLEAN : \E bs \in NewBases[t] : SetBases(t, bs, strange)
    \/ \E t \in Heap : Die(t)
    \/ Merge \/ StartMerge \/ EndMerge \/ RecordLate \/ Fail \/ Undo \/ EndUndo
    \/ Rebase \/ RefreshRecord \/ EndRebase

Spec == Init /\ [][Next]_vars

(***************************************************************************)
(* Properties                                                              *)
(***************************************************************************)

Seqs(s, n) == UNION {[1 .. m -> s] : m \in 0 .. n}

\* Types of the variables; there is an MRO for each type that exists, and the
\* operations on the stack are about such types.
TypeOk ==
    /\ Static \subseteq live /\ live \subseteq Types
    /\ \A t \in Types : /\ DOMAIN bases[t] = 1 .. Len(bases[t]) /\ Members(bases[t]) \subseteq live \cup Classic
                        /\ DOMAIN mro[t] = 1 .. Len(mro[t]) /\ Members(mro[t]) \subseteq live \cup Classic
                        /\ t \in live <=> mro[t] # <<>>
    /\ subs \in [Types -> SUBSET (live \cap Heap)]
    /\ defs \in [Classes -> SUBSET Keys]
    /\ odd \subseteq live \cap Heap /\ custom \subseteq live \cap Heap /\ rebasing \subseteq live \cap Heap
    /\ lock \in [Heap -> live \cup {NoClass}] /\ done \subseteq {t \in Heap : lock[t] # NoClass}
    /\ version \in [Types -> 0 .. MaxVersion] /\ next \in 0 .. MaxVersion
    /\ listed \subseteq live
    /\ entry \in [version : 0 .. MaxVersion, type : Types \cup {NoClass},
                   key : Keys \cup {NoKey}, value : Classes \cup {NoClass}]
    /\ held \subseteq Keys
    /\ init \in [Types -> [version : 0 .. MaxVersion, value : Classes \cup {NoClass}]]
    /\ fin \in [Types -> [version : 0 .. MaxVersion, has : BOOLEAN]]
    /\ \A i \in DOMAIN stack : stack[i].type \in live

\* What the lookup cache or a constructor's memo answers is what a walk of the
\* MRO would find now: lookups that were under way while code changed the type,
\* its bases or the classes it is derived from have left nothing behind.
CachesCurrent ==
    \A t \in live : version[t] # 0 =>
        /\ entry.type = t /\ entry.version = version[t] =>
              entry.value = Find(mro[t], entry.key)
        /\ init[t].version = version[t] => init[t].value = Find(mro[t], InitKey)

\* A change to any class of the MRO of a type with a version reaches the type,
\* although the walk over the subclasses stops at types without a version.
ChangesReach ==
    \A t \in live : version[t] # 0 =>
        \A c \in Members(mro[t]) :
            IF c \in Classic THEN t \in listed ELSE t \in Withdrawn(c)

\* No version is given out twice: neither to two types, nor to a type when a
\* cache entry or a memo of an earlier life of it, or of another one, has it.
VersionsNameOneState ==
    \A t \in live : version[t] # 0 =>
        /\ \A s \in live \ {t} : version[s] # version[t]
        /\ next # 0 => version[t] < next
        /\ entry.version = version[t] => entry.type = t

\* The key of the cache entry is the cache's to compare, also while the key it
\* replaced is being released.
EntryKeyHeld == entry.key # NoKey => entry.key \in held

\* A type is locked against assignments only while the one that locked it runs.
LocksOwned ==
    \A t \in Heap : lock[t] # NoClass =>
        \E i \in DOMAIN stack : stack[i].op = "bases" /\ stack[i].type = lock[t]

\* An assignment of __bases__ that fails half-way leaves the bases of the type,
\* and the MROs of all the types derived from it, as they were when it began.
FailedAssignmentUndone ==
    [][AtTop("bases", "undo") /\ Len(stack') < Len(stack) =>
          /\ bases'[Top.type] = Top.before
          /\ \A d \in DOMAIN Top.was : mro'[d] = Top.was[d] /\ lock'[d] = NoClass]_vars

\* "The memo [is] published only after the lookup, and only when it left the
\* type unchanged": has_finalizer under the current version is what a lookup of
\* __del__ finds.
FinalizerMemoCurrent ==
    \A t \in live : version[t] # 0 /\ fin[t].version = version[t] =>
        fin[t].has = (Find(mro[t], DelKey) # NoClass)

\* No type is derived from itself.
NoCycle ==
    \A t \in live : \A b \in Members(bases[t]) \cap Types : t \notin Members(mro[b])
=============================================================================
