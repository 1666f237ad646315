---------------------------- MODULE Types_proofs ----------------------------
(***************************************************************************)
(* Theorems about Types, for any hierarchy of classes, any names and any   *)
(* code that runs inside the operations.                                   *)
(***************************************************************************)
EXTENDS Types, Collections, TLAPS

(***************************************************************************)
(* Versions and the cache entry                                            *)
(***************************************************************************)

\* The versions vs of the types are different, were given out before nx, and the
\* cache entry e with the version of a type is about that type.
VersionsApart(vs, nx, e) ==
    /\ DOMAIN vs = Types /\ nx \in 0 .. MaxVersion
    /\ \A t \in Types : /\ vs[t] \in Nat
                        /\ vs[t] # 0 => /\ \A s \in Types : s # t => vs[s] # vs[t]
                                        /\ nx # 0 => vs[t] < nx
                                        /\ e.version = vs[t] => e.type = t
    /\ e.version \in Nat
    /\ nx # 0 => e.version < nx

KeyOwned(e, h) == e.key # NoKey => e.key \in h

VInv == VersionsApart(version, next, entry) /\ KeyOwned(entry, held)

LEMMA VInvInit == Init => VInv
  BY TypesAssumption DEF Init, VInv, VersionsApart, KeyOwned, None

\* Withdrawing versions keeps the others apart.
LEMMA WithdrawnApart ==
  ASSUME VersionsApart(version, next, entry), NEW w, version' = Without(w),
         next' = next, entry' = entry
  PROVE  VersionsApart(version', next', entry')
  BY DEF VersionsApart, Without

LEMMA ModifiedApart ==
  ASSUME VInv, NEW c, Modified(c), UNCHANGED cache
  PROVE  VInv'
  <1>1. next' = next /\ entry' = entry /\ held' = held
    BY DEF Modified, cache
  <1>2. \E w : version' = Without(w)
    BY DEF Modified
  <1>3. VersionsApart(version', next', entry')
    BY <1>1, <1>2, WithdrawnApart DEF VInv
  <1> QED BY <1>1, <1>3 DEF VInv, KeyOwned

\* The version given out is above all others, unless the counter has wrapped.
LEMMA GivenApart ==
  ASSUME VInv, GiveVersion
  PROVE  VInv'
  <1> DEFINE t == Top.type
  <1>1. entry' = entry /\ held' = held
    BY DEF GiveVersion, cache
  <1>2. MaxVersion \in Nat \ {0}
    BY TypesAssumption
  <1>3. CASE UNCHANGED versions
    BY <1>1, <1>3 DEF VInv, versions
  <1>4. CASE version' = [version EXCEPT ![t] = next] /\ next' = Counted(next)
    <2> HIDE DEF t
    <2>1. next = 0 => next' = 0
      BY <1>4 DEF Counted
    <2>2. next # 0 => next' \in 0 .. MaxVersion /\ (next' = 0 \/ next' = next + 1)
      BY <1>2, <1>4 DEF Counted, VInv, VersionsApart
    <2>3. \A s \in Types : version'[s] = IF s = t THEN next ELSE version[s]
      BY <1>4 DEF VInv, VersionsApart
    <2>4. DOMAIN version' = Types
      BY <1>4 DEF VInv, VersionsApart
    <2>5. VersionsApart(version, next, entry)
      BY DEF VInv
    <2>6. VersionsApart(version', next', entry')
      <3>1. CASE next = 0
        BY <1>1, <2>1, <2>3, <2>4, <2>5, <3>1 DEF VersionsApart
      <3>2. CASE next # 0
        BY <1>1, <2>2, <2>3, <2>4, <2>5, <3>2 DEF VersionsApart
      <3> QED BY <3>1, <3>2
    <2> QED BY <1>1, <2>6 DEF VInv
  <1> QED BY <1>3, <1>4 DEF GiveVersion

\* The entry filled is about the type that has its version.
LEMMA FilledApart ==
  ASSUME VInv, EndCached, Top.type \in Types
  PROVE  VInv'
  <1>1. entry' = Filled(Top, Probed) /\ held' = HeldWith(Top.key)
        /\ version' = version /\ next' = next
    BY DEF EndCached, versions
  <1>2. Top.version # 0 /\ version[Top.type] = Top.version
    BY DEF EndCached, Cacheable
  <1>3. entry'.version = Top.version /\ entry'.type = Top.type /\ entry'.key = Top.key
    BY <1>1 DEF Filled
  <1>4. VersionsApart(version', next', entry')
    BY <1>1, <1>2, <1>3 DEF VInv, VersionsApart
  <1> QED BY <1>1, <1>3, <1>4 DEF VInv, KeyOwned, HeldWith

(***************************************************************************)
(* The stack of operations                                                 *)
(***************************************************************************)

BaseFields == {"op", "step", "type", "before", "odd", "current", "orders", "todo", "was"}

\* The fields an operation in progress has, whatever their values.
Named(f) ==
    /\ {"op", "step", "type"} \subseteq DOMAIN f
    /\ f.op = "bases" => BaseFields \subseteq DOMAIN f /\ f.todo \subseteq Types
    /\ f.op = "lookup" => f.type \in Types

StackNamed(s) == Sequence(s) /\ \A i \in DOMAIN s : Named(s[i])

\* Frame f is the assignment of __bases__ that frame g is, at the same point, but
\* for records whose has_finalizer is looked up already.
Like(f, g) ==
    /\ f.op = "bases" /\ g.op = "bases" /\ f.type = g.type /\ f.was = g.was
    /\ f.step = g.step /\ f.before = g.before /\ f.current = g.current
    /\ f.orders = g.orders /\ f.todo \subseteq g.todo

\* From stack s to stack t no assignment of __bases__ begins, ends or moves on.
Quiet(s, t) ==
    /\ StackNamed(t)
    /\ \A i \in DOMAIN t : t[i].op = "bases" => i \in DOMAIN s /\ Like(t[i], s[i])
    /\ \A i \in DOMAIN s : s[i].op = "bases" =>
          i \in DOMAIN t /\ t[i].op = "bases" /\ t[i].type = s[i].type

LEMMA QuietSame ==
  ASSUME NEW s, StackNamed(s)
  PROVE  Quiet(s, s)
  BY DEF Quiet, Like

LEMMA QuietTrans ==
  ASSUME NEW s, NEW t, NEW u, Quiet(s, t), Quiet(t, u)
  PROVE  Quiet(s, u)
  <1>1. \A i \in DOMAIN u : u[i].op = "bases" => i \in DOMAIN s /\ Like(u[i], s[i])
    BY DEF Quiet, Like
  <1>2. \A i \in DOMAIN s : s[i].op = "bases" =>
          i \in DOMAIN u /\ u[i].op = "bases" /\ u[i].type = s[i].type
    BY DEF Quiet
  <1> QED BY <1>1, <1>2 DEF Quiet

LEMMA QuietPush ==
  ASSUME NEW s, StackNamed(s), NEW f, Named(f), f.op # "bases"
  PROVE  Quiet(s, Append(s, f))
  <1> DEFINE t == Append(s, f)
  <1>1. /\ Sequence(t) /\ Len(s) \in Nat /\ DOMAIN s = 1 .. Len(s)
        /\ DOMAIN t = 1 .. Len(s) + 1
        /\ \A i \in 1 .. Len(s) : t[i] = s[i]
        /\ t[Len(s) + 1] = f
    BY Appended DEF StackNamed
  <1> HIDE DEF t
  <1>2. \A i \in DOMAIN t : (i \in DOMAIN s /\ t[i] = s[i]) \/ t[i] = f
    BY <1>1
  <1>3. \A i \in DOMAIN s : i \in DOMAIN t /\ t[i] = s[i]
    BY <1>1
  <1>4. StackNamed(t)
    BY <1>1, <1>2 DEF StackNamed
  <1>5. Quiet(s, t)
    BY <1>2, <1>3, <1>4 DEF Quiet, Like
  <1> QED BY <1>5 DEF t

LEMMA QuietPop ==
  ASSUME NEW s, StackNamed(s), s # <<>>, s[Len(s)].op # "bases"
  PROVE  Quiet(s, Lower(s))
  <1> DEFINE b == Lower(s)
  <1>1. /\ Sequence(b) /\ Len(s) \in Nat \ {0} /\ DOMAIN s = 1 .. Len(s)
        /\ DOMAIN b = 1 .. Len(s) - 1 /\ Len(b) = Len(s) - 1
        /\ \A i \in 1 .. Len(s) - 1 : b[i] = s[i]
    BY Popped DEF StackNamed
  <1> HIDE DEF b
  <1>2. \A i \in DOMAIN b : i \in DOMAIN s /\ b[i] = s[i]
    BY <1>1
  <1>3. \A i \in DOMAIN s : (i \in DOMAIN b /\ b[i] = s[i]) \/ i = Len(s)
    BY <1>1
  <1>4. StackNamed(b)
    BY <1>1, <1>2 DEF StackNamed
  <1>5. Quiet(s, b)
    BY <1>2, <1>3, <1>4 DEF Quiet, Like
  <1> QED BY <1>5 DEF b

LEMMA QuietBecome ==
  ASSUME NEW s, StackNamed(s), s # <<>>, NEW f, Named(f),
         (f.op # "bases" /\ s[Len(s)].op # "bases") \/ Like(f, s[Len(s)])
  PROVE  Quiet(s, Append(Lower(s), f))
  <1> DEFINE t == Append(Lower(s), f)
  <1>1. /\ Sequence(t) /\ DOMAIN t = DOMAIN s /\ Len(s) \in DOMAIN s /\ t[Len(s)] = f
        /\ \A i \in DOMAIN s : i # Len(s) => t[i] = s[i]
    BY Replaced DEF StackNamed
  <1> HIDE DEF t
  <1>2. StackNamed(t)
    BY <1>1 DEF StackNamed
  <1>3. Quiet(s, t)
    BY <1>1, <1>2 DEF Quiet, Like
  <1> QED BY <1>3 DEF t

(***************************************************************************)
(* Locks and assignments of __bases__                                      *)
(***************************************************************************)

\* An assignment f in progress owns the lock of its type and of the types whose
\* MROs it remembers: each has that MRO, or keeps it to go back to.
FrameOk(f, lk, dn, od, ms, bs) ==
    /\ f.type \in Heap /\ lk[f.type] = f.type
    /\ f.step = "undo" => bs[f.type] = f.before
    /\ f.step = "compute" => f.current \in Heap /\ lk[f.current] = f.type /\ f.current \notin dn
    /\ \A d \in DOMAIN f.was : /\ d \in Heap /\ lk[d] = f.type
                               /\ d \in dn => od[d].mro = f.was[d]
                               /\ d \notin dn => ms[d] = f.was[d]

FramesOk(s, lk, dn, od, ms, bs) ==
    \A i \in DOMAIN s : s[i].op = "bases" =>
        /\ FrameOk(s[i], lk, dn, od, ms, bs)
        /\ \A j \in DOMAIN s : j # i /\ s[j].op = "bases" => s[j].type # s[i].type

\* Every lock has its assignment.
Owned(s, lk) ==
    \A t \in Heap : lk[t] # NoClass =>
        \E i \in DOMAIN s : s[i].op = "bases" /\ s[i].type = lk[t]

\* Locked types exist, and those without a new MRO keep the one they have.
LocksSound(lv, sb, lk, dn, od, ms, bs) ==
    /\ DOMAIN lk = Heap /\ DOMAIN od = Heap
    /\ DOMAIN ms = Types /\ DOMAIN bs = Types /\ DOMAIN sb = Types
    /\ lv \subseteq Types
    /\ \A b \in Types : sb[b] \subseteq lv \cap Heap
    /\ \A d \in Heap : lk[d] # NoClass => d \in lv /\ (d \notin dn => od[d].mro = ms[d])
    /\ \A d \in Heap : "mro" \in DOMAIN od[d]
    /\ dn \subseteq {d \in Heap : lk[d] # NoClass}

Memory == FramesOk(stack, lock, done, old, mro, bases)
Sound == LocksSound(live, subs, lock, done, old, mro, bases)

LInv == StackNamed(stack) /\ Sound /\ Memory /\ Owned(stack, lock)

hidden == <<live, bases, mro, subs, lock, done, old>>

LEMMA QuietStep ==
  ASSUME LInv, Quiet(stack, stack'), UNCHANGED hidden
  PROVE  LInv'
  <1>1. StackNamed(stack')
    BY DEF Quiet
  <1>2. Sound'
    BY DEF LInv, Sound, hidden
  <1>3. FramesOk(stack', lock, done, old, mro, bases)
    BY DEF LInv, Memory, FramesOk, FrameOk, Quiet, Like
  <1>4. Memory'
    BY <1>3 DEF Memory, hidden
  <1>5. Owned(stack', lock)
    BY DEF LInv, Owned, Quiet
  <1>6. Owned(stack', lock')
    BY <1>5 DEF hidden
  <1> QED BY <1>1, <1>2, <1>4, <1>6 DEF LInv

\* The frame on top is one of the stack, and has its fields.
LEMMA TopNamed ==
  ASSUME StackNamed(stack), stack # <<>>
  PROVE  Named(Top) /\ Len(stack) \in DOMAIN stack
  BY Popped DEF StackNamed, Top

LEMMA QuietAskBase ==
  ASSUME LInv, AskBase
  PROVE  Quiet(stack, stack')
  <1> DEFINE f == [Top EXCEPT !.asked = FirstBase(Top.type)]
             g == Wants(FirstBase(Top.type))
  <1>1. stack # <<>> /\ Top.op = "version"
    BY DEF AskBase, AtTop
  <1>2. stack' = Append(Append(Lower(stack), f), g)
    BY DEF AskBase, Below, Lower
  <1>3. StackNamed(stack) /\ Named(Top)
    BY <1>1, TopNamed DEF LInv
  <1>4. Named(f) /\ f.op # "bases"
    BY <1>1, <1>3 DEF Named
  <1>5. Named(g) /\ g.op # "bases"
    BY DEF Named, Wants
  <1> HIDE DEF f, g
  <1>6. Quiet(stack, Append(Lower(stack), f))
    BY <1>1, <1>3, <1>4, QuietBecome DEF Top
  <1>7. StackNamed(Append(Lower(stack), f))
    BY <1>6 DEF Quiet
  <1>8. Quiet(Append(Lower(stack), f), stack')
    BY <1>2, <1>5, <1>7, QuietPush
  <1> QED BY <1>6, <1>8, QuietTrans

\* The steps that only end the operation on top, which is no assignment.
LEMMA QuietEnds ==
  ASSUME LInv, stack # <<>>, Top.op # "bases", stack' = Below
  PROVE  Quiet(stack, stack')
  <1>1. Quiet(stack, Lower(stack))
    BY QuietPop DEF LInv, Top
  <1> QED BY <1>1 DEF Lower, Below

\* The steps that move it on.
LEMMA QuietMoves ==
  ASSUME LInv, stack # <<>>, NEW f, Named(f), stack' = Append(Below, f),
         (f.op # "bases" /\ Top.op # "bases") \/ Like(f, Top)
  PROVE  Quiet(stack, stack')
  <1>1. Quiet(stack, Append(Lower(stack), f))
    BY QuietBecome DEF LInv, Top
  <1> QED BY <1>1 DEF Lower, Below

\* A lookup of a type begins on top of a stack, after the request for a version
\* it may make.
LEMMA QuietLooks ==
  ASSUME NEW s, StackNamed(s), NEW t \in Types, NEW use, NEW k
  PROVE  Quiet(s, s \o Asking(Looks(t, use, k))) /\ Quiet(s, s \o <<Looks(t, use, k), Wants(t)>>)
  <1> DEFINE f == Looks(t, use, k)
             g == Wants(t)
  <1>1. Named(f) /\ f.op # "bases" /\ f.type = t
    BY DEF Named, Looks
  <1>2. Named(g) /\ g.op # "bases"
    BY DEF Named, Wants
  <1>3. Asking(f) = <<f, g>> \/ Asking(f) = <<f>>
    BY <1>1 DEF Asking
  <1> HIDE DEF f, g
  <1>4. Quiet(s, Append(s, f))
    BY <1>1, QuietPush
  <1>5. Quiet(Append(s, f), Append(Append(s, f), g))
    <2>1. StackNamed(Append(s, f))
      BY <1>4 DEF Quiet
    <2> QED BY <2>1, <1>2, QuietPush
  <1>6. Quiet(s, Append(Append(s, f), g))
    BY <1>4, <1>5, QuietTrans
  <1>7. s \o <<f>> = Append(s, f) /\ s \o <<f, g>> = Append(Append(s, f), g)
    BY Concatenated DEF StackNamed
  <1>8. Quiet(s, s \o Asking(f)) /\ Quiet(s, s \o <<f, g>>)
    BY <1>3, <1>4, <1>6, <1>7
  <1> QED BY <1>8 DEF f, g

\* The steps of versions, lookups and changes to classes.
Looking ==
    \/ AskBase \/ RefuseVersion \/ DistrustMro \/ GiveVersion
    \/ \E t \in Types, use \in {"plain", "init", "fin"}, k \in Keys : Lookup(t, use, k)
    \/ AnswerAtOnce \/ StartWalk \/ ProbeMiss \/ EndUncached \/ EndCached \/ KeyReleased
    \/ \E c \in Classes, k \in Keys : ChangeDict(c, k)

LEMMA LookingHides ==
  ASSUME Looking
  PROVE  UNCHANGED hidden
  <1>1. UNCHANGED <<hierarchy, locks>>
    BY DEF Looking, AskBase, RefuseVersion, DistrustMro, GiveVersion, Lookup, AnswerAtOnce,
           StartWalk, ProbeMiss, EndUncached, EndCached, KeyReleased, ChangeDict
  <1> QED BY <1>1 DEF hierarchy, locks, hidden

LEMMA LookingQuiet ==
  ASSUME LInv, Looking
  PROVE  Quiet(stack, stack')
  <1> USE DEF AtTop
  <1>0. StackNamed(stack)
    BY DEF LInv
  <1>1. CASE AskBase
    BY <1>1, QuietAskBase
  <1>2. CASE RefuseVersion \/ DistrustMro \/ GiveVersion
    BY <1>2, QuietEnds DEF RefuseVersion, DistrustMro, GiveVersion, Pop
  <1>3. ASSUME NEW t \in Types, NEW use, NEW k, Lookup(t, use, k)
        PROVE  Quiet(stack, stack')
    BY <1>0, <1>3, QuietLooks DEF Lookup
  <1>4. CASE AnswerAtOnce \/ EndUncached \/ KeyReleased
    BY <1>4, QuietEnds DEF AnswerAtOnce, EndUncached, KeyReleased, Pop
  <1>5. CASE StartWalk
    <2> DEFINE f == [Top EXCEPT !.step = "walk", !.version = version[Top.type],
                                !.mro = mro[Top.type], !.at = 1]
    <2>1. stack # <<>> /\ Top.op = "lookup" /\ stack' = Append(Below, f)
      BY <1>5 DEF StartWalk, Become
    <2>2. Named(Top)
      BY <1>0, <2>1, TopNamed
    <2>3. Named(f) /\ f.op # "bases"
      BY <2>1, <2>2 DEF Named
    <2> HIDE DEF f
    <2> QED BY <2>1, <2>3, QuietMoves
  <1>6. CASE ProbeMiss
    <2> DEFINE f == [Top EXCEPT !.at = @ + 1]
    <2>1. stack # <<>> /\ Top.op = "lookup" /\ stack' = Append(Below, f)
      BY <1>6 DEF ProbeMiss, Become
    <2>2. Named(Top)
      BY <1>0, <2>1, TopNamed
    <2>3. Named(f) /\ f.op # "bases"
      BY <2>1, <2>2 DEF Named
    <2> HIDE DEF f
    <2> QED BY <2>1, <2>3, QuietMoves
  <1>7. CASE EndCached
    <2> DEFINE f == [Top EXCEPT !.step = "release", !.found = Probed]
    <2>1. stack # <<>> /\ Top.op = "lookup" /\ (stack' = Below \/ stack' = Append(Below, f))
      BY <1>7 DEF EndCached, Become, Pop
    <2>2. Named(Top)
      BY <1>0, <2>1, TopNamed
    <2>3. Named(f) /\ f.op # "bases"
      BY <2>1, <2>2 DEF Named
    <2> HIDE DEF f
    <2> QED BY <2>1, <2>3, QuietMoves, QuietEnds
  <1>8. ASSUME NEW c, NEW k, ChangeDict(c, k)
        PROVE  Quiet(stack, stack')
    BY <1>0, <1>8, QuietSame DEF ChangeDict
  <1> QED BY <1>1, <1>2, <1>3, <1>4, <1>5, <1>6, <1>7, <1>8 DEF Looking

LEMMA LookingSound ==
  ASSUME LInv, Looking
  PROVE  LInv'
  BY QuietStep, LookingHides, LookingQuiet

\* The lookup of has_finalizer of a type whose bases changed.
LEMMA RefreshQuiet ==
  ASSUME LInv, RefreshRecord
  PROVE  Quiet(stack, stack')
  <1>1. stack # <<>> /\ Top.op = "bases" /\ Top.step = "finish"
    BY DEF RefreshRecord, AtTop
  <1>2. PICK r \in Top.todo :
          stack' = Append(Below, [Top EXCEPT !.todo = @ \ {r}]) \o Asking(Looks(r, "has", DelKey))
    BY DEF RefreshRecord
  <1> DEFINE f == [Top EXCEPT !.todo = @ \ {r}]
  <1>3. StackNamed(stack) /\ Named(Top)
    BY <1>1, TopNamed DEF LInv
  <1>4. r \in Types
    BY <1>1, <1>3 DEF Named
  <1>5. /\ DOMAIN f = DOMAIN Top /\ f.todo = Top.todo \ {r}
        /\ f.op = Top.op /\ f.step = Top.step /\ f.type = Top.type /\ f.was = Top.was
        /\ f.before = Top.before /\ f.current = Top.current /\ f.orders = Top.orders
    BY <1>1, <1>3 DEF Named, BaseFields
  <1> HIDE DEF f
  <1>6. Named(f) /\ Like(f, Top)
    BY <1>1, <1>3, <1>5 DEF Named, Like
  <1>7. Quiet(stack, Append(Lower(stack), f))
    BY <1>1, <1>3, <1>6, QuietBecome DEF Top
  <1>8. StackNamed(Append(Lower(stack), f))
    BY <1>7 DEF Quiet
  <1>9. Quiet(Append(Lower(stack), f), Append(Lower(stack), f) \o Asking(Looks(r, "has", DelKey)))
    BY <1>4, <1>8, QuietLooks
  <1>10. stack' = Append(Lower(stack), f) \o Asking(Looks(r, "has", DelKey))
    BY <1>2 DEF f, Lower, Below
  <1>11. Quiet(stack, stack')
    BY <1>7, <1>9, <1>10, QuietTrans
  <1> QED BY <1>11

LEMMA RefreshSound ==
  ASSUME LInv, RefreshRecord
  PROVE  LInv'
  <1>1. UNCHANGED hidden
    BY DEF RefreshRecord, hierarchy, locks, hidden
  <1> QED BY <1>1, RefreshQuiet, QuietStep

(***************************************************************************)
(* What the other steps do to the locks                                    *)
(***************************************************************************)

LEMMA FramesQuiet ==
  ASSUME NEW s, NEW t, Quiet(s, t), NEW lk, NEW dn, NEW od, NEW ms, NEW bs,
         FramesOk(s, lk, dn, od, ms, bs)
  PROVE  FramesOk(t, lk, dn, od, ms, bs)
  BY DEF FramesOk, FrameOk, Quiet, Like

LEMMA OwnedQuiet ==
  ASSUME NEW s, NEW t, Quiet(s, t), NEW lk, Owned(s, lk)
  PROVE  Owned(t, lk)
  BY DEF Owned, Quiet

LEMMA NoClassOutside == NoClass \notin Heap /\ Heap \subseteq Types
  BY TypesAssumption DEF Classes, Types

\* Frames depend on what is locked only.
LEMMA FramesKept ==
  ASSUME NEW s, NEW dn, NEW lk, NEW od, NEW ms, NEW bs, NEW lk2, NEW od2, NEW ms2, NEW bs2,
         FramesOk(s, lk, dn, od, ms, bs),
         \A d \in Heap : lk[d] # NoClass =>
            lk2[d] = lk[d] /\ od2[d].mro = od[d].mro /\ ms2[d] = ms[d] /\ bs2[d] = bs[d]
  PROVE  FramesOk(s, lk2, dn, od2, ms2, bs2)
  <1>1. \A i \in DOMAIN s : s[i].op = "bases" => FrameOk(s[i], lk, dn, od, ms, bs)
    BY DEF FramesOk
  <1>2. ASSUME NEW i \in DOMAIN s, s[i].op = "bases"
        PROVE  FrameOk(s[i], lk2, dn, od2, ms2, bs2)
    BY <1>1, <1>2, NoClassOutside DEF FrameOk
  <1> QED BY <1>2 DEF FramesOk

LEMMA InitSound == Init => LInv
  <1> SUFFICES ASSUME Init PROVE LInv
    OBVIOUS
  <1>1. Sequence(<<>>)
    <2>1. <<>> \in Seq({})
      OBVIOUS
    <2> QED BY <2>1 DEF Sequence
  <1>2. StackNamed(stack) /\ Memory
    BY <1>1 DEF Init, StackNamed, Memory, FramesOk
  <1>3. /\ DOMAIN lock = Heap /\ DOMAIN old = Heap
        /\ DOMAIN mro = Types /\ DOMAIN bases = Types /\ DOMAIN subs = Types
        /\ live \subseteq Types
        /\ \A d \in Heap : lock[d] = NoClass /\ "mro" \in DOMAIN old[d]
        /\ done = {}
    BY DEF Init, Types, NoMro
  <1>4. \A b \in Types : subs[b] \subseteq live \cap Heap
    BY DEF Init, Members
  <1>5. Sound
    BY <1>3, <1>4 DEF Sound, LocksSound
  <1>6. Owned(stack, lock)
    BY <1>3 DEF Owned
  <1> QED BY <1>2, <1>5, <1>6 DEF LInv

\* A class that is created or dies is in no assignment.
LEMMA CreateSound ==
  ASSUME LInv, NEW t \in Heap, NEW bs, Create(t, bs)
  PROVE  LInv'
  <1>1. /\ t \notin live /\ live' = live \cup {t}
        /\ bases' = [bases EXCEPT ![t] = bs]
        /\ subs' = [b \in Types |-> IF b \in Members(bs) THEN subs[b] \cup {t} ELSE subs[b]]
        /\ stack' = stack \o <<Looks(t, "has", DelKey), Wants(t)>>
        /\ lock' = lock /\ done' = done /\ old' = old
    BY DEF Create, locks
  <1>2. PICK m : mro' = [mro EXCEPT ![t] = m]
    BY DEF Create
  <1>3. Sound /\ StackNamed(stack) /\ FramesOk(stack, lock, done, old, mro, bases)
        /\ Owned(stack, lock) /\ t \in Types
    BY NoClassOutside DEF LInv, Memory
  <1>4. Quiet(stack, stack')
    BY <1>1, <1>3, QuietLooks
  <1>5. \A d \in Heap : lock[d] # NoClass =>
            lock'[d] = lock[d] /\ old'[d].mro = old[d].mro /\ mro'[d] = mro[d] /\ bases'[d] = bases[d]
    BY <1>1, <1>2, <1>3 DEF Sound, LocksSound
  <1>6. FramesOk(stack, lock', done', old', mro', bases')
    <2>1. FramesOk(stack, lock', done, old', mro', bases')
      BY <1>3, <1>5, FramesKept
    <2> QED BY <1>1, <2>1
  <1>7. Memory'
    BY <1>4, <1>6, FramesQuiet DEF Memory
  <1>8. Sound'
    BY <1>1, <1>2, <1>3, <1>5 DEF Sound, LocksSound
  <1>9. StackNamed(stack') /\ Owned(stack', lock')
    BY <1>1, <1>3, <1>4, OwnedQuiet DEF Quiet
  <1> QED BY <1>7, <1>8, <1>9 DEF LInv

LEMMA DieSound ==
  ASSUME LInv, NEW t \in Heap, Die(t)
  PROVE  LInv'
  <1>1. /\ live' = live \ {t}
        /\ bases' = [bases EXCEPT ![t] = <<>>] /\ mro' = [mro EXCEPT ![t] = <<>>]
        /\ subs' = [b \in Types |-> IF b = t THEN {} ELSE subs[b] \ {t}]
        /\ stack' = stack /\ lock' = lock /\ done' = done /\ old' = old
    BY DEF Die, locks
  <1>2. lock[t] = NoClass
    BY DEF Die, Referenced
  <1>3. Sound /\ StackNamed(stack) /\ FramesOk(stack, lock, done, old, mro, bases)
        /\ Owned(stack, lock)
    BY DEF LInv, Memory
  <1>4. \A d \in Heap : lock[d] # NoClass =>
            lock'[d] = lock[d] /\ old'[d].mro = old[d].mro /\ mro'[d] = mro[d] /\ bases'[d] = bases[d]
    BY <1>1, <1>2, <1>3 DEF Sound, LocksSound
  <1>5. FramesOk(stack, lock', done', old', mro', bases')
    <2>1. FramesOk(stack, lock', done, old', mro', bases')
      BY <1>3, <1>4, FramesKept
    <2> QED BY <1>1, <2>1
  <1>6. Sound'
    BY <1>1, <1>2, <1>3, <1>4 DEF Sound, LocksSound
  <1> QED BY <1>1, <1>3, <1>5, <1>6 DEF LInv, Memory

\* The descendants of types that exist are types a program created.
LEMMA DescendantsLive ==
  ASSUME Sound, NEW s, s \subseteq live \cap Heap
  PROVE  Descendants(s) \subseteq live \cap Heap /\ s \subseteq Descendants(s)
  <1>1. live \cap Heap \in SUBSET Types /\ \A t \in live \cap Heap : subs[t] \subseteq live \cap Heap
    BY NoClassOutside DEF Sound, LocksSound
  <1> QED BY <1>1, NoClassOutside DEF Descendants

\* Types that are recorded become those of assignment t.
LEMMA RecordedSound ==
  ASSUME LInv, NEW s, s \subseteq live \cap Heap, \A d \in s : lock[d] = NoClass,
         NEW t \in Heap, Recorded(s, t),
         NEW bs, \A d \in Heap : lock[d] # NoClass => bs[d] = bases[d],
         DOMAIN bs = Types
  PROVE  /\ LocksSound(live, subs, lock', done, old', mro, bs)
         /\ FramesOk(stack, lock', done, old', mro, bs)
         /\ \A d \in Heap : lock'[d] = IF d \in s THEN t ELSE lock[d]
         /\ s \cap done = {}
  <1>1. /\ DOMAIN lock' = Heap /\ DOMAIN old' = Heap
        /\ \A d \in Heap : lock'[d] = IF d \in s THEN t ELSE lock[d]
        /\ \A d \in Heap : d \in s => old'[d].mro = mro[d] /\ "mro" \in DOMAIN old'[d]
        /\ \A d \in Heap : d \notin s => old'[d] = old[d]
    BY DEF Recorded
  <1>2. Sound /\ FramesOk(stack, lock, done, old, mro, bases)
    BY DEF LInv, Memory
  <1>3. s \cap done = {}
    BY <1>2 DEF Sound, LocksSound
  <1>4. \A d \in Heap : lock[d] # NoClass =>
            lock'[d] = lock[d] /\ old'[d].mro = old[d].mro /\ mro[d] = mro[d] /\ bs[d] = bases[d]
    BY <1>1
  <1>5. FramesOk(stack, lock', done, old', mro, bs)
    BY <1>2, <1>4, FramesKept
  <1>6. LocksSound(live, subs, lock', done, old', mro, bs)
    BY <1>1, <1>2, <1>3, NoClassOutside DEF Sound, LocksSound
  <1> QED BY <1>1, <1>3, <1>5, <1>6

LEMMA SetBasesSound ==
  ASSUME LInv, NEW t \in Heap, NEW bs, NEW strange, SetBases(t, bs, strange)
  PROVE  LInv'
  <1> DEFINE s == Descendants({t})
             f == [op |-> "bases", step |-> "scan", type |-> t, before |-> bases[t],
                   odd |-> t \in odd, current |-> NoClass, orders |-> <<>>, todo |-> {},
                   was |-> [d \in s |-> mro[d]]]
  <1>1. /\ t \in live /\ lock[t] = NoClass
        /\ \A d \in s : ~Locked(d)
        /\ Recorded(s, t)
        /\ bases' = [bases EXCEPT ![t] = bs]
        /\ stack' = Append(stack, f)
        /\ live' = live /\ mro' = mro /\ subs' = subs /\ done' = done
    BY DEF SetBases, Push
  <1>2. s \subseteq live \cap Heap /\ t \in s
    BY <1>1, DescendantsLive DEF LInv
  <1> HIDE DEF s
  <1>3. \A d \in s : lock[d] = NoClass
    BY <1>1, <1>2 DEF Locked
  <1>4. DOMAIN bases' = Types /\ \A d \in Heap : lock[d] # NoClass => bases'[d] = bases[d]
    BY <1>1, NoClassOutside DEF LInv, Sound, LocksSound
  <1>5. /\ LocksSound(live, subs, lock', done, old', mro, bases')
        /\ FramesOk(stack, lock', done, old', mro, bases')
        /\ \A d \in Heap : lock'[d] = IF d \in s THEN t ELSE lock[d]
        /\ s \cap done = {}
    BY <1>1, <1>2, <1>3, <1>4, RecordedSound
  <1>6. Sound'
    BY <1>1, <1>5 DEF Sound
  <1>7. /\ f.op = "bases" /\ f.step = "scan" /\ f.type = t /\ f.was = [d \in s |-> mro[d]]
        /\ f.todo = {} /\ DOMAIN f = BaseFields
    BY DEF BaseFields
  <1> HIDE DEF f
  <1>8. Named(f)
    BY <1>7 DEF Named, BaseFields
  <1>9. FrameOk(f, lock', done, old', mro, bases')
    BY <1>2, <1>5, <1>7 DEF FrameOk
  <1>10. /\ Sequence(stack') /\ Len(stack) \in Nat /\ DOMAIN stack = 1 .. Len(stack)
         /\ DOMAIN stack' = 1 .. Len(stack) + 1
         /\ \A i \in 1 .. Len(stack) : stack'[i] = stack[i]
         /\ stack'[Len(stack) + 1] = f
    BY <1>1, Appended DEF LInv, StackNamed
  <1>11. \A i \in DOMAIN stack' : \/ i \in DOMAIN stack /\ stack'[i] = stack[i]
                                  \/ i = Len(stack) + 1 /\ stack'[i] = f
    BY <1>10
  <1>12. \A i \in DOMAIN stack : i \in DOMAIN stack' /\ stack'[i] = stack[i]
    BY <1>10
  <1>13. StackNamed(stack')
    BY <1>8, <1>10, <1>11 DEF LInv, StackNamed
  <1>14. \A i \in DOMAIN stack : stack[i].op = "bases" => stack[i].type # t
    BY <1>1, NoClassOutside DEF LInv, Memory, FramesOk, FrameOk
  <1>15. FramesOk(stack', lock', done, old', mro, bases')
    BY <1>5, <1>7, <1>9, <1>11, <1>14 DEF FramesOk
  <1>16. Owned(stack', lock')
    <2>1. Owned(stack, lock)
      BY DEF LInv
    <2>2. Len(stack) + 1 \in DOMAIN stack'
      BY <1>10
    <2> QED BY <1>5, <1>7, <1>10, <1>12, <2>1, <2>2 DEF Owned
  <1> QED BY <1>1, <1>6, <1>13, <1>15, <1>16 DEF LInv, Memory

\* The assignment on top moves on.
LEMMA TopBecomes ==
  ASSUME NEW s, StackNamed(s), s # <<>>, s[Len(s)].op = "bases",
         NEW f, Named(f), f.op = "bases", f.type = s[Len(s)].type,
         NEW lk, NEW dn, NEW od, NEW ms, NEW bs, NEW bs2,
         FramesOk(s, lk, dn, od, ms, bs), FrameOk(f, lk, dn, od, ms, bs2),
         \A x \in Heap : x # f.type => bs2[x] = bs[x], Owned(s, lk)
  PROVE  /\ StackNamed(Append(Lower(s), f))
         /\ FramesOk(Append(Lower(s), f), lk, dn, od, ms, bs2)
         /\ Owned(Append(Lower(s), f), lk)
  <1> DEFINE t == Append(Lower(s), f)
  <1>1. /\ Sequence(t) /\ DOMAIN t = DOMAIN s /\ Len(s) \in DOMAIN s /\ t[Len(s)] = f
        /\ \A i \in DOMAIN s : i # Len(s) => t[i] = s[i]
    BY Replaced DEF StackNamed
  <1> HIDE DEF t
  <1>2. StackNamed(t)
    BY <1>1 DEF StackNamed
  <1>3. \A i \in DOMAIN s : i # Len(s) /\ s[i].op = "bases" =>
            FrameOk(s[i], lk, dn, od, ms, bs2) /\ s[i].type # f.type
    BY <1>1 DEF FramesOk, FrameOk
  <1>4. \A i \in DOMAIN t : t[i].op = s[i].op /\ (t[i].op = "bases" =>
            FrameOk(t[i], lk, dn, od, ms, bs2) /\ t[i].type = s[i].type)
    BY <1>1, <1>3
  <1>5. FramesOk(t, lk, dn, od, ms, bs2)
    BY <1>1, <1>4 DEF FramesOk
  <1>6. Owned(t, lk)
    BY <1>1, <1>4 DEF Owned
  <1> QED BY <1>2, <1>5, <1>6 DEF t

\* The frame on top is an assignment that owns its locks.
LEMMA TopOk ==
  ASSUME LInv, stack # <<>>, Top.op = "bases"
  PROVE  /\ FrameOk(Top, lock, done, old, mro, bases)
         /\ StackNamed(stack) /\ Named(Top)
         /\ Top = stack[Len(stack)] /\ Len(stack) \in DOMAIN stack
         /\ Top.type \in Heap /\ lock[Top.type] = Top.type /\ Top.type # NoClass
  <1>1. StackNamed(stack)
    BY DEF LInv
  <1>2. Named(Top) /\ Len(stack) \in DOMAIN stack
    BY <1>1, TopNamed
  <1>3. FrameOk(Top, lock, done, old, mro, bases)
    BY <1>2 DEF LInv, Memory, FramesOk, Top
  <1> QED BY <1>1, <1>2, <1>3, NoClassOutside DEF FrameOk, Top

\* An assignment moves on that changes no lock and no MRO.
LEMMA TopSound ==
  ASSUME LInv, stack # <<>>, Top.op = "bases",
         NEW f, Named(f), f.op = "bases", f.type = Top.type, stack' = Append(Below, f),
         FrameOk(f, lock, done, old, mro, bases'),
         \A x \in Heap : x # f.type => bases'[x] = bases[x], DOMAIN bases' = Types,
         UNCHANGED <<live, mro, lock, done, old>>,
         DOMAIN subs' = Types, \A b \in Types : subs'[b] \subseteq live \cap Heap
  PROVE  LInv'
  <1>1. /\ StackNamed(stack) /\ stack[Len(stack)].op = "bases" /\ f.type = stack[Len(stack)].type
        /\ FramesOk(stack, lock, done, old, mro, bases) /\ Owned(stack, lock)
    BY TopOk DEF LInv, Memory
  <1>2. stack' = Append(Lower(stack), f)
    BY DEF Lower, Below
  <1>3. /\ StackNamed(Append(Lower(stack), f))
        /\ FramesOk(Append(Lower(stack), f), lock, done, old, mro, bases')
        /\ Owned(Append(Lower(stack), f), lock)
    BY <1>1, TopBecomes
  <1>4. Sound'
    BY DEF LInv, Sound, LocksSound
  <1>5. StackNamed(stack') /\ Memory' /\ Owned(stack', lock')
    BY <1>2, <1>3 DEF Memory
  <1> QED BY <1>4, <1>5 DEF LInv

LEMMA StartMergeSound ==
  ASSUME LInv, StartMerge
  PROVE  LInv'
  <1>1. stack # <<>> /\ Top.op = "bases" /\ Top.step = "scan"
    BY DEF StartMerge, AtTop
  <1>2. PICK r \in InTurn(Top.type) \cap odd :
          stack' = Append(Below, [Top EXCEPT !.step = "compute", !.current = r,
                                             !.orders = Orders(bases[r])])
    BY DEF StartMerge, Become
  <1> DEFINE f == [Top EXCEPT !.step = "compute", !.current = r, !.orders = Orders(bases[r])]
  <1>3. FrameOk(Top, lock, done, old, mro, bases) /\ Named(Top)
    BY <1>1, TopOk
  <1>4. /\ f.op = "bases" /\ f.step = "compute" /\ f.type = Top.type /\ f.was = Top.was
        /\ f.current = r /\ f.todo = Top.todo /\ DOMAIN f = DOMAIN Top
    BY <1>1, <1>3 DEF Named, BaseFields
  <1>5. stack' = Append(Below, f)
    BY <1>2
  <1> HIDE DEF f
  <1>6. r \in Heap /\ lock[r] = Top.type /\ r \notin done
    BY DEF InTurn, Waiting, Records
  <1>7. Named(f)
    BY <1>1, <1>3, <1>4 DEF Named
  <1>8. UNCHANGED <<live, bases, mro, subs, lock, done, old>>
    BY DEF StartMerge, hierarchy, locks
  <1>9. FrameOk(f, lock, done, old, mro, bases')
    BY <1>3, <1>4, <1>6, <1>8 DEF FrameOk
  <1>10. /\ DOMAIN bases' = Types /\ DOMAIN subs' = Types
         /\ \A b \in Types : subs'[b] \subseteq live \cap Heap
    BY <1>8 DEF LInv, Sound, LocksSound
  <1>11. \A x \in Heap : x # f.type => bases'[x] = bases[x]
    BY <1>8
  <1> QED BY <1>1, <1>4, <1>5, <1>7, <1>8, <1>9, <1>10, <1>11, TopSound

LEMMA FailSound ==
  ASSUME LInv, Fail
  PROVE  LInv'
  <1>1. stack # <<>> /\ Top.op = "bases"
    BY DEF Fail, AtTop
  <1> DEFINE f == [Top EXCEPT !.step = "undo", !.current = NoClass, !.orders = <<>>]
  <1>2. stack' = Append(Below, f)
    BY DEF Fail, Become
  <1>3. FrameOk(Top, lock, done, old, mro, bases) /\ Named(Top) /\ Top.type \in Heap
    BY <1>1, TopOk
  <1>4. /\ f.op = "bases" /\ f.step = "undo" /\ f.type = Top.type /\ f.was = Top.was
        /\ f.before = Top.before /\ f.todo = Top.todo /\ DOMAIN f = DOMAIN Top
    BY <1>1, <1>3 DEF Named, BaseFields
  <1> HIDE DEF f
  <1>5. Named(f)
    BY <1>1, <1>3, <1>4 DEF Named
  <1>6. /\ bases' = [bases EXCEPT ![Top.type] = Top.before]
        /\ UNCHANGED <<live, mro, subs, lock, done, old>>
    BY DEF Fail, locks
  <1>7. /\ DOMAIN bases = Types /\ DOMAIN subs' = Types
        /\ \A b \in Types : subs'[b] \subseteq live \cap Heap
    BY <1>6 DEF LInv, Sound, LocksSound
  <1>8. /\ bases'[Top.type] = Top.before /\ DOMAIN bases' = Types
        /\ \A x \in Heap : x # f.type => bases'[x] = bases[x]
    BY <1>3, <1>4, <1>6, <1>7, NoClassOutside
  <1>9. FrameOk(f, lock, done, old, mro, bases')
    BY <1>3, <1>4, <1>8 DEF FrameOk
  <1> QED BY <1>1, <1>2, <1>4, <1>5, <1>6, <1>7, <1>8, <1>9, TopSound

LEMMA RebaseSound ==
  ASSUME LInv, Rebase
  PROVE  LInv'
  <1>1. stack # <<>> /\ Top.op = "bases" /\ Top.step = "scan"
    BY DEF Rebase, AtTop
  <1> DEFINE f == [Top EXCEPT !.step = "finish", !.todo = Records(Top.type)]
  <1>2. stack' = Append(Below, f)
    BY DEF Rebase, Become
  <1>3. FrameOk(Top, lock, done, old, mro, bases) /\ Named(Top) /\ Top.type \in Heap
        /\ lock[Top.type] # NoClass
    BY <1>1, TopOk
  <1>4. /\ f.op = "bases" /\ f.step = "finish" /\ f.type = Top.type /\ f.was = Top.was
        /\ f.todo = Records(Top.type) /\ DOMAIN f = DOMAIN Top
    BY <1>1, <1>3 DEF Named, BaseFields
  <1> HIDE DEF f
  <1>5. Named(f)
    BY <1>1, <1>3, <1>4, NoClassOutside DEF Named, Records
  <1>6. UNCHANGED <<live, bases, mro, lock, done, old>>
    BY DEF Rebase, locks
  <1>7. Sound /\ Top.type \in live \cap Heap
    BY <1>3 DEF LInv, Sound, LocksSound
  <1>8. DOMAIN subs' = Types /\ \A b \in Types : subs'[b] \subseteq subs[b] \cup {Top.type}
    BY DEF Rebase
  <1>9. \A b \in Types : subs'[b] \subseteq live \cap Heap
    BY <1>7, <1>8 DEF Sound, LocksSound
  <1>10. FrameOk(f, lock, done, old, mro, bases')
    BY <1>3, <1>4, <1>6 DEF FrameOk
  <1>11. DOMAIN bases' = Types /\ \A x \in Heap : x # f.type => bases'[x] = bases[x]
    BY <1>6, <1>7 DEF Sound, LocksSound
  <1> QED BY <1>1, <1>2, <1>4, <1>5, <1>6, <1>8, <1>9, <1>10, <1>11, TopSound

\* A record gets its new MRO: assignments that remember the one before find it
\* in the record.
LEMMA InstallSound ==
  ASSUME Sound, NEW s, FramesOk(s, lock, done, old, mro, bases),
         NEW r \in Heap, lock[r] # NoClass, r \notin done, NEW m, Install(r, m),
         \A i \in DOMAIN s : s[i].op = "bases" /\ s[i].step = "compute" => s[i].current # r
  PROVE  /\ FramesOk(s, lock, done', old', mro', bases)
         /\ LocksSound(live, subs, lock, done', old', mro', bases)
  <1>1. /\ old' = [old EXCEPT ![r].custom = r \in custom]
        /\ mro' = [mro EXCEPT ![r] = m] /\ done' = done \cup {r}
    BY DEF Install
  <1>2. /\ DOMAIN old = Heap /\ DOMAIN mro = Types /\ r \in Types
        /\ "mro" \in DOMAIN old[r] /\ old[r].mro = mro[r]
    BY NoClassOutside DEF Sound, LocksSound
  <1>3. /\ DOMAIN old' = Heap /\ DOMAIN mro' = Types
        /\ \A d \in Heap : d # r => old'[d] = old[d] /\ mro'[d] = mro[d]
        /\ "mro" \in DOMAIN old'[r] /\ old'[r].mro = mro[r]
    BY <1>1, <1>2
  <1>4. LocksSound(live, subs, lock, done', old', mro', bases)
    BY <1>1, <1>3 DEF Sound, LocksSound
  <1>5. ASSUME NEW i \in DOMAIN s, s[i].op = "bases"
        PROVE  FrameOk(s[i], lock, done', old', mro', bases)
    <2>1. FrameOk(s[i], lock, done, old, mro, bases)
      BY <1>5 DEF FramesOk
    <2>2. s[i].step = "compute" => s[i].current # r
      BY <1>5
    <2>3. \A d \in DOMAIN s[i].was : /\ d \in Heap /\ lock[d] = s[i].type
                                     /\ d \in done' => old'[d].mro = s[i].was[d]
                                     /\ d \notin done' => mro'[d] = s[i].was[d]
      BY <1>1, <1>3, <2>1 DEF FrameOk
    <2> QED BY <1>1, <2>1, <2>2, <2>3 DEF FrameOk
  <1>6. FramesOk(s, lock, done', old', mro', bases)
    BY <1>5 DEF FramesOk
  <1> QED BY <1>4, <1>6

LEMMA MergeSound ==
  ASSUME LInv, Merge
  PROVE  LInv'
  <1>1. stack # <<>> /\ Top.op = "bases" /\ Top.step = "scan"
    BY DEF Merge, AtTop
  <1>0. PICK r \in InTurn(Top.type) : \E m : Install(r, m)
    BY DEF Merge
  <1>2. PICK m : Install(r, m)
    BY <1>0
  <1>3. r \in Heap /\ lock[r] = Top.type /\ r \notin done
    BY <1>0 DEF InTurn, Waiting, Records
  <1>4. /\ Top.type # NoClass /\ Top = stack[Len(stack)] /\ Len(stack) \in DOMAIN stack
        /\ StackNamed(stack)
    BY <1>1, TopOk
  <1>5. Sound /\ FramesOk(stack, lock, done, old, mro, bases) /\ Owned(stack, lock)
    BY DEF LInv, Memory
  <1>6. ASSUME NEW i \in DOMAIN stack, stack[i].op = "bases", stack[i].step = "compute"
        PROVE  stack[i].current # r
    <2>1. i # Len(stack)
      BY <1>1, <1>4, <1>6
    <2>2. stack[i].type # Top.type
      BY <1>1, <1>4, <1>5, <1>6, <2>1 DEF FramesOk
    <2> QED BY <1>3, <1>5, <1>6, <2>2 DEF FramesOk, FrameOk
  <1>7. lock[r] # NoClass
    BY <1>3, <1>4
  <1>8. /\ FramesOk(stack, lock, done', old', mro', bases)
        /\ LocksSound(live, subs, lock, done', old', mro', bases)
    BY <1>0, <1>2, <1>3, <1>5, <1>6, <1>7, InstallSound
  <1>9. UNCHANGED <<live, bases, subs, lock, stack>>
    BY DEF Merge
  <1> QED BY <1>4, <1>5, <1>8, <1>9 DEF LInv, Memory, Sound

LEMMA EndMergeSound ==
  ASSUME LInv, EndMerge
  PROVE  LInv'
  <1>1. stack # <<>> /\ Top.op = "bases" /\ Top.step = "compute"
    BY DEF EndMerge, AtTop
  <1> DEFINE r == Top.current
             f == [Top EXCEPT !.step = "scan", !.current = NoClass, !.orders = <<>>]
             s == Append(Lower(stack), f)
  <1>2. PICK m : Install(r, m)
    BY DEF EndMerge
  <1>3. stack' = s
    BY DEF EndMerge, Become, Lower, Below
  <1>4. /\ FrameOk(Top, lock, done, old, mro, bases) /\ Named(Top) /\ StackNamed(stack)
        /\ Top = stack[Len(stack)] /\ Top.type # NoClass
    BY <1>1, TopOk
  <1>5. /\ f.op = "bases" /\ f.step = "scan" /\ f.type = Top.type /\ f.was = Top.was
        /\ f.todo = Top.todo /\ DOMAIN f = DOMAIN Top
    BY <1>1, <1>4 DEF Named, BaseFields
  <1>6. r \in Heap /\ lock[r] = Top.type /\ r \notin done /\ lock[r] # NoClass
    BY <1>1, <1>4 DEF FrameOk
  <1> HIDE DEF r, f
  <1>7. Named(f) /\ FrameOk(f, lock, done, old, mro, bases)
    BY <1>1, <1>4, <1>5 DEF Named, FrameOk
  <1>8. Sound /\ FramesOk(stack, lock, done, old, mro, bases) /\ Owned(stack, lock)
    BY DEF LInv, Memory
  <1>9. /\ StackNamed(s) /\ FramesOk(s, lock, done, old, mro, bases) /\ Owned(s, lock)
    <2>1. stack[Len(stack)].op = "bases" /\ f.type = stack[Len(stack)].type
      BY <1>1, <1>4, <1>5
    <2> QED BY <1>1, <1>4, <1>5, <1>7, <1>8, <2>1, TopBecomes
  <1>10. Len(stack) \in DOMAIN s /\ s[Len(stack)] = f
    BY <1>1, <1>4, Replaced DEF StackNamed
  <1> HIDE DEF s
  <1>11. ASSUME NEW i \in DOMAIN s, s[i].op = "bases", s[i].step = "compute"
         PROVE  s[i].current # r
    <2>1. i # Len(stack)
      BY <1>5, <1>10, <1>11
    <2>2. s[i].type # Top.type
      BY <1>5, <1>9, <1>10, <1>11, <2>1 DEF FramesOk
    <2> QED BY <1>6, <1>9, <1>11, <2>2 DEF FramesOk, FrameOk
  <1>12. /\ FramesOk(s, lock, done', old', mro', bases)
         /\ LocksSound(live, subs, lock, done', old', mro', bases)
    BY <1>2, <1>6, <1>8, <1>9, <1>11, InstallSound
  <1>13. UNCHANGED <<live, bases, subs, lock>>
    BY DEF EndMerge
  <1> QED BY <1>3, <1>9, <1>12, <1>13 DEF LInv, Memory, Sound

LEMMA RecordLateSound ==
  ASSUME LInv, RecordLate
  PROVE  LInv'
  <1>1. stack # <<>> /\ Top.op = "bases"
    BY DEF RecordLate, AtTop
  <1> DEFINE t == Top.type
             s == Late(t)
  <1>2. Recorded(s, t) /\ \A d \in s : ~Locked(d)
    BY DEF RecordLate
  <1>3. t \in Heap /\ t # NoClass /\ lock[t] = t /\ Len(stack) \in DOMAIN stack
        /\ Top = stack[Len(stack)]
    BY <1>1, TopOk
  <1>4. Records(t) \subseteq live \cap Heap
    BY <1>3 DEF Records, LInv, Sound, LocksSound
  <1>5. s \subseteq live \cap Heap
    BY <1>4, DescendantsLive DEF LInv, Late
  <1> HIDE DEF t, s
  <1>6. \A d \in s : lock[d] = NoClass
    BY <1>2, <1>5 DEF Locked
  <1>7. UNCHANGED <<live, bases, subs, mro, done, stack>>
    BY DEF RecordLate, hierarchy
  <1>8. /\ LocksSound(live, subs, lock', done, old', mro, bases)
        /\ FramesOk(stack, lock', done, old', mro, bases)
        /\ \A d \in Heap : lock'[d] = IF d \in s THEN t ELSE lock[d]
    <2>1. DOMAIN bases = Types
      BY DEF LInv, Sound, LocksSound
    <2> QED BY <1>2, <1>3, <1>5, <1>6, <2>1, RecordedSound
  <1>9. Owned(stack, lock')
    <2>1. Owned(stack, lock)
      BY DEF LInv
    <2>2. stack[Len(stack)].op = "bases" /\ stack[Len(stack)].type = t
      BY <1>1, <1>3 DEF t
    <2> QED BY <1>3, <1>8, <2>1, <2>2 DEF Owned
  <1> QED BY <1>7, <1>8, <1>9 DEF LInv, Memory, Sound

\* A record that goes back to the MRO it kept.
LEMMA UndoSound ==
  ASSUME LInv, Undo
  PROVE  LInv'
  <1>1. PICK r \in Heap : /\ r \in done /\ mro' = [mro EXCEPT ![r] = old[r].mro]
                          /\ done' = done \ {r}
    BY DEF Undo, Records
  <1>2. UNCHANGED <<live, bases, subs, lock, old, stack>>
    BY DEF Undo
  <1>3. Sound /\ FramesOk(stack, lock, done, old, mro, bases) /\ r \in Types
    BY NoClassOutside DEF LInv, Memory
  <1>4. /\ DOMAIN mro' = Types /\ mro'[r] = old[r].mro
        /\ \A d \in Types : d # r => mro'[d] = mro[d]
    BY <1>1, <1>3 DEF Sound, LocksSound
  <1>5. LocksSound(live, subs, lock, done', old, mro', bases)
    BY <1>1, <1>3, <1>4, NoClassOutside DEF Sound, LocksSound
  <1>6. ASSUME NEW i \in DOMAIN stack, stack[i].op = "bases"
        PROVE  FrameOk(stack[i], lock, done', old, mro', bases)
    <2>1. FrameOk(stack[i], lock, done, old, mro, bases)
      BY <1>3, <1>6 DEF FramesOk
    <2> QED BY <1>1, <1>4, <2>1, NoClassOutside DEF FrameOk
  <1>7. FramesOk(stack, lock, done', old, mro', bases)
    BY <1>3, <1>6 DEF FramesOk
  <1> QED BY <1>2, <1>5, <1>7 DEF LInv, Memory, Sound

\* An assignment ends, and with it its locks.
LEMMA EndSound ==
  ASSUME LInv, stack # <<>>, Top.op = "bases", Unlocked(Top.type), stack' = Below,
         UNCHANGED <<live, bases, subs, mro>>
  PROVE  LInv'
  <1> DEFINE t == Top.type
  <1>1. t # NoClass /\ StackNamed(stack) /\ Top = stack[Len(stack)] /\ Len(stack) \in DOMAIN stack
    BY TopOk
  <1>2. Sound /\ FramesOk(stack, lock, done, old, mro, bases) /\ Owned(stack, lock)
    BY DEF LInv, Memory
  <1>3. /\ Sequence(Lower(stack)) /\ Len(stack) \in Nat \ {0} /\ DOMAIN stack = 1 .. Len(stack)
        /\ DOMAIN Lower(stack) = 1 .. Len(stack) - 1
        /\ \A i \in 1 .. Len(stack) - 1 : Lower(stack)[i] = stack[i]
    BY <1>1, Popped DEF StackNamed
  <1>4. stack' = Lower(stack)
    BY DEF Lower, Below
  <1>5. \A i \in DOMAIN stack' : i \in DOMAIN stack /\ i # Len(stack) /\ stack'[i] = stack[i]
    BY <1>3, <1>4
  <1>6. \A i \in DOMAIN stack : i # Len(stack) => i \in DOMAIN stack' /\ stack'[i] = stack[i]
    BY <1>3, <1>4
  <1>7. /\ DOMAIN lock' = Heap /\ DOMAIN old' = Heap
        /\ \A d \in Heap : lock[d] = t => lock'[d] = NoClass /\ old'[d] = NoMro
        /\ \A d \in Heap : lock[d] # t => lock'[d] = lock[d] /\ old'[d] = old[d]
                                         /\ (d \in done' <=> d \in done)
        /\ done' \subseteq {d \in done : lock[d] # t}
    BY <1>2 DEF Unlocked, Records, Sound, LocksSound
  <1> HIDE DEF t
  <1>8. LocksSound(live, subs, lock', done', old', mro, bases)
    BY <1>1, <1>2, <1>7 DEF Sound, LocksSound, NoMro
  <1>9. ASSUME NEW i \in DOMAIN stack', stack'[i].op = "bases"
        PROVE  FrameOk(stack'[i], lock', done', old', mro, bases)
    <2>1. FrameOk(stack[i], lock, done, old, mro, bases) /\ stack'[i] = stack[i]
      BY <1>2, <1>5, <1>9 DEF FramesOk
    <2>2. stack[i].type # t
      BY <1>1, <1>2, <1>5, <1>9 DEF FramesOk, t
    <2> QED BY <1>7, <2>1, <2>2 DEF FrameOk
  <1>10. FramesOk(stack', lock', done', old', mro, bases)
    BY <1>2, <1>5, <1>9 DEF FramesOk
  <1>11. Owned(stack', lock')
    <2>1. stack[Len(stack)].type = t
      BY <1>1 DEF t
    <2> QED BY <1>1, <1>2, <1>6, <1>7, <2>1 DEF Owned
  <1>12. StackNamed(stack')
    BY <1>1, <1>3, <1>4, <1>5 DEF StackNamed
  <1> QED BY <1>8, <1>10, <1>11, <1>12 DEF LInv, Memory, Sound

(***************************************************************************)
(* The invariant                                                           *)
(***************************************************************************)

IInv == VInv /\ LInv

\* The steps of Next, with the operations that take arguments.
Step ==
    \/ Looking
    \/ \E t \in Heap : \E bs \in NewBases[t] : Create(t, bs)
    \/ \E t \in Heap : \E bs \in NewBases[t], strange \in BOOLEAN : SetBases(t, bs, strange)
    \/ \E t \in Heap : Die(t)
    \/ Merge \/ StartMerge \/ EndMerge \/ RecordLate \/ Fail \/ Undo
    \/ EndUndo \/ Rebase \/ RefreshRecord \/ EndRebase

LEMMA NextSteps == Next => Step
  <1>1. ASSUME NEW u \in Uses, NEW k \in Keys, Lookup(u[1], u[2], k)
        PROVE  Looking
    <2>1. u[1] \in Types /\ u[2] \in {"plain", "init", "fin"}
      BY TypesAssumption
    <2> QED BY <1>1, <2>1 DEF Looking
  <1>2. ASSUME NEW s \in Sites, ChangeDict(s[1], s[2])
        PROVE  Looking
    <2>1. s[1] \in Classes /\ s[2] \in Keys
      BY TypesAssumption
    <2> QED BY <1>2, <2>1 DEF Looking
  <1>3. AskBase \/ RefuseVersion \/ DistrustMro \/ GiveVersion \/ AnswerAtOnce \/ StartWalk
        \/ ProbeMiss \/ EndUncached \/ EndCached \/ KeyReleased => Looking
    BY DEF Looking
  <1> QED BY <1>1, <1>2, <1>3 DEF Next, Step

LEMMA LInvKept ==
  ASSUME LInv, [Next]_vars
  PROVE  LInv'
  <1>1. CASE UNCHANGED vars
    BY <1>1 DEF vars, hierarchy, locks, LInv, Sound, Memory
  <1>2. CASE Next
    <2>1. Step
      BY <1>2, NextSteps
    <2>2. CASE Looking
      BY <2>2, LookingSound
    <2>3. CASE \E t \in Heap : \E bs \in NewBases[t] : Create(t, bs)
      BY <2>3, CreateSound
    <2>4. CASE \E t \in Heap : \E bs \in NewBases[t], strange \in BOOLEAN : SetBases(t, bs, strange)
      BY <2>4, SetBasesSound
    <2>5. CASE \E t \in Heap : Die(t)
      BY <2>5, DieSound
    <2>6. CASE Merge \/ StartMerge \/ EndMerge \/ RecordLate
      BY <2>6, MergeSound, StartMergeSound, EndMergeSound, RecordLateSound
    <2>7. CASE Fail \/ Undo \/ Rebase \/ RefreshRecord
      BY <2>7, FailSound, UndoSound, RebaseSound, RefreshSound
    <2>8. CASE EndUndo
      BY <2>8, EndSound DEF EndUndo, AtTop, Pop, hierarchy
    <2>9. CASE EndRebase
      BY <2>9, EndSound DEF EndRebase, AtTop, Pop, hierarchy
    <2> QED BY <2>1, <2>2, <2>3, <2>4, <2>5, <2>6, <2>7, <2>8, <2>9 DEF Step
  <1> QED BY <1>1, <1>2

LEMMA VInvSame ==
  ASSUME VInv, UNCHANGED <<versions, cache>>
  PROVE  VInv'
  BY DEF VInv, versions, cache

LEMMA DieApart ==
  ASSUME VInv, NEW t, Die(t)
  PROVE  VInv'
  <1>1. version' = [version EXCEPT ![t] = 0] /\ next' = next /\ entry' = entry /\ held' = held
    BY DEF Die, cache
  <1>2. version' = Without({t})
    BY <1>1 DEF VInv, VersionsApart, Without
  <1>3. VersionsApart(version', next', entry')
    BY <1>1, <1>2, WithdrawnApart DEF VInv
  <1> QED BY <1>1, <1>3 DEF VInv

LEMMA VInvKept ==
  ASSUME VInv, LInv, [Next]_vars
  PROVE  VInv'
  <1>1. CASE UNCHANGED vars
    BY <1>1, VInvSame DEF vars
  <1>2. CASE Looking
    <2>1. CASE GiveVersion
      BY <2>1, GivenApart
    <2>2. CASE EndCached
      <3>1. stack # <<>> /\ Top.op = "lookup"
        BY <2>2 DEF EndCached, AtTop
      <3>2. Top.type \in Types
        BY <3>1, TopNamed DEF LInv, Named
      <3> QED BY <2>2, <3>2, FilledApart
    <2>3. ASSUME NEW c, NEW k, ChangeDict(c, k)
          PROVE  VInv'
      BY <2>3, ModifiedApart DEF ChangeDict
    <2>4. ASSUME NEW t, NEW use, NEW k, Lookup(t, use, k)
          PROVE  VInv'
      BY <2>4, VInvSame DEF Lookup
    <2>5. CASE AskBase \/ RefuseVersion \/ DistrustMro \/ AnswerAtOnce \/ StartWalk
               \/ ProbeMiss \/ EndUncached \/ KeyReleased
      <3>1. UNCHANGED <<versions, cache>>
        BY <2>5 DEF AskBase, RefuseVersion, DistrustMro, AnswerAtOnce, StartWalk, ProbeMiss,
                    EndUncached, KeyReleased
      <3> QED BY <3>1, VInvSame
    <2> QED BY <1>2, <2>1, <2>2, <2>3, <2>4, <2>5 DEF Looking
  <1>3. CASE (\E t \in Heap : \E bs \in NewBases[t] : Create(t, bs))
             \/ (\E t \in Heap : \E bs \in NewBases[t], strange \in BOOLEAN : SetBases(t, bs, strange))
    <2>1. UNCHANGED <<versions, cache>>
      BY <1>3 DEF Create, SetBases
    <2> QED BY <2>1, VInvSame
  <1>4. CASE \E t \in Heap : Die(t)
    BY <1>4, DieApart
  <1>5. CASE StartMerge \/ RecordLate \/ Fail \/ EndUndo \/ RefreshRecord \/ EndRebase
    <2>1. UNCHANGED <<versions, cache>>
      BY <1>5 DEF StartMerge, RecordLate, Fail, EndUndo, RefreshRecord, EndRebase
    <2> QED BY <2>1, VInvSame
  <1>6. CASE Merge \/ EndMerge \/ Undo \/ Rebase
    <2>1. (\E c : Modified(c)) /\ UNCHANGED cache
      BY <1>6 DEF Merge, EndMerge, Undo, Rebase, Install
    <2> QED BY <2>1, ModifiedApart
  <1> QED BY <1>1, <1>2, <1>3, <1>4, <1>5, <1>6, NextSteps DEF Step

LEMMA IInvInvariant == Spec => []IInv
  <1>1. Init => IInv
    BY VInvInit, InitSound DEF IInv
  <1>2. IInv /\ [Next]_vars => IInv'
    BY VInvKept, LInvKept DEF IInv
  <1> QED BY <1>1, <1>2, PTL DEF Spec

\* Code that the undoing of an assignment runs begins operations on top of it.
LEMMA LooksLonger ==
  ASSUME NEW s, Sequence(s), NEW t, NEW use, NEW k
  PROVE  /\ ~ (Len(s \o Asking(Looks(t, use, k))) < Len(s))
         /\ ~ (Len(s \o <<Looks(t, use, k), Wants(t)>>) < Len(s))
  <1> DEFINE f == Looks(t, use, k)
             g == Wants(t)
  <1>1. f.type = t
    BY DEF Looks
  <1>2. Asking(f) = <<f, g>> \/ Asking(f) = <<f>>
    BY <1>1 DEF Asking
  <1> HIDE DEF f, g
  <1>3. s \o <<f>> = Append(s, f) /\ s \o <<f, g>> = Append(Append(s, f), g)
    BY Concatenated
  <1>4. Sequence(Append(s, f)) /\ Len(Append(s, f)) = Len(s) + 1 /\ Len(s) \in Nat
    BY Appended
  <1>5. Len(Append(Append(s, f), g)) = Len(s) + 2
    BY <1>4, Appended
  <1>6. ~ (Len(s \o Asking(f)) < Len(s)) /\ ~ (Len(s \o <<f, g>>) < Len(s))
    BY <1>2, <1>3, <1>4, <1>5
  <1> QED BY <1>4, <1>6 DEF f, g

\* Only its own end takes an assignment that is being undone from the stack.
LEMMA UndoEnds ==
  ASSUME LInv, Next, AtTop("bases", "undo"), Len(stack') < Len(stack)
  PROVE  EndUndo
  <1>1. Sequence(stack) /\ Len(stack) \in Nat
    BY Popped DEF LInv, StackNamed, AtTop
  <1>2. stack' # stack
    BY <1>1
  <1>3. ASSUME NEW t, NEW use, NEW k, Lookup(t, use, k)
        PROVE  FALSE
    <2>1. stack' = stack \o Asking(Looks(t, use, k))
      BY <1>3 DEF Lookup
    <2> QED BY <1>1, <2>1, LooksLonger
  <1>4. ASSUME NEW t, NEW bs, Create(t, bs)
        PROVE  FALSE
    <2>1. stack' = stack \o <<Looks(t, "has", DelKey), Wants(t)>>
      BY <1>4 DEF Create
    <2> QED BY <1>1, <2>1, LooksLonger
  <1>5. ASSUME NEW t, NEW bs, NEW strange, SetBases(t, bs, strange)
        PROVE  FALSE
    <2>1. PICK f : stack' = Append(stack, f)
      BY <1>5 DEF SetBases, Push
    <2>2. Len(stack') = Len(stack) + 1
      BY <1>1, <2>1, Appended
    <2> QED BY <1>1, <2>2
  <1>6. ASSUME NEW t, Die(t) \/ \E k : ChangeDict(t, k)
        PROVE  FALSE
    BY <1>2, <1>6 DEF Die, ChangeDict
  <1>7. ~ Undo
    BY <1>2 DEF Undo
  <1>8. Top.op = "bases" /\ Top.step = "undo"
    BY DEF AtTop
  <1>9. /\ ~ AskBase /\ ~ RefuseVersion /\ ~ DistrustMro /\ ~ GiveVersion
        /\ ~ AnswerAtOnce /\ ~ StartWalk /\ ~ ProbeMiss /\ ~ EndUncached /\ ~ EndCached
        /\ ~ KeyReleased
    BY <1>8 DEF AtTop, AskBase, RefuseVersion, DistrustMro, GiveVersion, AnswerAtOnce, StartWalk,
                ProbeMiss, EndUncached, EndCached, KeyReleased
  <1>10. /\ ~ Merge /\ ~ StartMerge /\ ~ EndMerge /\ ~ RecordLate /\ ~ Fail
         /\ ~ Rebase /\ ~ RefreshRecord /\ ~ EndRebase
    BY <1>8 DEF AtTop, Merge, StartMerge, EndMerge, RecordLate, Fail, Rebase, RefreshRecord, EndRebase
  <1>11. ~ Looking
    BY <1>3, <1>6, <1>9 DEF Looking
  <1>12. Step
    BY NextSteps
  <1> QED BY <1>4, <1>5, <1>6, <1>7, <1>10, <1>11, <1>12 DEF Step

(***************************************************************************)
(* Theorems                                                                *)
(***************************************************************************)

\* No version is given out twice: two types never have the same one, versions
\* are given out in ascending order until the counter is used up, and the cache
\* entry that has the version of a type is about that type (assign_version,
\* tinypy_internal_type_modified, tinypy_internal_type_detach).
THEOREM VersionsUnique == Spec => []VersionsNameOneState
  <1>1. IInv => VersionsNameOneState
    BY DEF IInv, VInv, VersionsApart, LInv, Sound, LocksSound, VersionsNameOneState
  <1> QED BY <1>1, IInvInvariant, PTL

\* The key of the cache entry is always one the cache owns, also while the key
\* it replaced runs code as it is released (lookup_cache_store).
THEOREM CacheKeyOwned == Spec => []EntryKeyHeld
  <1>1. IInv => EntryKeyHeld
    BY DEF IInv, VInv, KeyOwned, EntryKeyHeld
  <1> QED BY <1>1, IInvInvariant, PTL

\* However assignments of __bases__, lookups and other code nest, a type is
\* locked only while the assignment that locked it is in progress: no path out of
\* set_bases leaves bases_updating behind.
THEOREM LocksReleased == Spec => []LocksOwned
  <1>1. IInv => LocksOwned
    BY DEF IInv, LInv, Owned, LocksOwned
  <1> QED BY <1>1, IInvInvariant, PTL

\* An assignment of __bases__ that fails, at whatever record, restores the bases
\* of the type and the MRO of every type derived from it, and unlocks them,
\* whatever code ran meanwhile (the rollback of set_bases).
THEOREM FailureUndone == Spec => FailedAssignmentUndone
  <1> DEFINE Undone == AtTop("bases", "undo") /\ Len(stack') < Len(stack) =>
                         /\ bases'[Top.type] = Top.before
                         /\ \A d \in DOMAIN Top.was : mro'[d] = Top.was[d] /\ lock'[d] = NoClass
  <1>1. IInv /\ [Next]_vars => [Undone]_vars
    <2> SUFFICES ASSUME IInv, Next, AtTop("bases", "undo"), Len(stack') < Len(stack)
                 PROVE  /\ bases'[Top.type] = Top.before
                        /\ \A d \in DOMAIN Top.was : mro'[d] = Top.was[d] /\ lock'[d] = NoClass
      OBVIOUS
    <2>1. stack # <<>> /\ Top.op = "bases" /\ Top.step = "undo" /\ LInv
      BY DEF AtTop, IInv
    <2>2. FrameOk(Top, lock, done, old, mro, bases)
      BY <2>1, TopOk
    <2>3. EndUndo
      BY <2>1, UndoEnds
    <2>4. /\ bases' = bases /\ mro' = mro /\ Records(Top.type) \cap done = {}
          /\ \A d \in Heap : lock[d] = Top.type => lock'[d] = NoClass
      BY <2>3 DEF EndUndo, Unlocked, hierarchy
    <2>5. \A d \in DOMAIN Top.was : /\ d \in Heap /\ lock[d] = Top.type
                                    /\ d \notin done => mro[d] = Top.was[d]
      BY <2>2 DEF FrameOk
    <2> QED BY <2>1, <2>2, <2>4, <2>5 DEF FrameOk, Records
  <1>2. Spec => [][Undone]_vars
    BY <1>1, IInvInvariant, PTL DEF Spec
  <1> QED BY <1>2 DEF FailedAssignmentUndone
=============================================================================
