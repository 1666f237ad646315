------------------------------ MODULE Lifetime ------------------------------
(***************************************************************************)
(* How the objects of a VM die (src/core/value.c, src/core/weakref.c): the *)
(* reference count, the weak references, the finalizers that may run any   *)
(* Python or host code and resurrect their object, and the two queues that *)
(* keep a long chain of releases off the native stack.                     *)
(*                                                                         *)
(* The native calls of a release are the frames of `stack`, the innermost  *)
(* last.  Python code runs at the outermost level and wherever a release   *)
(* calls a weak reference callback or a finalizer; every other step is the *)
(* native code of the innermost frame.                                     *)
(***************************************************************************)
EXTENDS Integers, Sequences, FiniteSets

CONSTANTS
    Obj,               \* the objects a run creates
    Var,               \* the references running code holds: locals, globals, host handles
    Weak,              \* the weak references a run creates
    Kinds,             \* the kinds of objects a run creates
    None,
    ReleaseDeferDepth, \* TINYPY_RELEASE_DEFER_DEPTH
    FinalizerDeferDepth \* TINYPY_FINALIZER_DEFER_DEPTH

AllKinds == {"plain", "object", "del", "generator", "native", "native_del", "set_del"}

Shapes == [type : {"ref", "proxy"}, callback : BOOLEAN]

ASSUME LifetimeAssumption ==
    /\ IsFiniteSet(Obj) /\ IsFiniteSet(Var)
    /\ None \notin Obj \cup Shapes
    /\ Kinds \subseteq AllKinds
    /\ ReleaseDeferDepth \in Nat \ {0}
    \* The outermost finalizer releases what waits for it at depth 1: with a
    \* limit of 1 it would defer the same objects forever.
    /\ FinalizerDeferDepth \in Nat /\ FinalizerDeferDepth > 1

VARIABLES
    life,           \* where each object is in its life
    kind,           \* its type, as far as dying depends on it
    ref,            \* its reference count
    fields,         \* the objects it refers to
    env,            \* the object each reference of running code refers to
    spent,          \* a generator that was closed, a native instance that was finalized
    weakrefs,       \* the weak reference list of each object
    shape,          \* the type and callback of each weak reference, or None
    stack,          \* the native frames of the releases in progress
    releaseDepth,   \* vm->release_depth
    finalizerDepth, \* vm->finalizer_depth
    pendingReleases, pendingFinalizations \* the queues, last pushed first

heapVars == <<life, kind, ref, fields, env, spent>>
weakVars == <<weakrefs, shape>>
queueVars == <<releaseDepth, finalizerDepth, pendingReleases, pendingFinalizations>>
vars == <<life, kind, ref, fields, env, spent, weakrefs, shape, stack,
          releaseDepth, finalizerDepth, pendingReleases, pendingFinalizations>>

-----------------------------------------------------------------------------
(* Kinds of objects.                                                       *)

HasDel(o)      == kind[o] \in {"del", "native_del", "set_del"}
IsNative(o)    == kind[o] \in {"native", "native_del"}
\* Types, sets and partials have a weak list of their own, which is cleared
\* only once their finalizers are done.
OwnWeakList(o) == kind[o] = "set_del"
Weakable(o)    == kind[o] # "plain"

\* Whether a finalizer of the object has to run: close of a suspended
\* generator, __del__ unless the host object is gone, the host's finalizer.
Applies(o, f) ==
    \/ f = "close" /\ kind[o] = "generator" /\ ~spent[o]
    \/ f = "del" /\ HasDel(o) /\ ~(IsNative(o) /\ spent[o])
    \/ f = "native" /\ IsNative(o)

Finalizers == {"close", "del", "native"}
Follows(f, g) == \* g runs after f
    \/ f = "none" /\ g \in Finalizers
    \/ f = "close" /\ g \in {"del", "native"}
    \/ f = "del" /\ g = "native"
\* The finalizer of o that comes next after f, if any.
IsNext(o, f, g) == 
    /\ Follows(f, g) /\ Applies(o, g)
    /\ \A h \in Finalizers : Follows(f, h) /\ Applies(o, h) => h = g \/ Follows(g, h)

-----------------------------------------------------------------------------
(* The native stack.                                                       *)

Pcs == {"clear", "calls", "calling", "finalize", "running", "leave", "settle", "contents"}
FrameSet == [obj : Obj, pc : Pcs, after : Finalizers \cup {"none", "done"},
             calls : Seq(Weak), depth : Nat]

Top     == stack[Len(stack)]
At(pc)  == stack # <<>> /\ Top.pc = pc
Push(f) == stack' = Append(stack, f)
Pop     == stack' = SubSeq(stack, 1, Len(stack) - 1)
Become(f) == stack' = [stack EXCEPT ![Len(stack)] = f]

\* tinypy_internal_value_release_zero, entered: a plain value is released at
\* once, any other loses its weak references and is finalized first.
ReleaseZero(o) ==
    [obj |-> o, pc |-> IF kind[o] = "plain" THEN "settle" ELSE "clear",
     after |-> "none", calls |-> <<>>, depth |-> 0]

\* TINYPY_DECREF of a reference that is already gone from where it was held.
Decref(o) ==
    IF ref[o] # 1
      THEN /\ ref' = [ref EXCEPT ![o] = @ - 1]
           /\ UNCHANGED <<life, stack>>
      ELSE /\ ref' = [ref EXCEPT ![o] = 0]
           /\ life' = [life EXCEPT ![o] = "dying"]
           /\ Push(ReleaseZero(o))

Incref(o) == ref' = [ref EXCEPT ![o] = @ + 1]

-----------------------------------------------------------------------------
(* Python and host code, at the outermost level or called by a release.    *)

InCallback  == At("calling")
InFinalizer == At("running")
CodeRuns    == stack = <<>> \/ InCallback \/ InFinalizer

\* What the running code can reach: what it refers to, the object its
\* finalizer was called with, and what these refer to.
Known == {o \in Obj : \E v \in Var : env[v] = o} \cup (IF InFinalizer THEN {Top.obj} ELSE {})
Reach == Known \cup UNION {fields[o] : o \in Known}

Create(o, k, v) ==
    /\ CodeRuns /\ life[o] = "unborn" /\ env[v] = None
    /\ life' = [life EXCEPT ![o] = "alive"]
    /\ kind' = [kind EXCEPT ![o] = k]
    /\ ref' = [ref EXCEPT ![o] = 1]
    /\ env' = [env EXCEPT ![v] = o]
    /\ UNCHANGED <<fields, spent, stack, weakVars, queueVars>>

Load(o, v) ==
    /\ CodeRuns /\ o \in Reach /\ env[v] = None
    /\ env' = [env EXCEPT ![v] = o]
    /\ Incref(o)
    /\ UNCHANGED <<life, kind, fields, spent, stack, weakVars, queueVars>>

Drop(v) ==
    /\ CodeRuns /\ env[v] # None
    /\ env' = [env EXCEPT ![v] = None]
    /\ Decref(env[v])
    /\ UNCHANGED <<kind, fields, spent, weakVars, queueVars>>

Store(p, o) ==
    /\ CodeRuns /\ p \in Known /\ o \in Known /\ o \notin fields[p]
    /\ fields' = [fields EXCEPT ![p] = @ \cup {o}]
    /\ Incref(o)
    /\ UNCHANGED <<life, kind, env, spent, stack, weakVars, queueVars>>

Delete(p, o) ==
    /\ CodeRuns /\ p \in Known /\ o \in fields[p]
    /\ fields' = [fields EXCEPT ![p] = @ \ {o}]
    /\ Decref(o)
    /\ UNCHANGED <<kind, env, spent, weakVars, queueVars>>

\* The weak references without a callback of the exact built-in types come
\* first, the reference before the proxy, and are shared.
IsBasic(w, t) == shape[w] = [type |-> t, callback |-> FALSE]
Basics(s)     == IF s # <<>> /\ IsBasic(s[1], "ref")
                   THEN IF Len(s) > 1 /\ IsBasic(s[2], "proxy") THEN 2 ELSE 1
                   ELSE IF s # <<>> /\ IsBasic(s[1], "proxy") THEN 1 ELSE 0
RefFirst(s)   == IF s # <<>> /\ IsBasic(s[1], "ref") THEN 1 ELSE 0
Shared(s, t)  == \E i \in 1 .. Len(s) :
                    i <= 2 /\ IsBasic(s[i], t) /\ \A j \in 1 .. i - 1 : ~shape[s[j]].callback

\* mutant: a new weak reference always becomes the head of the list
Before_Front(s, t, cb) == 0

\* Where a new weak reference goes: how many entries stay before it.
Before(s, t, cb) == IF cb THEN Basics(s) ELSE IF t = "ref" THEN 0 ELSE RefFirst(s)

InsertAfter(s, n, w) == [i \in 1 .. Len(s) + 1 |-> IF i <= n THEN s[i] ELSE IF i = n + 1 THEN w ELSE s[i - 1]]

Without(s, n)        == [i \in 1 .. Len(s) - 1 |-> IF i < n THEN s[i] ELSE s[i + 1]]

NewWeak(w, o, t, cb) ==
    /\ CodeRuns /\ shape[w] = None /\ o \in Known /\ Weakable(o)
    /\ cb \/ ~Shared(weakrefs[o], t)
    /\ shape' = [shape EXCEPT ![w] = [type |-> t, callback |-> cb]]
    /\ weakrefs' = [weakrefs EXCEPT ![o] = InsertAfter(@, Before(@, t, cb), w)]
    /\ UNCHANGED <<heapVars, stack, queueVars>>

\* Calling a live weak reference returns a new reference to its object.
WeakGet(w, o, v) ==
    /\ CodeRuns /\ env[v] = None
    /\ \E i \in 1 .. Len(weakrefs[o]) : weakrefs[o][i] = w
    /\ env' = [env EXCEPT ![v] = o]
    /\ Incref(o)
    /\ UNCHANGED <<life, kind, fields, spent, stack, weakVars, queueVars>>

\* The last reference to a weak reference goes away: it leaves the list.
WeakDestroy(w, o) ==
    /\ CodeRuns
    /\ \E i \in 1 .. Len(weakrefs[o]) :
          /\ weakrefs[o][i] = w
          /\ weakrefs' = [weakrefs EXCEPT ![o] = Without(@, i)]
    /\ UNCHANGED <<heapVars, shape, stack, queueVars>>

\* The callback or finalizer returns to the release that called it.
\* A generator that yields when it is closed is suspended again.
Return ==
    /\ \/ InFinalizer /\ Become([Top EXCEPT !.pc = "leave"])
       \/ InCallback /\ Become([Top EXCEPT !.pc = "calls", !.calls = Tail(@)])
    /\ \/ UNCHANGED spent
       \/ InFinalizer /\ Top.after = "close" /\ spent' = [spent EXCEPT ![Top.obj] = FALSE]
    /\ UNCHANGED <<life, kind, ref, fields, env, weakVars, queueVars>>

-----------------------------------------------------------------------------
(* The native code of a release.                                           *)

\* mutant: the references a finalizer made are left on the object
ClearWeakrefs_Once ==
    /\ At("clear")
    /\ LET o    == Top.obj
           skip == OwnWeakList(o) \/ Top.after = "done"
       IN  /\ weakrefs' = IF skip THEN weakrefs ELSE [weakrefs EXCEPT ![o] = <<>>]
           /\ Become([Top EXCEPT !.pc = "calls", !.calls = IF skip THEN <<>> ELSE weakrefs[o]])
    /\ UNCHANGED <<heapVars, shape, queueVars>>

\* tinypy_internal_weakref_clear before the finalizers and after them: every
\* reference is detached before the first callback is called.
ClearWeakrefs ==
    /\ At("clear")
    /\ LET o     == Top.obj
           again == Top.after = "done"
           skip  == OwnWeakList(o) /\ ~again
       IN  /\ weakrefs' = IF skip THEN weakrefs ELSE [weakrefs EXCEPT ![o] = <<>>]
           /\ Become([Top EXCEPT !.pc = "calls",
                                 !.calls = IF again # OwnWeakList(o) THEN <<>> ELSE weakrefs[o]])
    /\ UNCHANGED <<heapVars, shape, queueVars>>

\* The callbacks of the detached references are called in the order of the list.
CallCallbacks ==
    /\ At("calls")
    /\ IF Top.calls = <<>>
         THEN Become([Top EXCEPT !.pc = IF Top.after = "done" THEN "settle" ELSE "finalize"])
         ELSE IF shape[Head(Top.calls)].callback
           THEN Become([Top EXCEPT !.pc = "calling"])
           ELSE Become([Top EXCEPT !.calls = Tail(@)])
    /\ UNCHANGED <<heapVars, weakVars, queueVars>>

\* mutant: every finalizer runs at once, however deep
Deferrable_Never(o) == FALSE

\* A value whose finalizer is known to run, that no weak reference reaches
\* and that has no native finalizer may wait for the outermost finalizer.
Deferrable(o) ==
    /\ weakrefs[o] = <<>> /\ ~IsNative(o)
    /\ Applies(o, "close") \/ HasDel(o)

DeferFinalizers ==
    /\ At("finalize") /\ Top.after = "none"
    /\ finalizerDepth >= FinalizerDeferDepth /\ Deferrable(Top.obj)
    /\ pendingFinalizations' = <<Top.obj>> \o pendingFinalizations
    /\ life' = [life EXCEPT ![Top.obj] = "queued"]
    /\ Pop
    /\ UNCHANGED <<kind, ref, fields, env, spent, weakVars, releaseDepth, finalizerDepth, pendingReleases>>

\* The next finalizer starts, holding the only reference to the object.  The
\* releases it makes directly are not deferred.
RunFinalizer(f) ==
    /\ At("finalize") /\ IsNext(Top.obj, Top.after, f)
    /\ Top.after = "none" => ~(finalizerDepth >= FinalizerDeferDepth /\ Deferrable(Top.obj))
    /\ LET o       == Top.obj
           runs    == ~(f = "native" /\ spent[o])
           entered == IF Top.after = "none" THEN releaseDepth ELSE Top.depth
       IN  /\ life' = [life EXCEPT ![o] = "finalizing"]
           /\ ref' = [ref EXCEPT ![o] = 1]
           /\ spent' = [spent EXCEPT ![o] = @ \/ f \in {"close", "native"}]
           /\ Become([Top EXCEPT !.pc = IF runs THEN "running" ELSE "leave", !.after = f, !.depth = entered])
    /\ finalizerDepth' = finalizerDepth + 1
    /\ releaseDepth' = IF releaseDepth >= ReleaseDeferDepth THEN ReleaseDeferDepth - 1 ELSE releaseDepth
    /\ UNCHANGED <<kind, fields, env, weakVars, pendingReleases, pendingFinalizations>>

\* The outermost finalizer, before it lets its object go, releases what the
\* nested ones left.
ReleasePendingFinalization ==
    /\ At("leave") /\ finalizerDepth = 1 /\ pendingFinalizations # <<>>
    /\ LET o == Head(pendingFinalizations)
       IN  /\ life' = [life EXCEPT ![o] = "dying"]
           /\ Push(ReleaseZero(o))
    /\ pendingFinalizations' = Tail(pendingFinalizations)
    /\ UNCHANGED <<kind, ref, fields, env, spent, weakVars, releaseDepth, finalizerDepth, pendingReleases>>

\* mutant: the nested finalizers' objects are not waited for
LeaveFinalizer_Undrained ==
    /\ At("leave")
    /\ finalizerDepth' = finalizerDepth - 1
    /\ LET o == Top.obj
       IN  /\ ref' = [ref EXCEPT ![o] = @ - 1]
           /\ IF ref[o] # 1
                THEN /\ life' = [life EXCEPT ![o] = "alive"]
                     /\ releaseDepth' = Top.depth
                     /\ Pop
                ELSE /\ life' = [life EXCEPT ![o] = "dying"]
                     /\ Become([Top EXCEPT !.pc = "finalize"])
                     /\ UNCHANGED releaseDepth
    /\ UNCHANGED <<kind, fields, env, spent, weakVars, pendingReleases, pendingFinalizations>>

\* mutant: a finalizer never resurrects its object
LeaveFinalizer_AssumesDead ==
    /\ At("leave") /\ ~(finalizerDepth = 1 /\ pendingFinalizations # <<>>)
    /\ finalizerDepth' = finalizerDepth - 1
    /\ ref' = [ref EXCEPT ![Top.obj] = 0]
    /\ life' = [life EXCEPT ![Top.obj] = "dying"]
    /\ Become([Top EXCEPT !.pc = "finalize"])
    /\ UNCHANGED <<kind, fields, env, spent, weakVars, releaseDepth, pendingReleases, pendingFinalizations>>

\* The finalizer lets its object go: it is resurrected when it is still
\* referred to, and otherwise the next finalizer follows.
LeaveFinalizer ==
    /\ At("leave") /\ ~(finalizerDepth = 1 /\ pendingFinalizations # <<>>)
    /\ finalizerDepth' = finalizerDepth - 1
    /\ LET o == Top.obj
       IN  /\ ref' = [ref EXCEPT ![o] = @ - 1]
           /\ IF ref[o] # 1
                THEN /\ life' = [life EXCEPT ![o] = "alive"]
                     /\ releaseDepth' = Top.depth
                     /\ Pop
                ELSE /\ life' = [life EXCEPT ![o] = "dying"]
                     /\ Become([Top EXCEPT !.pc = "finalize"])
                     /\ UNCHANGED releaseDepth
    /\ UNCHANGED <<kind, fields, env, spent, weakVars, pendingReleases, pendingFinalizations>>

\* No finalizer is left: references a finalizer made to the object go too.
Finalized ==
    /\ At("finalize") /\ \A f \in Finalizers : ~(Follows(Top.after, f) /\ Applies(Top.obj, f))
    /\ releaseDepth' = IF Top.after = "none" THEN releaseDepth ELSE Top.depth
    /\ Become([Top EXCEPT !.pc = "clear", !.after = "done"])
    /\ UNCHANGED <<heapVars, weakVars, finalizerDepth, pendingReleases, pendingFinalizations>>

\* mutant: the release of the contents does not count towards the depth
Settle_DepthUnpaired ==
    /\ At("settle")
    /\ IF releaseDepth >= ReleaseDeferDepth
         THEN /\ pendingReleases' = <<Top.obj>> \o pendingReleases
              /\ life' = [life EXCEPT ![Top.obj] = "queued"]
              /\ Pop
         ELSE /\ Become([Top EXCEPT !.pc = "contents"])
              /\ UNCHANGED <<life, pendingReleases>>
    /\ UNCHANGED <<kind, ref, fields, env, spent, weakVars, releaseDepth, finalizerDepth, pendingFinalizations>>

\* A finalized object is released now, or queued when releases nest too deep.
Settle ==
    /\ At("settle")
    /\ IF releaseDepth >= ReleaseDeferDepth
         THEN /\ pendingReleases' = <<Top.obj>> \o pendingReleases
              /\ life' = [life EXCEPT ![Top.obj] = "queued"]
              /\ Pop
              /\ UNCHANGED releaseDepth
         ELSE /\ releaseDepth' = releaseDepth + 1
              /\ Become([Top EXCEPT !.pc = "contents"])
              /\ UNCHANGED <<life, pendingReleases>>
    /\ UNCHANGED <<kind, ref, fields, env, spent, weakVars, finalizerDepth, pendingFinalizations>>

ReleaseReference(c) ==
    /\ At("contents") /\ c \in fields[Top.obj]
    /\ fields' = [fields EXCEPT ![Top.obj] = @ \ {c}]
    /\ Decref(c)
    /\ UNCHANGED <<kind, env, spent, weakVars, queueVars>>

\* mutant: the outermost release does not go on with the queue
DestroyObject_NoLoop ==
    /\ At("contents") /\ fields[Top.obj] = {}
    /\ life' = [life EXCEPT ![Top.obj] = "dead"]
    /\ releaseDepth' = releaseDepth - 1
    /\ Pop
    /\ UNCHANGED <<kind, ref, fields, env, spent, weakVars, finalizerDepth, pendingReleases, pendingFinalizations>>

\* The memory of the object is returned or kept on a free list; the outermost
\* release goes on with the queue.
DestroyObject ==
    /\ At("contents") /\ fields[Top.obj] = {}
    /\ IF releaseDepth = 1 /\ pendingReleases # <<>>
         THEN LET o == Head(pendingReleases)
              IN  /\ life' = [life EXCEPT ![Top.obj] = "dead", ![o] = "dying"]
                  /\ Become([Top EXCEPT !.obj = o])
                  /\ pendingReleases' = Tail(pendingReleases)
                  /\ UNCHANGED releaseDepth
         ELSE /\ life' = [life EXCEPT ![Top.obj] = "dead"]
              /\ releaseDepth' = releaseDepth - 1
              /\ Pop
              /\ UNCHANGED pendingReleases
    /\ UNCHANGED <<kind, ref, fields, env, spent, weakVars, finalizerDepth, pendingFinalizations>>

-----------------------------------------------------------------------------
Init ==
    /\ life = [o \in Obj |-> "unborn"]
    /\ kind = [o \in Obj |-> "plain"]
    /\ ref = [o \in Obj |-> 0]
    /\ fields = [o \in Obj |-> {}]
    /\ env = [v \in Var |-> None]
    /\ spent = [o \in Obj |-> FALSE]
    /\ weakrefs = [o \in Obj |-> <<>>]
    /\ shape = [w \in Weak |-> None]
    /\ stack = <<>>
    /\ releaseDepth = 0 /\ finalizerDepth = 0
    /\ pendingReleases = <<>> /\ pendingFinalizations = <<>>

Code ==
    \/ \E o \in Obj, k \in Kinds, v \in Var : Create(o, k, v)
    \/ \E o \in Obj, v \in Var : Load(o, v)
    \/ \E v \in Var : Drop(v)
    \/ \E p, o \in Obj : Store(p, o)
    \/ \E p, o \in Obj : Delete(p, o)
    \/ \E w \in Weak, o \in Obj, t \in {"ref", "proxy"}, cb \in BOOLEAN : NewWeak(w, o, t, cb)
    \/ \E w \in Weak, o \in Obj, v \in Var : WeakGet(w, o, v)
    \/ \E w \in Weak, o \in Obj : WeakDestroy(w, o)
    \/ Return

Native ==
    \/ ClearWeakrefs
    \/ CallCallbacks
    \/ DeferFinalizers
    \/ \E f \in Finalizers : RunFinalizer(f)
    \/ ReleasePendingFinalization
    \/ LeaveFinalizer
    \/ Finalized
    \/ Settle
    \/ \E c \in Obj : ReleaseReference(c)
    \/ DestroyObject

Next == Code \/ Native

Spec == Init /\ [][Next]_vars

-----------------------------------------------------------------------------
(* Properties.                                                             *)

Lives == {"unborn", "alive", "finalizing", "dying", "queued", "dead"}

\* The type invariant of the objects, the weak references and the release.
TypeOk ==
    /\ life \in [Obj -> Lives]
    /\ kind \in [Obj -> AllKinds]
    /\ ref \in [Obj -> Nat]
    /\ fields \in [Obj -> SUBSET Obj]
    /\ env \in [Var -> Obj \cup {None}]
    /\ spent \in [Obj -> BOOLEAN]
    /\ weakrefs \in [Obj -> Seq(Weak)]
    /\ shape \in [Weak -> Shapes \cup {None}]
    /\ stack \in Seq(FrameSet)
    /\ releaseDepth \in Nat /\ finalizerDepth \in Nat
    /\ pendingReleases \in Seq(Obj) /\ pendingFinalizations \in Seq(Obj)

Usable(o) == life[o] \in {"alive", "finalizing"}

\* What refers to an object: running code, other objects, and the finalizer
\* that holds the object it was called with.
Holders(o) == {v \in Var : env[v] = o}
Parents(o) == {p \in Obj : o \in fields[p]}
Self(o)    == IF life[o] = "finalizing" THEN 1 ELSE 0

\* The count of a usable object is the number of references to it, and an
\* object that is dying, queued or destroyed is referred to from nowhere: no
\* order of releases, finalizers, resurrections and deferrals destroys an
\* object that can still be reached or leaks a count.
ReferencesCounted ==
    \A o \in Obj :
        /\ Usable(o) => ref[o] = Cardinality(Holders(o)) + Cardinality(Parents(o)) + Self(o) /\ ref[o] > 0
        /\ ~Usable(o) => Holders(o) = {} /\ Parents(o) = {}

\* Whenever Python code runs, a weak reference that still has its object has
\* one that is usable: the list of a dying object is cleared as a whole before
\* the first callback, and again after a finalizer that made new ones.
WeakrefsReachUsable ==
    CodeRuns => \A o \in Obj : weakrefs[o] # <<>> => Usable(o)

\* The list of an object starts with its basic reference, then its basic
\* proxy, each at most once: the two entries that the search for a shared
\* weak reference looks at.
BasicWeakrefsFirst ==
    \A o \in Obj : \A i \in 1 .. Len(weakrefs[o]) :
        LET w == weakrefs[o][i]
        IN  /\ IsBasic(w, "ref") => i = 1
            /\ IsBasic(w, "proxy") => i = 1 \/ (i = 2 /\ IsBasic(weakrefs[o][1], "ref"))

\* Once the outermost release returns, nothing is left half released: both
\* queues are empty, the depths are back at zero and no object is dying.
NothingStranded ==
    stack = <<>> =>
        /\ pendingReleases = <<>> /\ pendingFinalizations = <<>>
        /\ releaseDepth = 0 /\ finalizerDepth = 0
        /\ \A o \in Obj : life[o] \in {"unborn", "alive", "dead"}

\* A long chain of releases and finalizers nests a bounded number of native
\* calls: past the two depths its objects wait in the queues.
StackBounded == Len(stack) <= ReleaseDeferDepth + 2 * FinalizerDeferDepth + 1
=============================================================================
