--------------------------- MODULE Lifetime_proofs ---------------------------
(***************************************************************************)
(* What Lifetime promises for every heap, every program over it and every  *)
(* pair of depths: the reference counts are exact, and a weak reference    *)
(* that running code can call has a usable object.                         *)
(***************************************************************************)
EXTENDS Lifetime, Collections, FiniteSetTheorems, SequenceTheorems, TLAPS

-----------------------------------------------------------------------------
(* The inductive invariant.                                                *)

\* An object has at most one frame: the finalizer it is called from holds it,
\* otherwise it is dying.
FrameShape(f) ==
    /\ f.pc = "calling" => f.calls # <<>>
    /\ f.pc \in {"clear", "calls", "calling"} => f.after \notin Finalizers
    /\ f.pc \in {"running", "leave"} => f.after \in Finalizers
FrameOk(f) ==
    /\ life[f.obj] = IF f.pc \in {"running", "leave"} THEN "finalizing" ELSE "dying"
    /\ FrameShape(f)
FramesOk ==
    /\ \A i \in 1 .. Len(stack) : FrameOk(stack[i])
    /\ \A i, j \in 1 .. Len(stack) : stack[i].obj = stack[j].obj => i = j

\* A queued object waits once, in one queue.
QueueOk(l, q) ==
    /\ \A i \in 1 .. Len(q) : l[q[i]] = "queued"
    /\ \A i, j \in 1 .. Len(q) : q[i] = q[j] => i = j
Apart(q, r) == \A i \in 1 .. Len(q), j \in 1 .. Len(r) : q[i] # r[j]
QueuesOk ==
    /\ QueueOk(life, pendingReleases) /\ QueueOk(life, pendingFinalizations)
    /\ Apart(pendingReleases, pendingFinalizations)

\* An object that is not usable keeps weak references only while its own
\* frame, the innermost, is between clearing them and its finalizers.
Clearing(o) ==
    /\ stack # <<>> /\ Top.obj = o
    /\ \/ Top.pc \in {"clear", "finalize"}
       \/ Top.pc = "calls" /\ Top.calls = <<>> /\ Top.after # "done"
WeakrefsOk ==
    \A o \in Obj : weakrefs[o] # <<>> => kind[o] # "plain" /\ (Usable(o) \/ Clearing(o))

\* The depths are what the frames make of them: `entry` gives them before each
\* frame, and after the innermost one.  Releasing contents adds a level; from
\* its first finalizer to its last an object keeps its releases off the limit.
Depths == [release : Nat, finalizer : Nat]
Now    == [release |-> releaseDepth, finalizer |-> finalizerDepth]
Finalizing(f) == f.pc \in {"running", "leave"} \/ (f.pc = "finalize" /\ f.after # "none")
Under(d) == IF d >= ReleaseDeferDepth THEN ReleaseDeferDepth - 1 ELSE d
FrameDepths(f, d, e) ==
    /\ e.finalizer = d.finalizer + (IF f.pc \in {"running", "leave"} THEN 1 ELSE 0)
    /\ e.release = IF f.pc = "contents" THEN d.release + 1
                   ELSE IF Finalizing(f) THEN Under(d.release) ELSE d.release
    /\ Finalizing(f) => f.depth = d.release
Entries(entry, s) ==
    /\ entry \in [1 .. Len(s) + 1 -> Depths]
    /\ entry[1] = [release |-> 0, finalizer |-> 0]
    /\ \A i \in 1 .. Len(s) : FrameDepths(s[i], entry[i], entry[i + 1])
DepthsOk == \E entry : Entries(entry, stack) /\ entry[Len(stack) + 1] = Now

IInv == TypeOk /\ ReferencesCounted /\ FramesOk /\ QueuesOk /\ WeakrefsOk /\ DepthsOk

-----------------------------------------------------------------------------
(* Sequences and sets.                                                     *)

\* Pushing a frame.
LEMMA AppendFacts ==
    ASSUME NEW S, NEW s \in Seq(S), NEW e \in S
    PROVE  /\ Append(s, e) \in Seq(S)
           /\ Len(Append(s, e)) = Len(s) + 1
           /\ \A i \in 1 .. Len(s) : Append(s, e)[i] = s[i]
           /\ Append(s, e)[Len(s) + 1] = e
  OBVIOUS

\* Leaving the innermost frame.
LEMMA PopFacts ==
    ASSUME NEW S, NEW s \in Seq(S), s # <<>>
    PROVE  /\ SubSeq(s, 1, Len(s) - 1) \in Seq(S)
           /\ Len(SubSeq(s, 1, Len(s) - 1)) = Len(s) - 1
           /\ \A i \in 1 .. Len(s) - 1 : SubSeq(s, 1, Len(s) - 1)[i] = s[i]
           /\ Len(s) \in Nat \ {0}
           /\ s[Len(s)] \in S
  <1>. DEFINE n == Len(s) - 1
  <1>1. n \in Nat /\ Len(s) = n + 1 /\ \A i \in 1 .. n + 1 : s[i] \in S
    OBVIOUS
  <1>. HIDE DEF n
  <1>2. /\ SubSeq(s, 1, n) \in Seq(S)
        /\ Len(SubSeq(s, 1, n)) = n
        /\ \A i \in 1 .. n : SubSeq(s, 1, n)[i] = s[i]
    BY <1>1
  <1>3. n = Len(s) - 1
    BY DEF n
  <1>. QED  BY <1>1, <1>2, <1>3

\* Replacing the innermost frame.
LEMMA ReplaceFacts ==
    ASSUME NEW S, NEW s \in Seq(S), s # <<>>, NEW e \in S
    PROVE  LET t == [s EXCEPT ![Len(s)] = e]
           IN  /\ t \in Seq(S) /\ Len(t) = Len(s) /\ t # <<>>
               /\ \A i \in 1 .. Len(s) - 1 : t[i] = s[i]
               /\ t[Len(s)] = e
  OBVIOUS

\* Queueing an object.
LEMMA PrependFacts ==
    ASSUME NEW S, NEW s \in Seq(S), NEW e \in S
    PROVE  /\ <<e>> \o s \in Seq(S)
           /\ Len(<<e>> \o s) = Len(s) + 1
           /\ (<<e>> \o s)[1] = e
           /\ \A i \in 1 .. Len(s) : (<<e>> \o s)[i + 1] = s[i]
           /\ \A i \in 2 .. Len(s) + 1 : (<<e>> \o s)[i] = s[i - 1]
  OBVIOUS

\* Taking the object queued last.
LEMMA TailFacts ==
    ASSUME NEW S, NEW s \in Seq(S), s # <<>>
    PROVE  /\ Tail(s) \in Seq(S)
           /\ Len(Tail(s)) = Len(s) - 1
           /\ Head(s) = s[1] /\ Head(s) \in S
           /\ \A i \in 1 .. Len(s) - 1 : Tail(s)[i] = s[i + 1]
           /\ Len(s) \in Nat \ {0}
  OBVIOUS

\* One member more or less.
LEMMA AddMember ==
    ASSUME NEW S, IsFiniteSet(S), NEW x, x \notin S
    PROVE  Cardinality(S) \in Nat /\ Cardinality(S \cup {x}) = Cardinality(S) + 1
  BY FS_AddElement, FS_CardinalityType

LEMMA RemoveMember ==
    ASSUME NEW S, IsFiniteSet(S), NEW x, x \in S
    PROVE  /\ Cardinality(S) \in Nat \ {0}
           /\ Cardinality(S \ {x}) = Cardinality(S) - 1
           /\ Cardinality(S) = 1 => S = {x}
  <1>1. Cardinality(S) \in Nat
    BY FS_CardinalityType
  <1>2. Cardinality(S \ {x}) = Cardinality(S) - 1 /\ IsFiniteSet(S \ {x})
    BY FS_RemoveElement
  <1>3. Cardinality(S \ {x}) \in Nat
    BY <1>2, FS_CardinalityType
  <1>4. ASSUME Cardinality(S) = 1 PROVE S = {x}
    <2>1. Cardinality(S \ {x}) = 0
      BY <1>2, <1>4
    <2>2. S \ {x} = {}
      BY <1>2, <2>1, FS_EmptySet
    <2>. QED  BY <2>2
  <1>. QED  BY <1>1, <1>2, <1>3, <1>4

\* What refers to an object can be counted.
LEMMA ReferrersFinite ==
    ASSUME TypeOk, NEW o \in Obj
    PROVE  /\ IsFiniteSet(Holders(o)) /\ IsFiniteSet(Parents(o))
           /\ Cardinality(Holders(o)) \in Nat /\ Cardinality(Parents(o)) \in Nat
  <1>1. Holders(o) \subseteq Var /\ Parents(o) \subseteq Obj
    BY DEF Holders, Parents
  <1>2. IsFiniteSet(Holders(o)) /\ IsFiniteSet(Parents(o))
    BY <1>1, LifetimeAssumption, FS_Subset
  <1>. QED  BY <1>2, FS_CardinalityType

-----------------------------------------------------------------------------
(* The frames and the queues.                                              *)

LEMMA StackFacts ==
    ASSUME TypeOk
    PROVE  \A i \in 1 .. Len(stack) : stack[i] \in FrameSet /\ stack[i].obj \in Obj
  <1>1. stack \in Seq(FrameSet)
    BY DEF TypeOk
  <1>2. \A i \in 1 .. Len(stack) : stack[i] \in FrameSet
    BY <1>1
  <1>. QED  BY <1>2 DEF FrameSet

LEMMA TopFacts ==
    ASSUME TypeOk, stack # <<>>
    PROVE  Top \in FrameSet /\ Top.obj \in Obj /\ Len(stack) \in 1 .. Len(stack)
  <1>1. Top \in FrameSet /\ Len(stack) \in Nat \ {0}
    BY PopFacts DEF TypeOk, Top
  <1>. QED  BY <1>1 DEF FrameSet

\* A release starts for an object that has no frame.
LEMMA PushFrame ==
    ASSUME TypeOk, FramesOk, NEW f \in FrameSet, Push(f),
           f.pc \notin {"running", "leave"}, FrameShape(f), life'[f.obj] = "dying",
           \A i \in 1 .. Len(stack) :
              stack[i].obj # f.obj /\ life'[stack[i].obj] = life[stack[i].obj]
    PROVE  /\ FramesOk'
           /\ stack' \in Seq(FrameSet) /\ stack' # <<>> /\ Top' = f
  <1>1. /\ stack' \in Seq(FrameSet)
        /\ Len(stack') = Len(stack) + 1 /\ Len(stack) \in Nat
        /\ \A i \in 1 .. Len(stack) : stack'[i] = stack[i]
        /\ stack'[Len(stack) + 1] = f
    BY AppendFacts DEF TypeOk, Push
  <1>2. stack' # <<>> /\ Top' = f
    BY <1>1 DEF Top
  <1>3. \A i \in 1 .. Len(stack') : i \in 1 .. Len(stack) \/ i = Len(stack) + 1
    BY <1>1
  <1>4. (\A i \in 1 .. Len(stack) : FrameOk(stack[i]))'
    <2>1. ASSUME NEW i \in 1 .. Len(stack) PROVE FrameOk(stack[i])'
      BY <1>1, <2>1 DEF FramesOk, FrameOk, FrameShape
    <2>2. FrameOk(stack[Len(stack)])'
      BY <1>1 DEF FrameOk, FrameShape
    <2>. QED  BY <1>1, <1>3, <2>1, <2>2
  <1>5. \A i, j \in 1 .. Len(stack') : stack'[i].obj = stack'[j].obj => i = j
    BY <1>1, <1>3 DEF FramesOk
  <1>. QED  BY <1>1, <1>2, <1>4, <1>5 DEF FramesOk

\* The innermost frame goes on with an object whose life says where it is.
LEMMA BecomeFrame ==
    ASSUME TypeOk, FramesOk, stack # <<>>, NEW f \in FrameSet, Become(f),
           life'[f.obj] = IF f.pc \in {"running", "leave"} THEN "finalizing" ELSE "dying",
           FrameShape(f),
           \A i \in 1 .. Len(stack) - 1 :
              stack[i].obj # f.obj /\ life'[stack[i].obj] = life[stack[i].obj]
    PROVE  /\ FramesOk'
           /\ stack' \in Seq(FrameSet) /\ stack' # <<>> /\ Top' = f
  <1>1. /\ stack' \in Seq(FrameSet) /\ stack' # <<>>
        /\ Len(stack') = Len(stack) /\ Len(stack) \in Nat \ {0}
        /\ \A i \in 1 .. Len(stack) - 1 : stack'[i] = stack[i]
        /\ stack'[Len(stack)] = f
    BY ReplaceFacts, PopFacts DEF TypeOk, Become
  <1>2. Top' = f
    BY <1>1 DEF Top
  <1>3. \A i \in 1 .. Len(stack) : i \in 1 .. Len(stack) - 1 \/ i = Len(stack)
    BY <1>1
  <1>4. \A i \in 1 .. Len(stack) - 1 : i \in 1 .. Len(stack)
    BY <1>1
  <1>5. (\A i \in 1 .. Len(stack) : FrameOk(stack[i]))'
    <2>1. ASSUME NEW i \in 1 .. Len(stack) - 1 PROVE FrameOk(stack[i])'
      BY <1>1, <1>4, <2>1 DEF FramesOk, FrameOk, FrameShape
    <2>2. FrameOk(stack[Len(stack)])'
      BY <1>1 DEF FrameOk, FrameShape
    <2>. QED  BY <1>1, <1>3, <2>1, <2>2
  <1>6. \A i, j \in 1 .. Len(stack') : stack'[i].obj = stack'[j].obj => i = j
    BY <1>1, <1>3, <1>4 DEF FramesOk
  <1>. QED  BY <1>1, <1>2, <1>5, <1>6 DEF FramesOk

\* The innermost frame returns.
LEMMA PopFrame ==
    ASSUME TypeOk, FramesOk, stack # <<>>, Pop,
           \A o \in Obj : o # Top.obj => life'[o] = life[o]
    PROVE  FramesOk' /\ stack' \in Seq(FrameSet)
  <1>1. /\ stack' \in Seq(FrameSet)
        /\ Len(stack') = Len(stack) - 1 /\ Len(stack) \in Nat \ {0}
        /\ \A i \in 1 .. Len(stack) - 1 : stack'[i] = stack[i]
    BY PopFacts DEF TypeOk, Pop
  <1>2. \A i \in 1 .. Len(stack) - 1 : i \in 1 .. Len(stack) /\ i # Len(stack)
    BY <1>1
  <1>3. \A i \in 1 .. Len(stack) - 1 : stack[i] \in FrameSet /\ stack[i].obj \in Obj
    BY <1>2, StackFacts
  <1>4. \A i \in 1 .. Len(stack) - 1 : stack[i].obj # Top.obj
    <2>1. Len(stack) \in 1 .. Len(stack)
      BY <1>1
    <2>2. \A i, j \in 1 .. Len(stack) : stack[i].obj = stack[j].obj => i = j
      BY DEF FramesOk
    <2>3. Top = stack[Len(stack)]
      BY DEF Top
    <2>4. ASSUME NEW i \in 1 .. Len(stack) - 1 PROVE stack[i].obj # Top.obj
      <3>1. i \in 1 .. Len(stack) /\ i # Len(stack)
        BY <1>2, <2>4
      <3>. QED  BY <3>1, <2>1, <2>2, <2>3
    <2>. QED  BY <2>4
  <1>5. (\A i \in 1 .. Len(stack) : FrameOk(stack[i]))'
    <2>1. ASSUME NEW i \in 1 .. Len(stack) - 1 PROVE FrameOk(stack[i])'
      <3>1. stack'[i] = stack[i] /\ FrameOk(stack[i]) /\ life'[stack[i].obj] = life[stack[i].obj]
        BY <1>1, <1>2, <1>3, <1>4, <2>1 DEF FramesOk
      <3>. QED  BY <3>1 DEF FrameOk, FrameShape
    <2>. QED  BY <1>1, <2>1
  <1>. QED  BY <1>1, <1>2, <1>5 DEF FramesOk

\* The depths before the innermost frame.
LEMMA DepthsTop ==
    ASSUME TypeOk, DepthsOk, stack # <<>>
    PROVE  \E d \in Depths : FrameDepths(Top, d, Now)
  <1>1. PICK entry : Entries(entry, stack) /\ entry[Len(stack) + 1] = Now
    BY DEF DepthsOk
  <1>2. Len(stack) \in 1 .. Len(stack) /\ Len(stack) \in 1 .. Len(stack) + 1
    BY TopFacts, PopFacts DEF TypeOk
  <1>3. entry[Len(stack)] \in Depths
    BY <1>1, <1>2 DEF Entries
  <1>. QED  BY <1>1, <1>2, <1>3 DEF Entries, Top

LEMMA DepthsPush ==
    ASSUME TypeOk, DepthsOk, NEW f \in FrameSet, Push(f), f.pc # "contents", ~Finalizing(f),
           UNCHANGED <<releaseDepth, finalizerDepth>>
    PROVE  DepthsOk'
  <1>1. PICK entry : Entries(entry, stack) /\ entry[Len(stack) + 1] = Now
    BY DEF DepthsOk
  <1>2. /\ stack' \in Seq(FrameSet)
        /\ Len(stack') = Len(stack) + 1 /\ Len(stack) \in Nat
        /\ \A i \in 1 .. Len(stack) : stack'[i] = stack[i]
        /\ stack'[Len(stack) + 1] = f
    BY AppendFacts DEF TypeOk, Push
  <1>. DEFINE n   == Len(stack) + 1
              new == [i \in 1 .. n + 1 |-> IF i = n + 1 THEN Now ELSE entry[i]]
  <1>3. Now \in Depths
    BY DEF TypeOk, Now, Depths
  <1>4. n \in Nat \ {0} /\ entry \in [1 .. n -> Depths] /\ entry[n] = Now
    BY <1>1, <1>2 DEF Entries
  <1>5. \A i \in 1 .. n - 1 : FrameDepths(stack[i], entry[i], entry[i + 1])
    BY <1>1, <1>2 DEF Entries
  <1>. HIDE DEF n
  <1>6. new \in [1 .. n + 1 -> Depths] /\ new[n + 1] = Now /\ \A i \in 1 .. n : new[i] = entry[i]
    BY <1>3, <1>4
  <1>. HIDE DEF new
  <1>7. FrameDepths(f, Now, Now)
    BY DEF FrameDepths, Finalizing, Now, TypeOk
  <1>8. \A i \in 1 .. n : FrameDepths(stack'[i], new[i], new[i + 1])
    <2>1. ASSUME NEW i \in 1 .. n PROVE FrameDepths(stack'[i], new[i], new[i + 1])
      <3>1. CASE i = n
        BY <1>2, <1>4, <1>6, <1>7, <3>1 DEF n
      <3>2. CASE i # n
        <4>1. i \in 1 .. n - 1 /\ i \in 1 .. n /\ i + 1 \in 1 .. n
          BY <1>4, <3>2
        <4>2. stack'[i] = stack[i]
          BY <1>2, <4>1 DEF n
        <4>. QED  BY <1>5, <1>6, <4>1, <4>2
      <3>. QED  BY <3>1, <3>2
    <2>. QED  BY <2>1
  <1>9. new[1] = [release |-> 0, finalizer |-> 0]
    BY <1>1, <1>4, <1>6 DEF Entries
  <1>10. Len(stack') = n /\ Now' = Now
    BY <1>2 DEF n, Now
  <1>11. Entries(new, stack') /\ new[Len(stack') + 1] = Now'
    BY <1>6, <1>8, <1>9, <1>10 DEF Entries
  <1>. QED  BY <1>11 DEF DepthsOk, Entries

LEMMA DepthsBecome ==
    ASSUME TypeOk, DepthsOk, stack # <<>>, NEW f \in FrameSet, Become(f), Now' \in Depths,
           \A d \in Depths : FrameDepths(Top, d, Now) => FrameDepths(f, d, Now')
    PROVE  DepthsOk'
  <1>1. PICK entry : Entries(entry, stack) /\ entry[Len(stack) + 1] = Now
    BY DEF DepthsOk
  <1>. DEFINE n   == Len(stack)
              new == [i \in 1 .. n + 1 |-> IF i = n + 1 THEN Now' ELSE entry[i]]
  <1>2. /\ stack' \in Seq(FrameSet) /\ Len(stack') = n /\ n \in Nat \ {0}
        /\ \A i \in 1 .. n - 1 : stack'[i] = stack[i]
        /\ stack'[n] = f /\ Top = stack[n]
    BY ReplaceFacts, PopFacts DEF TypeOk, Become, Top
  <1>3. /\ entry \in [1 .. n + 1 -> Depths] /\ entry[n + 1] = Now
        /\ entry[1] = [release |-> 0, finalizer |-> 0]
        /\ \A i \in 1 .. n : FrameDepths(stack[i], entry[i], entry[i + 1])
    BY <1>1, <1>2 DEF Entries
  <1>. HIDE DEF n
  <1>4. new \in [1 .. n + 1 -> Depths] /\ new[n + 1] = Now' /\ \A i \in 1 .. n : new[i] = entry[i]
    BY <1>2, <1>3
  <1>. HIDE DEF new
  <1>5. \A i \in 1 .. n : FrameDepths(stack'[i], new[i], new[i + 1])
    <2>1. ASSUME NEW i \in 1 .. n PROVE FrameDepths(stack'[i], new[i], new[i + 1])
      <3>1. CASE i = n
        <4>1. entry[n] \in Depths /\ FrameDepths(Top, entry[n], Now)
          BY <1>2, <1>3
        <4>2. stack'[i] = f /\ new[i] = entry[n] /\ new[i + 1] = Now'
          BY <1>2, <1>4, <3>1
        <4>. QED  BY <4>1, <4>2
      <3>2. CASE i # n
        <4>1. i \in 1 .. n - 1 /\ i + 1 \in 1 .. n
          BY <1>2, <3>2
        <4>. QED  BY <1>2, <1>3, <1>4, <4>1
      <3>. QED  BY <3>1, <3>2
    <2>. QED  BY <2>1
  <1>6. new[1] = [release |-> 0, finalizer |-> 0]
    BY <1>2, <1>3, <1>4
  <1>7. Entries(new, stack') /\ new[Len(stack') + 1] = Now'
    BY <1>2, <1>4, <1>5, <1>6 DEF Entries
  <1>. QED  BY <1>7 DEF DepthsOk, Entries

LEMMA DepthsPop ==
    ASSUME TypeOk, DepthsOk, stack # <<>>, Pop,
           \A d \in Depths : FrameDepths(Top, d, Now) => Now' = d
    PROVE  DepthsOk'
  <1>1. PICK entry : Entries(entry, stack) /\ entry[Len(stack) + 1] = Now
    BY DEF DepthsOk
  <1>. DEFINE n   == Len(stack)
              new == [i \in 1 .. n |-> entry[i]]
  <1>2. /\ stack' \in Seq(FrameSet) /\ Len(stack') = n - 1 /\ n \in Nat \ {0}
        /\ \A i \in 1 .. n - 1 : stack'[i] = stack[i]
        /\ Top = stack[n]
    BY PopFacts DEF TypeOk, Pop, Top
  <1>3. /\ entry \in [1 .. n + 1 -> Depths] /\ entry[n + 1] = Now
        /\ entry[1] = [release |-> 0, finalizer |-> 0]
        /\ \A i \in 1 .. n : FrameDepths(stack[i], entry[i], entry[i + 1])
    BY <1>1, <1>2 DEF Entries
  <1>. HIDE DEF n
  <1>4. new \in [1 .. n -> Depths] /\ \A i \in 1 .. n : new[i] = entry[i]
    BY <1>2, <1>3
  <1>. HIDE DEF new
  <1>5. new[n] = Now'
    BY <1>2, <1>3, <1>4
  <1>6. \A i \in 1 .. n - 1 : FrameDepths(stack'[i], new[i], new[i + 1])
    BY <1>2, <1>3, <1>4
  <1>7. new[1] = [release |-> 0, finalizer |-> 0] /\ n - 1 + 1 = n
    BY <1>2, <1>3, <1>4
  <1>8. Entries(new, stack') /\ new[Len(stack') + 1] = Now'
    BY <1>2, <1>4, <1>5, <1>6, <1>7 DEF Entries
  <1>. QED  BY <1>8 DEF DepthsOk, Entries

LEMMA DepthsKept ==
    ASSUME DepthsOk, UNCHANGED <<stack, releaseDepth, finalizerDepth>>
    PROVE  DepthsOk'
  BY DEF DepthsOk, Entries, Now

\* The frames and the queues stay as they are while no object that is in one
\* of them changes.
LEMMA FramesKept ==
    ASSUME FramesOk, UNCHANGED stack,
           \A i \in 1 .. Len(stack) : life'[stack[i].obj] = life[stack[i].obj]
    PROVE  FramesOk'
  BY DEF FramesOk, FrameOk, FrameShape

LEMMA QueuesKept ==
    ASSUME TypeOk, QueuesOk, UNCHANGED <<pendingReleases, pendingFinalizations>>,
           \A o \in Obj : life[o] = "queued" => life'[o] = "queued"
    PROVE  QueuesOk'
  <1>1. /\ \A i \in 1 .. Len(pendingReleases) : pendingReleases[i] \in Obj
        /\ \A i \in 1 .. Len(pendingFinalizations) : pendingFinalizations[i] \in Obj
    BY DEF TypeOk
  <1>. QED  BY <1>1 DEF QueuesOk, QueueOk, Apart

\* One more object waits in a queue, the lives l become m.
LEMMA QueuePush ==
    ASSUME NEW l, NEW m, NEW q \in Seq(Obj), NEW r \in Seq(Obj), NEW o \in Obj,
           QueueOk(l, q), QueueOk(l, r), Apart(q, r),
           l[o] # "queued", m[o] = "queued", \A p \in Obj \ {o} : m[p] = l[p]
    PROVE  /\ QueueOk(m, <<o>> \o q) /\ QueueOk(m, r)
           /\ Apart(<<o>> \o q, r) /\ Apart(r, <<o>> \o q)
           /\ <<o>> \o q \in Seq(Obj)
  <1>. DEFINE s == <<o>> \o q
  <1>1. /\ s \in Seq(Obj) /\ Len(s) = Len(q) + 1 /\ Len(q) \in Nat
        /\ s[1] = o /\ \A i \in 2 .. Len(q) + 1 : s[i] = q[i - 1]
    BY PrependFacts
  <1>2. /\ \A i \in 1 .. Len(q) : q[i] \in Obj \ {o}
        /\ \A i \in 1 .. Len(r) : r[i] \in Obj \ {o}
    BY DEF QueueOk
  <1>. HIDE DEF s
  <1>3. \A i \in 1 .. Len(s) : i = 1 \/ (i \in 2 .. Len(q) + 1 /\ i - 1 \in 1 .. Len(q))
    BY <1>1
  <1>4. \A i \in 1 .. Len(s) : s[i] = o \/ \E k \in 1 .. Len(q) : s[i] = q[k]
    BY <1>1, <1>3
  <1>5. \A i \in 1 .. Len(s) : m[s[i]] = "queued"
    BY <1>2, <1>4 DEF QueueOk
  <1>6. \A i, j \in 1 .. Len(s) : s[i] = s[j] => i = j
    <2>1. ASSUME NEW i \in 1 .. Len(s), NEW j \in 1 .. Len(s), s[i] = s[j] PROVE i = j
      <3>1. CASE i # 1 /\ j # 1
        <4>1. i - 1 \in 1 .. Len(q) /\ j - 1 \in 1 .. Len(q) /\ q[i - 1] = q[j - 1]
          BY <1>1, <1>3, <2>1, <3>1
        <4>2. i - 1 = j - 1
          BY <4>1 DEF QueueOk
        <4>. QED  BY <1>1, <4>2
      <3>2. CASE i = 1 \/ j = 1
        <4>1. \A k \in 1 .. Len(s) : k # 1 => s[k] # o
          BY <1>1, <1>2, <1>3
        <4>. QED  BY <1>1, <2>1, <3>2, <4>1
      <3>. QED  BY <3>1, <3>2
    <2>. QED  BY <2>1
  <1>7. QueueOk(m, r)
    BY <1>2 DEF QueueOk
  <1>8. Apart(s, r) /\ Apart(r, s)
    BY <1>2, <1>4 DEF Apart
  <1>9. QueueOk(m, s) /\ QueueOk(m, r) /\ Apart(s, r) /\ Apart(r, s) /\ s \in Seq(Obj)
    BY <1>1, <1>5, <1>6, <1>7, <1>8 DEF QueueOk
  <1>. QED  BY <1>9 DEF s

\* The object queued last leaves its queue.
LEMMA QueuePop ==
    ASSUME NEW l, NEW m, NEW q \in Seq(Obj), NEW r \in Seq(Obj), q # <<>>,
           QueueOk(l, q), QueueOk(l, r), Apart(q, r) \/ Apart(r, q),
           \A p \in Obj \ {Head(q)} : l[p] = "queued" => m[p] = "queued"
    PROVE  /\ QueueOk(m, Tail(q)) /\ QueueOk(m, r) /\ Apart(Tail(q), r) /\ Apart(r, Tail(q))
           /\ Tail(q) \in Seq(Obj)
           /\ Head(q) \in Obj /\ l[Head(q)] = "queued"
  <1>. DEFINE s == Tail(q)
  <1>1. /\ s \in Seq(Obj) /\ Len(s) = Len(q) - 1 /\ Len(q) \in Nat \ {0}
        /\ Head(q) = q[1] /\ Head(q) \in Obj
        /\ \A i \in 1 .. Len(q) - 1 : s[i] = q[i + 1]
    BY TailFacts
  <1>2. /\ \A i \in 1 .. Len(q) : q[i] \in Obj
        /\ \A i \in 1 .. Len(r) : r[i] \in Obj
    OBVIOUS
  <1>. HIDE DEF s
  <1>3. \A i \in 1 .. Len(s) : i + 1 \in 1 .. Len(q) /\ i + 1 # 1 /\ s[i] = q[i + 1]
    BY <1>1
  <1>4. 1 \in 1 .. Len(q)
    BY <1>1
  <1>5. \A i \in 1 .. Len(s) : s[i] \in Obj \ {Head(q)} /\ l[s[i]] = "queued"
    <2>1. ASSUME NEW i \in 1 .. Len(s) PROVE s[i] \in Obj \ {Head(q)} /\ l[s[i]] = "queued"
      <3>1. q[i + 1] # q[1] /\ l[q[i + 1]] = "queued"
        BY <1>3, <1>4, <2>1 DEF QueueOk
      <3>. QED  BY <1>1, <1>2, <1>3, <2>1, <3>1
    <2>. QED  BY <2>1
  <1>6. \A i, j \in 1 .. Len(s) : s[i] = s[j] => i = j
    <2>1. ASSUME NEW i \in 1 .. Len(s), NEW j \in 1 .. Len(s), s[i] = s[j] PROVE i = j
      <3>1. i + 1 = j + 1
        BY <1>3, <2>1 DEF QueueOk
      <3>. QED  BY <1>1, <3>1
    <2>. QED  BY <2>1
  <1>7. \A i \in 1 .. Len(r) : r[i] \in Obj \ {Head(q)}
    BY <1>1, <1>2, <1>4 DEF Apart
  <1>8. QueueOk(m, s) /\ QueueOk(m, r)
    BY <1>5, <1>6, <1>7 DEF QueueOk
  <1>9. Apart(s, r) /\ Apart(r, s)
    BY <1>3 DEF Apart
  <1>10. QueueOk(m, s) /\ QueueOk(m, r) /\ Apart(s, r) /\ Apart(r, s) /\ s \in Seq(Obj)
         /\ Head(q) \in Obj /\ l[Head(q)] = "queued"
    BY <1>1, <1>4, <1>8, <1>9 DEF QueueOk
  <1>. QED  BY <1>10 DEF s

-----------------------------------------------------------------------------
(* The counts.                                                             *)

\* Whatever is referred to is usable.
LEMMA ReferredUsable ==
    ASSUME TypeOk, ReferencesCounted, FramesOk, CodeRuns, NEW o \in Obj, o \in Reach
    PROVE  Usable(o)
  <1>1. ASSUME NEW p \in Obj, p \in Known PROVE Usable(p)
    <2>1. CASE \E v \in Var : env[v] = p
      BY <2>1 DEF ReferencesCounted, Holders
    <2>2. CASE InFinalizer /\ p = Top.obj
      <3>1. Len(stack) \in 1 .. Len(stack) /\ Top.pc = "running"
        BY <2>2, TopFacts DEF InFinalizer, At
      <3>. QED  BY <3>1, <2>2 DEF FramesOk, FrameOk, FrameShape, Top, Usable
    <2>. QED  BY <1>1, <2>1, <2>2 DEF Known
  <1>2. CASE o \in Known
    BY <1>1, <1>2
  <1>3. CASE \E p \in Known : o \in fields[p]
    <2>1. PICK p \in Known : o \in fields[p]
      BY <1>3
    <2>2. p \in Obj
      BY TopFacts DEF Known, InFinalizer, At
    <2>. QED  BY <2>1, <2>2 DEF ReferencesCounted, Parents
  <1>. QED  BY <1>2, <1>3 DEF Reach

\* One more reference to a usable object.
LEMMA IncrefCounts ==
    ASSUME TypeOk, ReferencesCounted, NEW o \in Obj, Usable(o), Incref(o), UNCHANGED life,
           \A p \in Obj \ {o} : Holders(p)' = Holders(p) /\ Parents(p)' = Parents(p),
           \/ /\ Parents(o)' = Parents(o)
              /\ \E v : v \notin Holders(o) /\ Holders(o)' = Holders(o) \cup {v}
           \/ /\ Holders(o)' = Holders(o)
              /\ \E q : q \notin Parents(o) /\ Parents(o)' = Parents(o) \cup {q}
    PROVE  ReferencesCounted' /\ ref' \in [Obj -> Nat]
  <1>1. ref' \in [Obj -> Nat] /\ ref'[o] = ref[o] + 1 /\ \A p \in Obj \ {o} : ref'[p] = ref[p]
    BY DEF Incref, TypeOk
  <1>2. \A p \in Obj : Usable(p)' = Usable(p) /\ Self(p)' = Self(p)
    BY DEF Usable, Self
  <1>3. Cardinality(Holders(o))' + Cardinality(Parents(o))'
          = Cardinality(Holders(o)) + Cardinality(Parents(o)) + 1
    BY AddMember, ReferrersFinite
  <1>4. ref[o] = Cardinality(Holders(o)) + Cardinality(Parents(o)) + Self(o) /\ ref[o] \in Nat
    BY DEF ReferencesCounted, TypeOk
  <1>5. ref'[o] = Cardinality(Holders(o))' + Cardinality(Parents(o))' + Self(o)' /\ ref'[o] > 0
    <2>1. Self(o) \in Nat
      BY DEF Self
    <2>2. /\ Cardinality(Holders(o)) \in Nat
          /\ Cardinality(Parents(o)) \in Nat
      BY ReferrersFinite
    <2>. QED  BY <1>1, <1>2, <1>3, <1>4, <2>1, <2>2
  <1>. QED  BY <1>1, <1>2, <1>5 DEF ReferencesCounted

\* One reference less: an object that is no longer referred to starts to die.
LEMMA DecrefCounts ==
    ASSUME TypeOk, ReferencesCounted, NEW o \in Obj, Decref(o),
           \A p \in Obj \ {o} : Holders(p)' = Holders(p) /\ Parents(p)' = Parents(p),
           \/ Parents(o)' = Parents(o) /\ \E v \in Holders(o) : Holders(o)' = Holders(o) \ {v}
           \/ Holders(o)' = Holders(o) /\ \E q \in Parents(o) : Parents(o)' = Parents(o) \ {q}
    PROVE  /\ ReferencesCounted'
           /\ ref' \in [Obj -> Nat] /\ life' \in [Obj -> Lives]
           /\ ref[o] = 1 => life[o] = "alive"
           /\ Usable(o)
  <1>1. Usable(o)
    BY DEF ReferencesCounted
  <1>2. /\ ref[o] = Cardinality(Holders(o)) + Cardinality(Parents(o)) + Self(o)
        /\ ref[o] \in Nat \ {0}
    BY <1>1 DEF ReferencesCounted, TypeOk
  <1>3. /\ Cardinality(Holders(o)) \in Nat /\ Cardinality(Parents(o)) \in Nat
        /\ IsFiniteSet(Holders(o)) /\ IsFiniteSet(Parents(o))
        /\ Self(o) \in {0, 1}
    BY ReferrersFinite DEF Self
  <1>4. /\ Cardinality(Holders(o))' + Cardinality(Parents(o))'
             = Cardinality(Holders(o)) + Cardinality(Parents(o)) - 1
        /\ Cardinality(Holders(o)) + Cardinality(Parents(o)) >= 1
    <2>1. CASE Parents(o)' = Parents(o) /\ \E v \in Holders(o) : Holders(o)' = Holders(o) \ {v}
      <3>1. Cardinality(Holders(o)) \in Nat \ {0} /\ Cardinality(Holders(o)') = Cardinality(Holders(o)) - 1
        BY <2>1, <1>3, RemoveMember
      <3>. QED  BY <2>1, <1>3, <3>1
    <2>2. CASE Holders(o)' = Holders(o) /\ \E q \in Parents(o) : Parents(o)' = Parents(o) \ {q}
      <3>1. Cardinality(Parents(o)) \in Nat \ {0} /\ Cardinality(Parents(o)') = Cardinality(Parents(o)) - 1
        BY <2>2, <1>3, RemoveMember
      <3>. QED  BY <2>2, <1>3, <3>1
    <2>. QED  BY <2>1, <2>2
  <1>5. \A p \in Obj \ {o} :
           ref'[p] = ref[p] /\ life'[p] = life[p] /\ Usable(p)' = Usable(p) /\ Self(p)' = Self(p)
    BY DEF Decref, TypeOk, Usable, Self
  <1>6. CASE ref[o] # 1
    <2>1. ref' \in [Obj -> Nat] /\ ref'[o] = ref[o] - 1 /\ life' = life
      <3>1. ref' = [ref EXCEPT ![o] = ref[o] - 1] /\ life' = life
        BY <1>6 DEF Decref
      <3>. QED  BY <1>2, <3>1 DEF TypeOk
    <2>2. /\ Usable(o)' /\ Self(o)' = Self(o)
          /\ ref'[o] = Cardinality(Holders(o))' + Cardinality(Parents(o))' + Self(o)' /\ ref'[o] > 0
      BY <1>1, <1>2, <1>3, <1>4, <1>6, <2>1 DEF Usable, Self
    <2>. QED  BY <1>1, <1>5, <1>6, <2>1, <2>2 DEF ReferencesCounted, TypeOk
  <1>7. CASE ref[o] = 1
    <2>1. /\ ref' \in [Obj -> Nat] /\ life'[o] = "dying" /\ life' \in [Obj -> Lives]
      <3>1. ref' = [ref EXCEPT ![o] = 0] /\ life' = [life EXCEPT ![o] = "dying"]
        BY <1>7 DEF Decref
      <3>. QED  BY <3>1 DEF TypeOk, Lives
    <2>2. Self(o) = 0 /\ life[o] = "alive"
      BY <1>1, <1>2, <1>3, <1>4, <1>7 DEF Self, Usable
    <2>3. Holders(o)' = {} /\ Parents(o)' = {}
      <3>1. Cardinality(Holders(o)) + Cardinality(Parents(o)) = 1
        BY <1>2, <1>3, <1>7, <2>2
      <3>2. CASE Parents(o)' = Parents(o) /\ \E v \in Holders(o) : Holders(o)' = Holders(o) \ {v}
        <4>1. PICK v \in Holders(o) : Holders(o)' = Holders(o) \ {v}
          BY <3>2
        <4>2. Cardinality(Holders(o)) \in Nat \ {0} /\ (Cardinality(Holders(o)) = 1 => Holders(o) = {v})
          BY <1>3, RemoveMember
        <4>3. Cardinality(Holders(o)) = 1 /\ Cardinality(Parents(o)) = 0
          BY <1>3, <3>1, <4>2
        <4>4. Parents(o) = {}
          BY <1>3, <4>3, FS_EmptySet
        <4>. QED  BY <3>2, <4>1, <4>2, <4>3, <4>4
      <3>3. CASE Holders(o)' = Holders(o) /\ \E q \in Parents(o) : Parents(o)' = Parents(o) \ {q}
        <4>1. PICK q \in Parents(o) : Parents(o)' = Parents(o) \ {q}
          BY <3>3
        <4>2. Cardinality(Parents(o)) \in Nat \ {0} /\ (Cardinality(Parents(o)) = 1 => Parents(o) = {q})
          BY <1>3, RemoveMember
        <4>3. Cardinality(Parents(o)) = 1 /\ Cardinality(Holders(o)) = 0
          BY <1>3, <3>1, <4>2
        <4>4. Holders(o) = {}
          BY <1>3, <4>3, FS_EmptySet
        <4>. QED  BY <3>3, <4>1, <4>2, <4>3, <4>4
      <3>. QED  BY <3>2, <3>3
    <2>. QED  BY <1>1, <1>5, <1>7, <2>1, <2>2, <2>3 DEF ReferencesCounted, Usable
  <1>. QED  BY <1>6, <1>7

\* Nothing about the references changes but the life of objects that stay
\* usable without a finalizer, or stay unusable.
LEMMA CountsKept ==
    ASSUME TypeOk, ReferencesCounted, UNCHANGED <<env, fields>>,
           \A p \in Obj :
              /\ Usable(p) => ref'[p] = ref[p]
              /\ Usable(p)' = Usable(p) /\ Self(p)' = Self(p)
    PROVE  ReferencesCounted'
  <1>1. \A p \in Obj : Holders(p)' = Holders(p) /\ Parents(p)' = Parents(p)
    BY DEF Holders, Parents
  <1>. QED  BY <1>1 DEF ReferencesCounted

\* While code runs, and while the contents of an object are released, no
\* object is between the clearing of its weak references and its finalizers.
LEMMA NoneClearing ==
    ASSUME CodeRuns \/ At("contents") \/ At("leave") \/ At("settle"), NEW o \in Obj
    PROVE  ~Clearing(o)
  BY DEF CodeRuns, InCallback, InFinalizer, At, Clearing

\* A reference that goes leaves the frames, the queues and the weak references
\* as they should be.
LEMMA DecrefFrames ==
    ASSUME TypeOk, FramesOk, QueuesOk, WeakrefsOk, DepthsOk, NEW o \in Obj, Decref(o),
           ref[o] = 1 => life[o] = "alive", life' \in [Obj -> Lives],
           UNCHANGED <<kind, weakrefs, releaseDepth, finalizerDepth, pendingReleases, pendingFinalizations>>,
           \A p \in Obj : ~Clearing(p)
    PROVE  FramesOk' /\ QueuesOk' /\ WeakrefsOk' /\ DepthsOk' /\ stack' \in Seq(FrameSet)
  <1>1. CASE ref[o] # 1
    <2>1. UNCHANGED <<life, stack>>
      BY <1>1 DEF Decref
    <2>2. FramesOk' /\ QueuesOk' /\ stack' \in Seq(FrameSet)
      BY <2>1, FramesKept, QueuesKept DEF TypeOk
    <2>3. WeakrefsOk'
      BY <2>1 DEF WeakrefsOk, Usable
    <2>4. DepthsOk'
      BY <2>1, DepthsKept
    <2>. QED  BY <2>2, <2>3, <2>4
  <1>2. CASE ref[o] = 1
    <2>. DEFINE f == ReleaseZero(o)
    <2>1. life[o] = "alive" /\ life' = [life EXCEPT ![o] = "dying"] /\ Push(f)
      BY <1>2 DEF Decref
    <2>2. /\ f \in FrameSet /\ f.obj = o /\ f.pc = IF kind[o] = "plain" THEN "settle" ELSE "clear"
      BY DEF ReleaseZero, FrameSet, Pcs, Finalizers
    <2>3. life'[o] = "dying" /\ \A p \in Obj \ {o} : life'[p] = life[p]
      BY <2>1 DEF TypeOk
    <2>4. \A i \in 1 .. Len(stack) : stack[i].obj # o /\ stack[i].obj \in Obj
      BY <2>1, StackFacts DEF FramesOk, FrameOk, FrameShape
    <2>5. \A i \in 1 .. Len(stack) : stack[i].obj # f.obj /\ life'[stack[i].obj] = life[stack[i].obj]
      BY <2>2, <2>3, <2>4
    <2>6. f.pc \notin {"running", "leave"} /\ FrameShape(f) /\ f.pc # "contents" /\ ~Finalizing(f)
      BY DEF ReleaseZero, FrameShape, Finalizers, Finalizing
    <2>. HIDE DEF f
    <2>6a. DepthsOk'
      BY <2>1, <2>2, <2>6, DepthsPush
    <2>7. FramesOk' /\ stack' \in Seq(FrameSet) /\ stack' # <<>> /\ Top' = f
      BY <2>1, <2>2, <2>3, <2>5, <2>6, PushFrame
    <2>8. QueuesOk'
      BY <2>1, <2>3, QueuesKept
    <2>9. WeakrefsOk'
      <3>1. ASSUME NEW p \in Obj, weakrefs'[p] # <<>> PROVE kind'[p] # "plain" /\ (Usable(p)' \/ Clearing(p)')
        <4>1. kind[p] # "plain" /\ Usable(p)
          BY <3>1 DEF WeakrefsOk
        <4>2. CASE p = o
          BY <4>1, <4>2, <2>2, <2>7 DEF Clearing
        <4>3. CASE p # o
          BY <4>1, <4>3, <2>3 DEF Usable
        <4>. QED  BY <4>1, <4>2, <4>3
      <3>. QED  BY <3>1 DEF WeakrefsOk
    <2>. QED  BY <2>6a, <2>7, <2>8, <2>9
  <1>. QED  BY <1>1, <1>2

-----------------------------------------------------------------------------
(* The invariant holds initially and every action keeps it.                *)

LEMMA InitOk == Init => IInv
  <1>. SUFFICES ASSUME Init PROVE IInv
    OBVIOUS
  <1>1. TypeOk
    BY DEF Init, TypeOk, Lives, AllKinds, FrameSet
  <1>2. ReferencesCounted
    BY LifetimeAssumption DEF Init, ReferencesCounted, Usable, Holders, Parents
  <1>3. FramesOk /\ QueuesOk /\ WeakrefsOk
    BY DEF Init, FramesOk, QueuesOk, QueueOk, Apart, WeakrefsOk
  <1>4. DepthsOk
    <2>. DEFINE zero  == [release |-> 0, finalizer |-> 0]
                entry == [i \in 1 .. 1 |-> zero]
    <2>1. stack = <<>> /\ Len(stack) = 0 /\ Now = zero
      BY DEF Init, Now
    <2>2. Entries(entry, stack) /\ entry[Len(stack) + 1] = Now
      BY <2>1 DEF Entries, Depths
    <2>. QED  BY <2>2 DEF DepthsOk
  <1>. QED  BY <1>1, <1>2, <1>3, <1>4 DEF IInv

LEMMA CreateOk ==
    ASSUME IInv, NEW o \in Obj, NEW k \in Kinds, NEW v \in Var, Create(o, k, v)
    PROVE  IInv'
  <1>. USE DEF IInv
  <1>1. /\ life[o] = "unborn" /\ life' = [life EXCEPT ![o] = "alive"]
        /\ kind' = [kind EXCEPT ![o] = k] /\ ref' = [ref EXCEPT ![o] = 1]
        /\ env[v] = None /\ env' = [env EXCEPT ![v] = o]
        /\ UNCHANGED <<fields, spent, stack, weakrefs, shape, releaseDepth, finalizerDepth,
                       pendingReleases, pendingFinalizations>>
    BY DEF Create, weakVars, queueVars
  <1>2. TypeOk'
    BY <1>1, LifetimeAssumption DEF TypeOk, Lives
  <1>3. /\ life'[o] = "alive" /\ ref'[o] = 1 /\ env'[v] = o
        /\ \A p \in Obj \ {o} : life'[p] = life[p] /\ kind'[p] = kind[p] /\ ref'[p] = ref[p]
        /\ \A u \in Var \ {v} : env'[u] = env[u]
    BY <1>1 DEF TypeOk
  <1>4. ReferencesCounted'
    <2>1. Holders(o) = {} /\ Parents(o) = {}
      BY <1>1 DEF ReferencesCounted, Usable
    <2>2. Holders(o)' = {v} /\ Parents(o)' = {} /\ Self(o)' = 0
      BY <1>1, <1>3, <2>1 DEF Holders, Parents, Self
    <2>3. Cardinality({v}) = 1 /\ Cardinality({}) = 0
      BY FS_Singleton, FS_EmptySet
    <2>4. \A p \in Obj \ {o} : Holders(p)' = Holders(p)
      BY <1>1, <1>3, LifetimeAssumption DEF Holders
    <2>5. \A p \in Obj \ {o} : Parents(p)' = Parents(p) /\ Self(p)' = Self(p) /\ Usable(p)' = Usable(p)
      BY <1>1, <1>3 DEF Parents, Self, Usable
    <2>6. /\ ref'[o] = Cardinality(Holders(o)') + Cardinality(Parents(o)') + Self(o)' /\ ref'[o] > 0
          /\ Usable(o)'
      BY <1>3, <2>2, <2>3 DEF Usable
    <2>. QED  BY <1>3, <2>4, <2>5, <2>6 DEF ReferencesCounted
  <1>5. FramesOk'
    BY <1>1, <1>3, StackFacts, FramesKept DEF FramesOk, FrameOk, FrameShape
  <1>6. QueuesOk'
    BY <1>1, <1>3, QueuesKept
  <1>7. WeakrefsOk'
    <2>1. ~Clearing(o) /\ weakrefs[o] = <<>>
      <3>1. ~Clearing(o)
        BY NoneClearing DEF Create
      <3>. QED  BY <1>1, <3>1 DEF WeakrefsOk, Usable
    <2>. QED  BY <1>1, <1>3, <2>1 DEF WeakrefsOk, Usable, Clearing, Top
  <1>8. DepthsOk'
    BY <1>1, DepthsKept
  <1>. QED  BY <1>2, <1>4, <1>5, <1>6, <1>7, <1>8

LEMMA LoadOk ==
    ASSUME IInv, NEW o \in Obj, NEW v \in Var, CodeRuns, Usable(o),
           env[v] = None, env' = [env EXCEPT ![v] = o], Incref(o),
           UNCHANGED <<life, kind, fields, spent, stack, weakVars, queueVars>>
    PROVE  IInv'
  <1>. USE DEF IInv
  <1>1. UNCHANGED <<life, kind, fields, spent, stack, weakrefs, shape, releaseDepth, finalizerDepth,
                    pendingReleases, pendingFinalizations>>
    BY DEF weakVars, queueVars
  <1>2. env'[v] = o /\ env' \in [Var -> Obj \cup {None}] /\ \A u \in Var \ {v} : env'[u] = env[u]
    BY DEF TypeOk
  <1>3. /\ Holders(o)' = Holders(o) \cup {v} /\ v \notin Holders(o)
        /\ \A p \in Obj \ {o} : Holders(p)' = Holders(p)
    BY <1>2, LifetimeAssumption DEF Holders
  <1>4. \A p \in Obj : Parents(p)' = Parents(p)
    BY <1>1 DEF Parents
  <1>5. ReferencesCounted' /\ ref' \in [Obj -> Nat]
    BY <1>1, <1>3, <1>4, IncrefCounts
  <1>6. TypeOk'
    BY <1>1, <1>2, <1>5 DEF TypeOk
  <1>7. FramesOk' /\ QueuesOk'
    BY <1>1, FramesKept, QueuesKept
  <1>8. WeakrefsOk'
    BY <1>1 DEF WeakrefsOk, Usable, Clearing, Top
  <1>9. DepthsOk'
    BY <1>1, DepthsKept
  <1>. QED  BY <1>5, <1>6, <1>7, <1>8, <1>9

LEMMA StoreOk ==
    ASSUME IInv, NEW p \in Obj, NEW o \in Obj, Store(p, o)
    PROVE  IInv'
  <1>. USE DEF IInv
  <1>1. /\ o \in Known /\ o \notin fields[p]
        /\ fields' = [fields EXCEPT ![p] = fields[p] \cup {o}] /\ Incref(o)
        /\ UNCHANGED <<life, kind, env, spent, stack, weakrefs, shape, releaseDepth, finalizerDepth,
                       pendingReleases, pendingFinalizations>>
    BY DEF Store, weakVars, queueVars
  <1>2. Usable(o)
    BY <1>1, ReferredUsable DEF Reach, Store
  <1>3. /\ fields'[p] = fields[p] \cup {o} /\ fields' \in [Obj -> SUBSET Obj]
        /\ \A q \in Obj \ {p} : fields'[q] = fields[q]
    BY <1>1 DEF TypeOk
  <1>4. /\ Parents(o)' = Parents(o) \cup {p} /\ p \notin Parents(o)
        /\ \A q \in Obj \ {o} : Parents(q)' = Parents(q)
    BY <1>1, <1>3 DEF Parents
  <1>5. \A q \in Obj : Holders(q)' = Holders(q)
    BY <1>1 DEF Holders
  <1>6. ReferencesCounted' /\ ref' \in [Obj -> Nat]
    BY <1>1, <1>2, <1>4, <1>5, IncrefCounts
  <1>7. TypeOk'
    BY <1>1, <1>3, <1>6 DEF TypeOk
  <1>8. FramesOk' /\ QueuesOk'
    BY <1>1, FramesKept, QueuesKept
  <1>9. WeakrefsOk'
    BY <1>1 DEF WeakrefsOk, Usable, Clearing, Top
  <1>10. DepthsOk'
    BY <1>1, DepthsKept
  <1>. QED  BY <1>6, <1>7, <1>8, <1>9, <1>10

LEMMA DropOk ==
    ASSUME IInv, NEW v \in Var, Drop(v)
    PROVE  IInv'
  <1>. USE DEF IInv
  <1>0. PICK o \in Obj : o = env[v]
    BY DEF Drop, TypeOk
  <1>1. /\ CodeRuns /\ env' = [env EXCEPT ![v] = None] /\ Decref(o)
        /\ UNCHANGED <<kind, fields, spent, weakrefs, shape, releaseDepth, finalizerDepth,
                       pendingReleases, pendingFinalizations>>
    BY <1>0 DEF Drop, weakVars, queueVars
  <1>2. v \in Holders(o)
    BY <1>0 DEF Holders
  <1>3. env'[v] = None /\ env' \in [Var -> Obj \cup {None}] /\ \A u \in Var \ {v} : env'[u] = env[u]
    BY <1>1 DEF TypeOk
  <1>4. /\ Holders(o)' = Holders(o) \ {v}
        /\ \A p \in Obj \ {o} : Holders(p)' = Holders(p)
    BY <1>0, <1>1, <1>2, <1>3, LifetimeAssumption DEF Holders
  <1>5. \A p \in Obj : Parents(p)' = Parents(p)
    BY <1>1 DEF Parents
  <1>6. /\ ReferencesCounted' /\ ref' \in [Obj -> Nat] /\ life' \in [Obj -> Lives]
        /\ ref[o] = 1 => life[o] = "alive"
    BY <1>1, <1>2, <1>4, <1>5, DecrefCounts
  <1>7. FramesOk' /\ QueuesOk' /\ WeakrefsOk' /\ DepthsOk' /\ stack' \in Seq(FrameSet)
    BY <1>1, <1>6, NoneClearing, DecrefFrames
  <1>8. TypeOk'
    BY <1>1, <1>3, <1>6, <1>7 DEF TypeOk
  <1>. QED  BY <1>6, <1>7, <1>8

\* A reference an object holds goes: code deletes it, or the object dies.
LEMMA UnstoreOk ==
    ASSUME IInv, NEW p \in Obj, NEW o \in Obj, CodeRuns \/ At("contents"),
           o \in fields[p], fields' = [fields EXCEPT ![p] = @ \ {o}], Decref(o),
           UNCHANGED <<kind, env, spent, weakVars, queueVars>>
    PROVE  IInv'
  <1>. USE DEF IInv
  <1>1. UNCHANGED <<kind, env, spent, weakrefs, shape, releaseDepth, finalizerDepth,
                    pendingReleases, pendingFinalizations>>
    BY DEF weakVars, queueVars
  <1>2. /\ fields'[p] = fields[p] \ {o} /\ fields' \in [Obj -> SUBSET Obj]
        /\ \A q \in Obj \ {p} : fields'[q] = fields[q]
    BY DEF TypeOk
  <1>3. /\ p \in Parents(o) /\ Parents(o)' = Parents(o) \ {p}
        /\ \A q \in Obj \ {o} : Parents(q)' = Parents(q)
    BY <1>2 DEF Parents
  <1>4. \A q \in Obj : Holders(q)' = Holders(q)
    BY <1>1 DEF Holders
  <1>5. /\ ReferencesCounted' /\ ref' \in [Obj -> Nat] /\ life' \in [Obj -> Lives]
        /\ ref[o] = 1 => life[o] = "alive"
    BY <1>3, <1>4, DecrefCounts
  <1>6. FramesOk' /\ QueuesOk' /\ WeakrefsOk' /\ DepthsOk' /\ stack' \in Seq(FrameSet)
    BY <1>1, <1>5, NoneClearing, DecrefFrames
  <1>7. TypeOk'
    BY <1>1, <1>2, <1>5, <1>6 DEF TypeOk
  <1>. QED  BY <1>5, <1>6, <1>7

LEMMA WeakGetOk ==
    ASSUME IInv, NEW w \in Weak, NEW o \in Obj, NEW v \in Var, WeakGet(w, o, v)
    PROVE  IInv'
  <1>1. CodeRuns /\ weakrefs[o] # <<>>
    BY DEF WeakGet
  <1>2. Usable(o)
    BY <1>1, NoneClearing DEF IInv, WeakrefsOk
  <1>. QED  BY <1>1, <1>2, LoadOk DEF WeakGet

LEMMA InsertAfterType ==
    ASSUME NEW S, NEW s \in Seq(S), NEW n \in Nat, n <= Len(s), NEW e \in S
    PROVE  InsertAfter(s, n, e) \in Seq(S) /\ InsertAfter(s, n, e) # <<>>
  <1>1. Len(s) \in Nat /\ \A i \in 1 .. Len(s) : s[i] \in S
    OBVIOUS
  <1>2. \A i \in 1 .. Len(s) + 1 :
           (IF i <= n THEN s[i] ELSE IF i = n + 1 THEN e ELSE s[i - 1]) \in S
    <2>1. ASSUME NEW i \in 1 .. Len(s) + 1
          PROVE  (IF i <= n THEN s[i] ELSE IF i = n + 1 THEN e ELSE s[i - 1]) \in S
      <3>1. i <= n => i \in 1 .. Len(s)
        BY <1>1, <2>1
      <3>2. i > n + 1 => i - 1 \in 1 .. Len(s)
        BY <1>1, <2>1
      <3>. QED  BY <1>1, <3>1, <3>2, <2>1
    <2>. QED  BY <2>1
  <1>. DEFINE f(i) == IF i <= n THEN s[i] ELSE IF i = n + 1 THEN e ELSE s[i - 1]
              m == Len(s) + 1
  <1>3. m \in Nat /\ m > 0 /\ \A i \in 1 .. m : f(i) \in S
    BY <1>1, <1>2
  <1>4. InsertAfter(s, n, e) = [i \in 1 .. m |-> f(i)]
    BY DEF InsertAfter
  <1>. HIDE DEF f, m
  <1>. QED  BY <1>3, <1>4

LEMMA WithoutType ==
    ASSUME NEW S, NEW s \in Seq(S), NEW n \in 1 .. Len(s)
    PROVE  Without(s, n) \in Seq(S)
  <1>1. Len(s) \in Nat /\ \A i \in 1 .. Len(s) : s[i] \in S
    OBVIOUS
  <1>. DEFINE f(i) == IF i < n THEN s[i] ELSE s[i + 1]
              m == Len(s) - 1
  <1>2. m \in Nat /\ \A i \in 1 .. m : f(i) \in S
    <2>1. \A i \in 1 .. m : i \in 1 .. Len(s) /\ i + 1 \in 1 .. Len(s)
      BY <1>1
    <2>. QED  BY <1>1, <2>1
  <1>3. Without(s, n) = [i \in 1 .. m |-> f(i)]
    BY DEF Without
  <1>. HIDE DEF f, m
  <1>. QED  BY <1>2, <1>3

LEMMA BeforeType ==
    ASSUME NEW s \in Seq(Weak), NEW t, NEW cb
    PROVE  Before(s, t, cb) \in Nat /\ Before(s, t, cb) <= Len(s)
  <1>1. Len(s) \in Nat /\ (s # <<>> => Len(s) > 0)
    OBVIOUS
  <1>. QED  BY <1>1 DEF Before, Basics, RefFirst

\* Code adds or removes weak references of an object.
LEMMA WeakrefsChange ==
    ASSUME IInv, NEW o \in Obj, NEW s \in Seq(Weak), CodeRuns,
           weakrefs' = [weakrefs EXCEPT ![o] = s],
           kind[o] # "plain" /\ Usable(o),
           shape' \in [Weak -> Shapes \cup {None}],
           UNCHANGED <<heapVars, stack, queueVars>>
    PROVE  IInv'
  <1>. USE DEF IInv
  <1>1. UNCHANGED <<life, kind, ref, fields, env, spent, stack, releaseDepth, finalizerDepth,
                    pendingReleases, pendingFinalizations>>
    BY DEF heapVars, queueVars
  <1>2. weakrefs' \in [Obj -> Seq(Weak)] /\ \A p \in Obj \ {o} : weakrefs'[p] = weakrefs[p]
    BY DEF TypeOk
  <1>3. TypeOk'
    BY <1>1, <1>2 DEF TypeOk
  <1>4. ReferencesCounted' /\ FramesOk' /\ QueuesOk'
    BY <1>1, CountsKept, FramesKept, QueuesKept DEF Usable, Self
  <1>5. WeakrefsOk'
    <2>1. \A p \in Obj : weakrefs'[p] # <<>> => kind[p] # "plain" /\ Usable(p)
      BY <1>2, NoneClearing DEF WeakrefsOk
    <2>. QED  BY <1>1, <2>1 DEF WeakrefsOk, Usable
  <1>6. DepthsOk'
    BY <1>1, DepthsKept
  <1>. QED  BY <1>3, <1>4, <1>5, <1>6

LEMMA NewWeakOk ==
    ASSUME IInv, NEW w \in Weak, NEW o \in Obj, NEW t \in {"ref", "proxy"}, NEW cb \in BOOLEAN,
           NewWeak(w, o, t, cb)
    PROVE  IInv'
  <1>1. weakrefs[o] \in Seq(Weak) /\ TypeOk /\ ReferencesCounted /\ FramesOk
    BY DEF IInv, TypeOk
  <1>. DEFINE s == InsertAfter(weakrefs[o], Before(weakrefs[o], t, cb), w)
  <1>2. /\ CodeRuns /\ o \in Known /\ kind[o] # "plain"
        /\ weakrefs' = [weakrefs EXCEPT ![o] = s]
        /\ shape' = [shape EXCEPT ![w] = [type |-> t, callback |-> cb]]
        /\ UNCHANGED <<heapVars, stack, queueVars>>
    BY DEF NewWeak, Weakable
  <1>3. s \in Seq(Weak)
    BY <1>1, BeforeType, InsertAfterType
  <1>4. shape' \in [Weak -> Shapes \cup {None}]
    BY <1>1, <1>2 DEF TypeOk, Shapes
  <1>5. Usable(o)
    BY <1>1, <1>2, ReferredUsable DEF Reach
  <1>. HIDE DEF s
  <1>. QED  BY <1>2, <1>3, <1>4, <1>5, WeakrefsChange

LEMMA WeakDestroyOk ==
    ASSUME IInv, NEW w \in Weak, NEW o \in Obj, WeakDestroy(w, o)
    PROVE  IInv'
  <1>1. weakrefs[o] \in Seq(Weak) /\ shape \in [Weak -> Shapes \cup {None}]
    BY DEF IInv, TypeOk
  <1>2. PICK i \in 1 .. Len(weakrefs[o]) : weakrefs' = [weakrefs EXCEPT ![o] = Without(weakrefs[o], i)]
    BY DEF WeakDestroy
  <1>3. CodeRuns /\ UNCHANGED <<heapVars, shape, stack, queueVars>>
    BY DEF WeakDestroy
  <1>4. Without(weakrefs[o], i) \in Seq(Weak)
    BY <1>1, WithoutType
  <1>5. kind[o] # "plain" /\ Usable(o)
    <2>1. weakrefs[o] # <<>>
      BY <1>2
    <2>. QED  BY <1>3, <2>1, NoneClearing DEF IInv, WeakrefsOk
  <1>. QED  BY <1>1, <1>2, <1>3, <1>4, <1>5, WeakrefsChange

-----------------------------------------------------------------------------
(* The steps of the innermost frame.                                       *)

LEMMA TopLife ==
    ASSUME TypeOk, FramesOk, stack # <<>>
    PROVE  life[Top.obj] = IF Top.pc \in {"running", "leave"} THEN "finalizing" ELSE "dying"
  <1>1. Len(stack) \in 1 .. Len(stack)
    BY TopFacts
  <1>. QED  BY <1>1 DEF FramesOk, FrameOk, FrameShape, Top

\* Only the object of the innermost frame changes its life, which goes on.
LEMMA StepFrame ==
    ASSUME TypeOk, FramesOk, stack # <<>>, NEW f \in FrameSet, Become(f), f.obj = Top.obj,
           life'[f.obj] = IF f.pc \in {"running", "leave"} THEN "finalizing" ELSE "dying",
           FrameShape(f),
           \A p \in Obj \ {Top.obj} : life'[p] = life[p]
    PROVE  FramesOk' /\ stack' \in Seq(FrameSet) /\ stack' # <<>> /\ Top' = f
  <1>1. Len(stack) \in Nat \ {0} /\ Len(stack) \in 1 .. Len(stack)
    BY PopFacts, TopFacts DEF TypeOk
  <1>2. ASSUME NEW i \in 1 .. Len(stack) - 1
        PROVE  stack[i].obj # f.obj /\ life'[stack[i].obj] = life[stack[i].obj]
    <2>1. i \in 1 .. Len(stack) /\ i # Len(stack)
      BY <1>1
    <2>2. stack[i].obj \in Obj
      BY <2>1, StackFacts
    <2>3. stack[i].obj # Top.obj
      BY <1>1, <2>1 DEF FramesOk, Top
    <2>. QED  BY <2>2, <2>3
  <1>. QED  BY <1>2, BecomeFrame

\* A step of the innermost frame that leaves every life as it is.
LEMMA SameLifeStep ==
    ASSUME IInv, stack # <<>>, NEW f \in FrameSet, Become(f), f.obj = Top.obj,
           f.pc \in {"running", "leave"} <=> Top.pc \in {"running", "leave"},
           FrameShape(f),
           UNCHANGED <<life, kind, ref, fields, env, shape, pendingReleases, pendingFinalizations>>,
           spent' \in [Obj -> BOOLEAN], releaseDepth' \in Nat, finalizerDepth' \in Nat,
           weakrefs' \in [Obj -> Seq(Weak)],
           \A p \in Obj : weakrefs'[p] # <<>> =>
              weakrefs[p] # <<>> /\ (Clearing(p) => Top.pc \in {"running", "leave"} \/ Clearing(p)'),
           \A d \in Depths : FrameDepths(Top, d, Now) => FrameDepths(f, d, Now')
    PROVE  IInv'
  <1>. USE DEF IInv
  <1>1. FramesOk' /\ stack' \in Seq(FrameSet) /\ stack' # <<>> /\ Top' = f
    BY TopLife, StepFrame
  <1>2. TypeOk'
    BY <1>1 DEF TypeOk
  <1>3. ReferencesCounted' /\ QueuesOk'
    BY CountsKept, QueuesKept DEF Usable, Self
  <1>4. WeakrefsOk'
    <2>1. ASSUME NEW p \in Obj, weakrefs'[p] # <<>> PROVE kind'[p] # "plain" /\ (Usable(p)' \/ Clearing(p)')
      <3>1. kind[p] # "plain" /\ (Usable(p) \/ Clearing(p))
        BY <2>1 DEF WeakrefsOk
      <3>2. CASE Clearing(p) /\ Top.pc \in {"running", "leave"}
        BY <3>2, TopLife DEF Clearing
      <3>. QED  BY <2>1, <3>1, <3>2 DEF Usable
    <2>. QED  BY <2>1 DEF WeakrefsOk
  <1>5. DepthsOk'
    <2>1. Now' \in Depths
      BY DEF Now, Depths
    <2>. QED  BY <2>1, DepthsBecome
  <1>. QED  BY <1>1, <1>2, <1>3, <1>4, <1>5

\* The same step where the depths stay as they are.
LEMMA SameDepths ==
    ASSUME NEW f, UNCHANGED <<releaseDepth, finalizerDepth>>,
           f.pc \in {"running", "leave"} <=> Top.pc \in {"running", "leave"},
           f.pc = "contents" <=> Top.pc = "contents",
           Finalizing(f) <=> Finalizing(Top), f.depth = Top.depth
    PROVE  \A d \in Depths : FrameDepths(Top, d, Now) => FrameDepths(f, d, Now')
  BY DEF FrameDepths, Now

LEMMA TopShape ==
    ASSUME TypeOk, FramesOk, stack # <<>>
    PROVE  FrameShape(Top)
  <1>1. Len(stack) \in 1 .. Len(stack)
    BY TopFacts
  <1>. QED  BY <1>1 DEF FramesOk, FrameOk, FrameShape, Top

LEMMA ReturnOk ==
    ASSUME IInv, Return
    PROVE  IInv'
  <1>1. stack # <<>> /\ Top \in FrameSet /\ Top.pc \in {"running", "calling"}
    BY TopFacts DEF Return, InFinalizer, InCallback, At, IInv
  <1>2. /\ UNCHANGED <<life, kind, ref, fields, env, weakrefs, shape, releaseDepth, finalizerDepth,
                       pendingReleases, pendingFinalizations>>
        /\ spent' \in [Obj -> BOOLEAN]
        /\ TypeOk
    BY DEF Return, IInv, TypeOk, weakVars, queueVars
  <1>3. \A p \in Obj : weakrefs'[p] # <<>> =>
           weakrefs[p] # <<>> /\ (Clearing(p) => Top.pc \in {"running", "leave"} \/ Clearing(p)')
    BY <1>1, <1>2 DEF Clearing
  <1>3a. weakrefs' \in [Obj -> Seq(Weak)] /\ releaseDepth' \in Nat /\ finalizerDepth' \in Nat
    BY <1>2 DEF TypeOk
  <1>4. CASE InFinalizer /\ Become([Top EXCEPT !.pc = "leave"])
    <2>. DEFINE f == [Top EXCEPT !.pc = "leave"]
    <2>1. /\ f \in FrameSet /\ f.obj = Top.obj /\ f.pc = "leave" /\ Top.pc = "running" /\ Become(f)
          /\ f.depth = Top.depth /\ f.after = Top.after
      BY <1>1, <1>4 DEF FrameSet, Pcs, InFinalizer, At
    <2>. HIDE DEF f
    <2>2. FrameShape(f)
      BY <1>1, <1>2, <2>1, TopShape DEF IInv, FrameShape
    <2>3. \A d \in Depths : FrameDepths(Top, d, Now) => FrameDepths(f, d, Now')
      BY <1>2, <2>1, SameDepths DEF Finalizing
    <2>. QED  BY <1>1, <1>2, <1>3, <1>3a, <1>4, <2>1, <2>2, <2>3, SameLifeStep
  <1>5. CASE InCallback /\ Become([Top EXCEPT !.pc = "calls", !.calls = Tail(Top.calls)])
    <2>. DEFINE f == [Top EXCEPT !.pc = "calls", !.calls = Tail(Top.calls)]
    <2>1. Top.pc = "calling" /\ Top.calls \in Seq(Weak) /\ Top.calls # <<>>
      <3>1. Top.pc = "calling" /\ Len(stack) \in 1 .. Len(stack)
        BY <1>1, <1>2, <1>5, TopFacts DEF InCallback, At
      <3>. QED  BY <1>1, <3>1 DEF IInv, FramesOk, FrameOk, FrameShape, FrameSet, Top
    <2>2. Tail(Top.calls) \in Seq(Weak)
      BY <2>1, TailFacts
    <2>3. /\ f \in FrameSet /\ f.obj = Top.obj /\ f.pc = "calls" /\ Become(f)
          /\ f.depth = Top.depth /\ f.after = Top.after
      BY <1>1, <1>5, <2>2 DEF FrameSet, Pcs
    <2>. HIDE DEF f
    <2>4. FrameShape(f)
      BY <1>1, <1>2, <2>1, <2>3, TopShape DEF IInv, FrameShape
    <2>5. \A d \in Depths : FrameDepths(Top, d, Now) => FrameDepths(f, d, Now')
      BY <1>2, <2>1, <2>3, SameDepths DEF Finalizing
    <2>. QED  BY <1>1, <1>2, <1>3, <1>3a, <1>5, <2>1, <2>3, <2>4, <2>5, SameLifeStep
  <1>. QED  BY <1>4, <1>5 DEF Return

LEMMA ClearWeakrefsOk ==
    ASSUME IInv, ClearWeakrefs
    PROVE  IInv'
  <1>. DEFINE o     == Top.obj
              again == Top.after = "done"
              skip  == OwnWeakList(o) /\ ~again
              f     == [Top EXCEPT !.pc = "calls",
                                   !.calls = IF again # OwnWeakList(o) THEN <<>> ELSE weakrefs[o]]
  <1>1. TypeOk /\ stack # <<>> /\ Top \in FrameSet /\ Top.pc = "clear" /\ o \in Obj
    BY TopFacts DEF ClearWeakrefs, At, IInv
  <1>2. /\ weakrefs' = IF skip THEN weakrefs ELSE [weakrefs EXCEPT ![o] = <<>>]
        /\ Become(f)
        /\ UNCHANGED <<life, kind, ref, fields, env, spent, shape, releaseDepth, finalizerDepth,
                       pendingReleases, pendingFinalizations>>
    BY DEF ClearWeakrefs, heapVars, queueVars
  <1>3. weakrefs[o] \in Seq(Weak) /\ <<>> \in Seq(Weak)
    BY <1>1 DEF TypeOk
  <1>4. /\ f \in FrameSet /\ f.obj = Top.obj /\ f.pc = "calls" /\ f.after = Top.after
        /\ f.calls = IF again # OwnWeakList(o) THEN <<>> ELSE weakrefs[o]
        /\ f.depth = Top.depth
    BY <1>1, <1>3 DEF FrameSet, Pcs
  <1>. HIDE DEF f
  <1>4a. FrameShape(f)
    BY <1>1, <1>4, TopShape DEF IInv, FrameShape
  <1>4b. \A d \in Depths : FrameDepths(Top, d, Now) => FrameDepths(f, d, Now')
    BY <1>1, <1>2, <1>4, SameDepths DEF Finalizing
  <1>4c. UNCHANGED <<life, kind, ref, fields, env, shape, pendingReleases, pendingFinalizations>>
         /\ spent' \in [Obj -> BOOLEAN] /\ releaseDepth' \in Nat /\ finalizerDepth' \in Nat
    BY <1>1, <1>2 DEF TypeOk
  <1>5. stack' # <<>> /\ Top' = f
    BY <1>1, <1>2, <1>4, <1>4a, TopLife, StepFrame DEF IInv
  <1>6. weakrefs' \in [Obj -> Seq(Weak)]
    BY <1>1, <1>2, <1>3 DEF TypeOk
  <1>7. ASSUME NEW p \in Obj, weakrefs'[p] # <<>>
        PROVE  weakrefs[p] # <<>> /\ (Clearing(p) => Clearing(p)')
    <2>1. CASE skip
      BY <1>2, <1>4, <1>5, <1>7, <2>1 DEF Clearing
    <2>2. CASE ~skip
      <3>1. p # o /\ weakrefs'[p] = weakrefs[p]
        BY <1>1, <1>2, <1>7, <2>2 DEF TypeOk
      <3>. QED  BY <1>7, <3>1 DEF Clearing
    <2>. QED  BY <2>1, <2>2
  <1>. QED  BY <1>1, <1>2, <1>4, <1>4a, <1>4b, <1>4c, <1>6, <1>7, SameLifeStep

LEMMA CallCallbacksOk ==
    ASSUME IInv, CallCallbacks
    PROVE  IInv'
  <1>1. /\ TypeOk /\ stack # <<>> /\ Top \in FrameSet /\ Top.pc = "calls"
        /\ Top.after \in {"none", "done"}
    BY TopFacts, TopShape DEF CallCallbacks, At, IInv, FrameSet, FrameShape
  <1>2. UNCHANGED <<life, kind, ref, fields, env, spent, weakrefs, shape, releaseDepth, finalizerDepth,
                    pendingReleases, pendingFinalizations>>
    BY DEF CallCallbacks, heapVars, weakVars, queueVars
  <1>3. PICK f : /\ Become(f) /\ f \in FrameSet /\ f.obj = Top.obj /\ f.pc \in Pcs \ {"running", "leave"}
                 /\ FrameShape(f) /\ f.depth = Top.depth /\ f.pc # "contents" /\ ~Finalizing(f)
                 /\ Top.calls = <<>> /\ Top.after # "done" => f.pc = "finalize"
    <2>1. CASE Top.calls = <<>>
      <3>. DEFINE f == [Top EXCEPT !.pc = IF Top.after = "done" THEN "settle" ELSE "finalize"]
      <3>1. /\ f \in FrameSet /\ f.obj = Top.obj /\ f.pc = IF Top.after = "done" THEN "settle" ELSE "finalize"
            /\ f.depth = Top.depth /\ f.after = Top.after
        BY <1>1 DEF FrameSet, Pcs
      <3>2. Become(f)
        BY <2>1 DEF CallCallbacks
      <3>. HIDE DEF f
      <3>. QED  BY <1>1, <2>1, <3>1, <3>2 DEF Pcs, FrameShape, Finalizing, Finalizers
    <2>2. CASE Top.calls # <<>> /\ shape[Head(Top.calls)].callback
      <3>. DEFINE f == [Top EXCEPT !.pc = "calling"]
      <3>1. /\ f \in FrameSet /\ f.obj = Top.obj /\ f.pc = "calling" /\ f.calls = Top.calls
            /\ f.depth = Top.depth /\ f.after = Top.after
        BY <1>1 DEF FrameSet, Pcs
      <3>2. Become(f)
        BY <2>2 DEF CallCallbacks
      <3>. HIDE DEF f
      <3>. QED  BY <1>1, <2>2, <3>1, <3>2 DEF Pcs, FrameShape, Finalizing, Finalizers
    <2>3. CASE Top.calls # <<>> /\ ~shape[Head(Top.calls)].callback
      <3>. DEFINE f == [Top EXCEPT !.calls = Tail(Top.calls)]
      <3>0. Top.calls \in Seq(Weak) /\ Tail(Top.calls) \in Seq(Weak)
        BY <1>1, <2>3, TailFacts DEF FrameSet
      <3>1. /\ f \in FrameSet /\ f.obj = Top.obj /\ f.pc = "calls"
            /\ f.depth = Top.depth /\ f.after = Top.after
        BY <1>1, <3>0 DEF FrameSet, Pcs
      <3>2. Become(f)
        BY <2>3 DEF CallCallbacks
      <3>. HIDE DEF f
      <3>. QED  BY <1>1, <2>3, <3>1, <3>2 DEF Pcs, FrameShape, Finalizing, Finalizers
    <2>. QED  BY <2>1, <2>2, <2>3
  <1>4. stack' # <<>> /\ Top' = f
    BY <1>1, <1>2, <1>3, TopLife, StepFrame DEF IInv
  <1>5. \A p \in Obj : Clearing(p) => Clearing(p)'
    BY <1>1, <1>3, <1>4 DEF Clearing
  <1>6. \A d \in Depths : FrameDepths(Top, d, Now) => FrameDepths(f, d, Now')
    BY <1>1, <1>2, <1>3, SameDepths DEF Finalizing
  <1>7. /\ spent' \in [Obj -> BOOLEAN] /\ releaseDepth' \in Nat /\ finalizerDepth' \in Nat
        /\ weakrefs' \in [Obj -> Seq(Weak)]
    BY <1>1, <1>2 DEF TypeOk
  <1>. QED  BY <1>1, <1>2, <1>3, <1>5, <1>6, <1>7, SameLifeStep

LEMMA FinalizedOk ==
    ASSUME IInv, Finalized
    PROVE  IInv'
  <1>. DEFINE f == [Top EXCEPT !.pc = "clear", !.after = "done"]
  <1>1. TypeOk /\ stack # <<>> /\ Top \in FrameSet /\ Top.pc = "finalize"
    BY TopFacts DEF Finalized, At, IInv
  <1>2. /\ Become(f)
        /\ UNCHANGED <<life, kind, ref, fields, env, spent, weakrefs, shape, finalizerDepth,
                       pendingReleases, pendingFinalizations>>
    BY DEF Finalized, heapVars, weakVars
  <1>3. f \in FrameSet /\ f.obj = Top.obj /\ f.pc = "clear" /\ f.after = "done"
    BY <1>1 DEF FrameSet, Pcs
  <1>4. releaseDepth' \in Nat
    BY <1>1 DEF Finalized, TypeOk, FrameSet
  <1>. HIDE DEF f
  <1>4a. FrameShape(f)
    BY <1>3 DEF FrameShape, Finalizers
  <1>5. stack' # <<>> /\ Top' = f
    BY <1>1, <1>2, <1>3, <1>4a, TopLife, StepFrame DEF IInv
  <1>6. \A p \in Obj : Clearing(p) => Clearing(p)'
    BY <1>3, <1>5 DEF Clearing
  <1>7. \A d \in Depths : FrameDepths(Top, d, Now) => FrameDepths(f, d, Now')
    BY <1>1, <1>2, <1>3 DEF Finalized, FrameDepths, Finalizing, Now
  <1>8. spent' \in [Obj -> BOOLEAN] /\ finalizerDepth' \in Nat /\ weakrefs' \in [Obj -> Seq(Weak)]
    BY <1>1, <1>2 DEF TypeOk
  <1>. QED  BY <1>1, <1>2, <1>3, <1>4, <1>4a, <1>6, <1>7, <1>8, SameLifeStep

\* The depths the innermost frame was entered with.
LEMMA DepthsBack ==
    ASSUME NEW d \in Depths, releaseDepth' = d.release, finalizerDepth' = d.finalizer
    PROVE  Now' = d
  BY DEF Depths, Now

\* Weak references stay right when no object with some changes its life, and
\* the object of the innermost frame keeps none or is usable then.
LEMMA WeakrefsKept ==
    ASSUME WeakrefsOk, UNCHANGED <<kind, weakrefs>>,
           \A p \in Obj : weakrefs[p] # <<>> /\ Usable(p) => Usable(p)',
           \A p \in Obj : weakrefs[p] # <<>> /\ Clearing(p) => Usable(p)' \/ Clearing(p)'
    PROVE  WeakrefsOk'
  BY DEF WeakrefsOk

LEMMA DeferFinalizersOk ==
    ASSUME IInv, DeferFinalizers
    PROVE  IInv'
  <1>. DEFINE o == Top.obj
  <1>1. TypeOk /\ FramesOk /\ QueuesOk /\ stack # <<>> /\ Top.pc = "finalize" /\ o \in Obj /\ life[o] = "dying"
    BY TopFacts, TopLife DEF DeferFinalizers, At, IInv
  <1>2. /\ weakrefs[o] = <<>>
        /\ pendingFinalizations' = <<o>> \o pendingFinalizations
        /\ life' = [life EXCEPT ![o] = "queued"]
        /\ Pop
        /\ UNCHANGED <<kind, ref, fields, env, spent, weakrefs, shape, releaseDepth, finalizerDepth,
                       pendingReleases>>
    BY DEF DeferFinalizers, Deferrable, weakVars
  <1>3. life'[o] = "queued" /\ life' \in [Obj -> Lives] /\ \A p \in Obj \ {o} : life'[p] = life[p]
    BY <1>1, <1>2 DEF TypeOk, Lives
  <1>4. FramesOk' /\ stack' \in Seq(FrameSet)
    BY <1>1, <1>2, <1>3, PopFrame
  <1>5. pendingReleases \in Seq(Obj) /\ pendingFinalizations \in Seq(Obj)
    BY <1>1 DEF TypeOk
  <1>6. /\ QueuesOk' /\ pendingFinalizations' \in Seq(Obj)
    <2>1. /\ QueueOk(life, pendingReleases) /\ QueueOk(life, pendingFinalizations)
          /\ Apart(pendingFinalizations, pendingReleases)
      BY <1>1 DEF QueuesOk, Apart
    <2>2. /\ QueueOk(life', <<o>> \o pendingFinalizations) /\ QueueOk(life', pendingReleases)
          /\ Apart(pendingReleases, <<o>> \o pendingFinalizations)
          /\ <<o>> \o pendingFinalizations \in Seq(Obj)
      BY <1>1, <1>3, <1>5, <2>1, QueuePush
    <2>. QED  BY <1>2, <2>2 DEF QueuesOk
  <1>7. TypeOk'
    BY <1>1, <1>2, <1>3, <1>4, <1>6 DEF TypeOk
  <1>8. ReferencesCounted'
    BY <1>1, <1>2, <1>3, CountsKept DEF IInv, Usable, Self
  <1>9. WeakrefsOk'
    BY <1>2, <1>3, WeakrefsKept DEF IInv, Usable, Clearing
  <1>10. DepthsOk'
    <2>1. ~Finalizing(Top) /\ releaseDepth \in Nat /\ finalizerDepth \in Nat
      BY <1>1 DEF Finalizing, DeferFinalizers, TypeOk
    <2>2. \A d \in Depths : FrameDepths(Top, d, Now) => Now' = d
      BY <1>1, <1>2, <2>1, DepthsBack DEF FrameDepths, Depths, Now
    <2>. QED  BY <1>1, <1>2, <2>2, DepthsPop DEF IInv
  <1>. QED  BY <1>4, <1>6, <1>7, <1>8, <1>9, <1>10 DEF IInv

LEMMA RunFinalizerOk ==
    ASSUME IInv, NEW g \in Finalizers, RunFinalizer(g)
    PROVE  IInv'
  <1>0. PICK o \in Obj : o = Top.obj
    BY TopFacts DEF RunFinalizer, At, IInv
  <1>. DEFINE runs    == ~(g = "native" /\ spent[o])
              entered == IF Top.after = "none" THEN releaseDepth ELSE Top.depth
              f       == [Top EXCEPT !.pc = IF runs THEN "running" ELSE "leave", !.after = g, !.depth = entered]
  <1>1. /\ TypeOk /\ FramesOk /\ ReferencesCounted /\ QueuesOk /\ WeakrefsOk
        /\ stack # <<>> /\ Top \in FrameSet /\ Top.pc = "finalize" /\ o \in Obj /\ life[o] = "dying"
    BY <1>0, TopFacts, TopLife DEF RunFinalizer, At, IInv
  <1>2. /\ life' = [life EXCEPT ![o] = "finalizing"]
        /\ ref' = [ref EXCEPT ![o] = 1]
        /\ spent' = [spent EXCEPT ![o] = @ \/ g \in {"close", "native"}]
        /\ Become(f)
        /\ finalizerDepth' = finalizerDepth + 1
        /\ releaseDepth' = IF releaseDepth >= ReleaseDeferDepth THEN ReleaseDeferDepth - 1 ELSE releaseDepth
        /\ UNCHANGED <<kind, fields, env, weakrefs, shape, pendingReleases, pendingFinalizations>>
    BY <1>0 DEF RunFinalizer, weakVars
  <1>3. /\ life'[o] = "finalizing" /\ life' \in [Obj -> Lives] /\ \A p \in Obj \ {o} : life'[p] = life[p]
        /\ ref'[o] = 1 /\ ref' \in [Obj -> Nat] /\ \A p \in Obj \ {o} : ref'[p] = ref[p]
        /\ finalizerDepth' \in Nat
    BY <1>1, <1>2 DEF TypeOk, Lives
  <1>4. releaseDepth' \in Nat
    BY <1>1, <1>2, LifetimeAssumption DEF TypeOk
  <1>5. spent' \in [Obj -> BOOLEAN]
    <2>1. spent \in [Obj -> BOOLEAN]
      BY <1>1 DEF TypeOk
    <2>. QED  BY <1>2, <2>1, Zenon
  <1>6. entered \in Nat
    BY <1>1 DEF TypeOk, FrameSet
  <1>7. /\ f \in FrameSet /\ f.obj = Top.obj /\ f.pc \in {"running", "leave"}
        /\ f.after = g /\ f.depth = entered
    BY <1>1, <1>6 DEF FrameSet, Pcs
  <1>. HIDE DEF f
  <1>7a. FrameShape(f)
    BY <1>7 DEF FrameShape
  <1>8. FramesOk' /\ stack' \in Seq(FrameSet) /\ stack' # <<>> /\ Top' = f
    BY <1>0, <1>1, <1>2, <1>3, <1>7, <1>7a, StepFrame
  <1>9. TypeOk'
    BY <1>1, <1>2, <1>3, <1>4, <1>5, <1>8 DEF TypeOk
  <1>10. ReferencesCounted'
    <2>1. Holders(o)' = {} /\ Parents(o)' = {} /\ Self(o)' = 1 /\ Usable(o)'
      <3>1. ~Usable(o)
        BY <1>1 DEF Usable
      <3>2. Holders(o) = {} /\ Parents(o) = {}
        BY <1>1, <3>1 DEF ReferencesCounted
      <3>3. {v \in Var : env'[v] = o} = {} /\ {p \in Obj : o \in fields'[p]} = {}
        BY <1>2, <3>2 DEF Holders, Parents
      <3>. QED  BY <1>3, <3>3 DEF Usable, Holders, Parents, Self
    <2>2. ref'[o] = Cardinality(Holders(o)') + Cardinality(Parents(o)') + Self(o)' /\ ref'[o] > 0
      BY <1>3, <2>1, FS_EmptySet
    <2>3. \A p \in Obj \ {o} :
             Holders(p)' = Holders(p) /\ Parents(p)' = Parents(p) /\ Self(p)' = Self(p) /\ Usable(p)' = Usable(p)
      BY <1>2, <1>3 DEF Holders, Parents, Self, Usable
    <2>. QED  BY <1>1, <1>3, <2>1, <2>2, <2>3 DEF ReferencesCounted
  <1>11. QueuesOk'
    BY <1>1, <1>2, <1>3, QueuesKept
  <1>12. WeakrefsOk'
    BY <1>0, <1>1, <1>2, <1>3, WeakrefsKept DEF Usable, Clearing
  <1>13. DepthsOk'
    <2>1. \A d \in Depths : FrameDepths(Top, d, Now) => FrameDepths(f, d, Now')
      BY <1>1, <1>2, <1>7, LifetimeAssumption DEF FrameDepths, Finalizing, Now, Depths, Under
    <2>2. Now' \in Depths
      BY <1>3, <1>4 DEF Now, Depths
    <2>. QED  BY <1>1, <1>2, <1>7, <2>1, <2>2, DepthsBecome DEF IInv
  <1>. QED  BY <1>8, <1>9, <1>10, <1>11, <1>12, <1>13 DEF IInv

LEMMA ReleasePendingFinalizationOk ==
    ASSUME IInv, ReleasePendingFinalization
    PROVE  IInv'
  <1>. DEFINE o == Head(pendingFinalizations)
              f == ReleaseZero(o)
  <1>1. /\ TypeOk /\ FramesOk /\ ReferencesCounted /\ QueuesOk /\ WeakrefsOk
        /\ At("leave") /\ pendingFinalizations # <<>>
        /\ life' = [life EXCEPT ![o] = "dying"] /\ Push(f)
        /\ pendingFinalizations' = Tail(pendingFinalizations)
        /\ UNCHANGED <<kind, ref, fields, env, spent, weakrefs, shape, releaseDepth, finalizerDepth,
                       pendingReleases>>
    BY DEF ReleasePendingFinalization, weakVars, IInv
  <1>2. pendingReleases \in Seq(Obj) /\ pendingFinalizations \in Seq(Obj)
    BY <1>1 DEF TypeOk
  <1>3. o \in Obj
    BY <1>1, <1>2, TailFacts
  <1>4. life'[o] = "dying" /\ life' \in [Obj -> Lives] /\ \A p \in Obj \ {o} : life'[p] = life[p]
    BY <1>1, <1>3 DEF TypeOk, Lives
  <1>5. /\ QueueOk(life', Tail(pendingFinalizations)) /\ QueueOk(life', pendingReleases)
        /\ Apart(pendingReleases, Tail(pendingFinalizations))
        /\ Tail(pendingFinalizations) \in Seq(Obj) /\ life[o] = "queued"
    BY <1>1, <1>2, <1>4, QueuePop DEF QueuesOk
  <1>6. QueuesOk'
    BY <1>1, <1>5 DEF QueuesOk
  <1>7. f \in FrameSet /\ f.obj = o /\ f.pc \notin {"running", "leave", "contents"}
    BY <1>3 DEF ReleaseZero, FrameSet, Pcs, Finalizers
  <1>7a. FrameShape(f) /\ ~Finalizing(f)
    BY DEF ReleaseZero, FrameShape, Finalizers, Finalizing
  <1>8. \A i \in 1 .. Len(stack) : stack[i].obj # o /\ stack[i].obj \in Obj
    BY <1>1, <1>5, StackFacts DEF FramesOk, FrameOk, FrameShape
  <1>9. \A i \in 1 .. Len(stack) : stack[i].obj # f.obj /\ life'[stack[i].obj] = life[stack[i].obj]
    BY <1>4, <1>7, <1>8
  <1>. HIDE DEF f, o
  <1>10. FramesOk' /\ stack' \in Seq(FrameSet)
    BY <1>1, <1>4, <1>7, <1>7a, <1>9, PushFrame
  <1>11. TypeOk'
    BY <1>1, <1>4, <1>5, <1>10 DEF TypeOk
  <1>12. ReferencesCounted'
    BY <1>1, <1>4, <1>5, CountsKept DEF Usable, Self
  <1>13. WeakrefsOk'
    BY <1>1, <1>4, <1>5, NoneClearing, WeakrefsKept DEF Usable
  <1>14. DepthsOk'
    BY <1>1, <1>7, <1>7a, DepthsPush DEF IInv
  <1>. QED  BY <1>6, <1>10, <1>11, <1>12, <1>13, <1>14 DEF IInv

LEMMA LeaveFinalizerOk ==
    ASSUME IInv, LeaveFinalizer
    PROVE  IInv'
  <1>0. PICK o \in Obj : o = Top.obj
    BY TopFacts DEF LeaveFinalizer, At, IInv
  <1>. DEFINE f == [Top EXCEPT !.pc = "finalize"]
  <1>1. /\ TypeOk /\ FramesOk /\ ReferencesCounted /\ QueuesOk /\ WeakrefsOk
        /\ stack # <<>> /\ Top \in FrameSet /\ Top.pc = "leave" /\ life[o] = "finalizing"
        /\ \A p \in Obj : ~Clearing(p)
    BY <1>0, TopFacts, TopLife, NoneClearing DEF LeaveFinalizer, At, IInv
  <1>2. /\ finalizerDepth' = finalizerDepth - 1
        /\ ref' = [ref EXCEPT ![o] = ref[o] - 1]
        /\ UNCHANGED <<kind, fields, env, spent, weakrefs, shape, pendingReleases, pendingFinalizations>>
    BY <1>0 DEF LeaveFinalizer, weakVars
  <1>2a. /\ releaseDepth \in Nat /\ finalizerDepth \in Nat
         /\ Finalizing(Top) /\ Top.after \in Finalizers
    BY <1>1, TopShape DEF TypeOk, Finalizing, FrameShape
  <1>2b. finalizerDepth' \in Nat
    <2>1. PICK d \in Depths : FrameDepths(Top, d, Now)
      BY <1>1, DepthsTop DEF IInv
    <2>. QED  BY <1>1, <1>2, <1>2a, <2>1 DEF FrameDepths, Now, Depths
  <1>3. /\ ref[o] = Cardinality(Holders(o)) + Cardinality(Parents(o)) + 1 /\ ref[o] \in Nat \ {0}
        /\ Cardinality(Holders(o)) \in Nat /\ Cardinality(Parents(o)) \in Nat
        /\ IsFiniteSet(Holders(o)) /\ IsFiniteSet(Parents(o))
    BY <1>1, ReferrersFinite DEF ReferencesCounted, Usable, Self, TypeOk
  <1>4. ref' \in [Obj -> Nat] /\ ref'[o] = ref[o] - 1 /\ \A p \in Obj \ {o} : ref'[p] = ref[p]
    BY <1>1, <1>2, <1>3 DEF TypeOk
  <1>5. \A p \in Obj : Holders(p)' = Holders(p) /\ Parents(p)' = Parents(p)
    BY <1>2 DEF Holders, Parents
  <1>6. CASE ref[o] # 1
    <2>1. life' = [life EXCEPT ![o] = "alive"] /\ releaseDepth' = Top.depth /\ Pop
      BY <1>0, <1>6 DEF LeaveFinalizer
    <2>2. life'[o] = "alive" /\ life' \in [Obj -> Lives] /\ \A p \in Obj \ {o} : life'[p] = life[p]
      BY <1>1, <2>1 DEF TypeOk, Lives
    <2>3. FramesOk' /\ stack' \in Seq(FrameSet)
      BY <1>0, <1>1, <2>1, <2>2, PopFrame
    <2>4. releaseDepth' \in Nat
      BY <1>1, <2>1 DEF FrameSet
    <2>5. ref'[o] = Cardinality(Holders(o)') + Cardinality(Parents(o)') + Self(o)' /\ ref'[o] > 0
      <3>1. Self(o)' = 0
        BY <2>2 DEF Self
      <3>. QED  BY <1>3, <1>4, <1>5, <1>6, <3>1
    <2>6. ReferencesCounted'
      <3>1. \A p \in Obj \ {o} : Self(p)' = Self(p) /\ Usable(p)' = Usable(p)
        BY <2>2 DEF Self, Usable
      <3>2. Usable(o)'
        BY <2>2 DEF Usable
      <3>. QED  BY <1>1, <1>4, <1>5, <2>5, <3>1, <3>2 DEF ReferencesCounted
    <2>7. QueuesOk'
      BY <1>1, <1>2, <2>2, QueuesKept
    <2>8. WeakrefsOk'
      BY <1>1, <1>2, <2>2, WeakrefsKept DEF Usable
    <2>9. DepthsOk'
      <3>1. \A d \in Depths : FrameDepths(Top, d, Now) => Now' = d
        BY <1>1, <1>2, <1>2a, <2>1, DepthsBack DEF FrameDepths, Depths, Now
      <3>. QED  BY <1>1, <2>1, <3>1, DepthsPop DEF IInv
    <2>10. TypeOk'
      BY <1>1, <1>2, <1>2b, <1>4, <2>2, <2>3, <2>4 DEF TypeOk
    <2>. QED  BY <2>3, <2>6, <2>7, <2>8, <2>9, <2>10 DEF IInv
  <1>7. CASE ref[o] = 1
    <2>1. life' = [life EXCEPT ![o] = "dying"] /\ UNCHANGED releaseDepth /\ Become(f)
      BY <1>0, <1>7 DEF LeaveFinalizer
    <2>2. life'[o] = "dying" /\ life' \in [Obj -> Lives] /\ \A p \in Obj \ {o} : life'[p] = life[p]
      BY <1>1, <2>1 DEF TypeOk, Lives
    <2>3. /\ f \in FrameSet /\ f.obj = Top.obj /\ f.pc = "finalize"
          /\ f.after = Top.after /\ f.depth = Top.depth
      BY <1>1 DEF FrameSet, Pcs
    <2>. HIDE DEF f
    <2>3a. FrameShape(f) /\ Finalizing(f)
      BY <1>2a, <2>3 DEF FrameShape, Finalizing, Finalizers
    <2>4. FramesOk' /\ stack' \in Seq(FrameSet) /\ stack' # <<>> /\ Top' = f
      BY <1>0, <1>1, <2>1, <2>2, <2>3, <2>3a, StepFrame
    <2>5. Holders(o) = {} /\ Parents(o) = {}
      BY <1>3, <1>7, FS_EmptySet
    <2>6. ReferencesCounted'
      <3>1. \A p \in Obj \ {o} : Self(p)' = Self(p) /\ Usable(p)' = Usable(p)
        BY <2>2 DEF Self, Usable
      <3>2. ~Usable(o)' /\ Holders(o)' = {} /\ Parents(o)' = {}
        BY <1>5, <2>2, <2>5 DEF Usable
      <3>. QED  BY <1>1, <1>4, <1>5, <3>1, <3>2 DEF ReferencesCounted
    <2>7. QueuesOk'
      BY <1>1, <1>2, <2>2, QueuesKept
    <2>8. WeakrefsOk'
      <3>1. Clearing(o)'
        BY <1>0, <2>3, <2>4 DEF Clearing
      <3>. QED  BY <1>1, <1>2, <2>2, <3>1 DEF WeakrefsOk, Usable
    <2>9. DepthsOk'
      <3>1. \A d \in Depths : FrameDepths(Top, d, Now) => FrameDepths(f, d, Now')
        BY <1>1, <1>2, <1>2a, <2>1, <2>3, <2>3a DEF FrameDepths, Depths, Now
      <3>2. Now' \in Depths
        BY <1>2a, <1>2b, <2>1 DEF Now, Depths
      <3>. QED  BY <1>1, <2>1, <2>3, <3>1, <3>2, DepthsBecome DEF IInv
    <2>10. TypeOk'
      BY <1>1, <1>2, <1>2b, <1>4, <2>1, <2>2, <2>4 DEF TypeOk
    <2>. QED  BY <2>4, <2>6, <2>7, <2>8, <2>9, <2>10 DEF IInv
  <1>. QED  BY <1>6, <1>7

LEMMA SettleOk ==
    ASSUME IInv, Settle
    PROVE  IInv'
  <1>0. PICK o \in Obj : o = Top.obj
    BY TopFacts DEF Settle, At, IInv
  <1>. DEFINE f == [Top EXCEPT !.pc = "contents"]
  <1>1. /\ TypeOk /\ FramesOk /\ ReferencesCounted /\ QueuesOk /\ WeakrefsOk
        /\ stack # <<>> /\ Top \in FrameSet /\ Top.pc = "settle" /\ life[o] = "dying"
        /\ \A p \in Obj : ~Clearing(p)
    BY <1>0, TopFacts, TopLife, NoneClearing DEF Settle, At, IInv
  <1>2. UNCHANGED <<kind, ref, fields, env, spent, weakrefs, shape, finalizerDepth, pendingFinalizations>>
    BY DEF Settle, weakVars
  <1>3. CASE releaseDepth >= ReleaseDeferDepth
    <2>1. /\ pendingReleases' = <<o>> \o pendingReleases /\ life' = [life EXCEPT ![o] = "queued"]
          /\ Pop /\ UNCHANGED releaseDepth
      BY <1>0, <1>3 DEF Settle
    <2>2. life'[o] = "queued" /\ life' \in [Obj -> Lives] /\ \A p \in Obj \ {o} : life'[p] = life[p]
      BY <1>1, <2>1 DEF TypeOk, Lives
    <2>3. FramesOk' /\ stack' \in Seq(FrameSet)
      BY <1>0, <1>1, <2>1, <2>2, PopFrame
    <2>4. pendingReleases \in Seq(Obj) /\ pendingFinalizations \in Seq(Obj)
      BY <1>1 DEF TypeOk
    <2>5. /\ QueueOk(life', <<o>> \o pendingReleases) /\ QueueOk(life', pendingFinalizations)
          /\ Apart(<<o>> \o pendingReleases, pendingFinalizations)
          /\ <<o>> \o pendingReleases \in Seq(Obj)
      BY <1>1, <2>2, <2>4, QueuePush DEF QueuesOk
    <2>6. QueuesOk' /\ pendingReleases' \in Seq(Obj)
      BY <1>2, <2>1, <2>5 DEF QueuesOk
    <2>7. ReferencesCounted' /\ WeakrefsOk'
      BY <1>1, <1>2, <2>2, CountsKept, WeakrefsKept DEF Usable, Self
    <2>8. DepthsOk'
      <3>1. \A d \in Depths : FrameDepths(Top, d, Now) => Now' = d
        BY <1>1, <1>2, <2>1, DepthsBack DEF FrameDepths, Finalizing, Depths, Now
      <3>. QED  BY <1>1, <2>1, <3>1, DepthsPop DEF IInv
    <2>9. TypeOk'
      BY <1>1, <1>2, <2>1, <2>2, <2>3, <2>6 DEF TypeOk
    <2>. QED  BY <2>3, <2>6, <2>7, <2>8, <2>9 DEF IInv
  <1>4. CASE ~(releaseDepth >= ReleaseDeferDepth)
    <2>1. releaseDepth' = releaseDepth + 1 /\ Become(f) /\ UNCHANGED <<life, pendingReleases>>
      BY <1>4 DEF Settle
    <2>2. f \in FrameSet /\ f.obj = Top.obj /\ f.pc = "contents"
      BY <1>1 DEF FrameSet, Pcs
    <2>. HIDE DEF f
    <2>3. FrameShape(f)
      BY <2>2 DEF FrameShape
    <2>4. /\ spent' \in [Obj -> BOOLEAN] /\ releaseDepth' \in Nat /\ finalizerDepth' \in Nat
          /\ weakrefs' \in [Obj -> Seq(Weak)] /\ releaseDepth \in Nat
      BY <1>1, <1>2, <2>1 DEF TypeOk
    <2>5. \A d \in Depths : FrameDepths(Top, d, Now) => FrameDepths(f, d, Now')
      BY <1>1, <1>2, <2>1, <2>2, <2>4 DEF FrameDepths, Finalizing, Depths, Now
    <2>6. f.pc \in {"running", "leave"} <=> Top.pc \in {"running", "leave"}
      BY <1>1, <2>2
    <2>7. \A p \in Obj : weakrefs'[p] # <<>> => weakrefs[p] # <<>> /\ ~Clearing(p)
      BY <1>1, <1>2
    <2>. QED  BY <1>1, <1>2, <2>1, <2>2, <2>3, <2>4, <2>5, <2>6, <2>7, SameLifeStep
  <1>. QED  BY <1>3, <1>4

LEMMA DestroyObjectOk ==
    ASSUME IInv, DestroyObject
    PROVE  IInv'
  <1>0. PICK o \in Obj : o = Top.obj
    BY TopFacts DEF DestroyObject, At, IInv
  <1>1. /\ TypeOk /\ FramesOk /\ ReferencesCounted /\ QueuesOk /\ WeakrefsOk
        /\ stack # <<>> /\ Top \in FrameSet /\ Top.pc = "contents" /\ life[o] = "dying"
        /\ \A p \in Obj : ~Clearing(p)
    BY <1>0, TopFacts, TopLife, NoneClearing DEF DestroyObject, At, IInv
  <1>2. UNCHANGED <<kind, ref, fields, env, spent, weakrefs, shape, finalizerDepth, pendingFinalizations>>
    BY DEF DestroyObject, weakVars
  <1>3. CASE releaseDepth = 1 /\ pendingReleases # <<>>
    <2>0. pendingReleases \in Seq(Obj) /\ pendingFinalizations \in Seq(Obj)
      BY <1>1 DEF TypeOk
    <2>1. PICK q \in Obj : q = Head(pendingReleases)
      BY <1>3, <2>0, TailFacts
    <2>. DEFINE f == [Top EXCEPT !.obj = q]
    <2>2. /\ life' = [life EXCEPT ![o] = "dead", ![q] = "dying"] /\ Become(f)
          /\ pendingReleases' = Tail(pendingReleases) /\ UNCHANGED releaseDepth
      BY <1>0, <1>3, <2>1 DEF DestroyObject
    <2>3. life[q] = "queued"
      BY <1>1, <1>3, <2>0, <2>1, TailFacts DEF QueuesOk, QueueOk
    <2>4. /\ life'[o] = "dead" /\ life'[q] = "dying" /\ life' \in [Obj -> Lives]
          /\ \A p \in Obj \ {o, q} : life'[p] = life[p]
      BY <1>1, <2>2, <2>3 DEF TypeOk, Lives
    <2>5. /\ QueueOk(life', Tail(pendingReleases)) /\ QueueOk(life', pendingFinalizations)
          /\ Apart(Tail(pendingReleases), pendingFinalizations)
          /\ Tail(pendingReleases) \in Seq(Obj)
      <3>1. \A p \in Obj \ {Head(pendingReleases)} : life[p] = "queued" => life'[p] = "queued"
        BY <1>1, <2>1, <2>4
      <3>. QED  BY <1>1, <1>3, <2>0, <3>1, QueuePop DEF QueuesOk
    <2>6. QueuesOk' /\ pendingReleases' \in Seq(Obj)
      BY <1>2, <2>2, <2>5 DEF QueuesOk
    <2>7. f \in FrameSet /\ f.obj = q /\ f.pc = "contents"
      BY <1>1 DEF FrameSet
    <2>7a. FrameShape(f)
      BY <2>7 DEF FrameShape
    <2>8. ASSUME NEW i \in 1 .. Len(stack) - 1
          PROVE  stack[i].obj # q /\ life'[stack[i].obj] = life[stack[i].obj]
      <3>1. Len(stack) \in Nat \ {0} /\ Len(stack) \in 1 .. Len(stack)
        BY <1>1, PopFacts, TopFacts DEF TypeOk
      <3>2. i \in 1 .. Len(stack) /\ i # Len(stack)
        BY <3>1
      <3>3. stack[i].obj \in Obj /\ stack[i].obj # o
        BY <1>0, <1>1, <3>1, <3>2, StackFacts DEF FramesOk, Top
      <3>4. stack[i].obj # q
        BY <1>1, <2>3, <3>2 DEF FramesOk, FrameOk, FrameShape
      <3>. QED  BY <2>4, <3>3, <3>4
    <2>. HIDE DEF f
    <2>9. FramesOk' /\ stack' \in Seq(FrameSet)
      BY <1>1, <2>2, <2>4, <2>7, <2>7a, <2>8, BecomeFrame
    <2>10. ReferencesCounted' /\ WeakrefsOk'
      BY <1>1, <1>2, <2>3, <2>4, CountsKept, WeakrefsKept DEF Usable, Self
    <2>11. DepthsOk'
      <3>1. \A d \in Depths : FrameDepths(Top, d, Now) => FrameDepths(f, d, Now')
        BY <1>1, <1>2, <2>2, <2>7 DEF FrameDepths, Finalizing, Now
      <3>2. Now' \in Depths
        BY <1>1, <1>2, <2>2 DEF Now, Depths, TypeOk
      <3>. QED  BY <1>1, <2>2, <2>7, <3>1, <3>2, DepthsBecome DEF IInv
    <2>12. TypeOk'
      BY <1>1, <1>2, <2>2, <2>4, <2>6, <2>9 DEF TypeOk
    <2>. QED  BY <2>6, <2>9, <2>10, <2>11, <2>12 DEF IInv
  <1>4. CASE ~(releaseDepth = 1 /\ pendingReleases # <<>>)
    <2>1. life' = [life EXCEPT ![o] = "dead"] /\ releaseDepth' = releaseDepth - 1 /\ Pop
          /\ UNCHANGED pendingReleases
      BY <1>0, <1>4 DEF DestroyObject
    <2>2. life'[o] = "dead" /\ life' \in [Obj -> Lives] /\ \A p \in Obj \ {o} : life'[p] = life[p]
      BY <1>1, <2>1 DEF TypeOk, Lives
    <2>3. FramesOk' /\ stack' \in Seq(FrameSet)
      BY <1>0, <1>1, <2>1, <2>2, PopFrame
    <2>4. QueuesOk' /\ ReferencesCounted' /\ WeakrefsOk'
      BY <1>1, <1>2, <2>1, <2>2, QueuesKept, CountsKept, WeakrefsKept DEF Usable, Self
    <2>5. releaseDepth \in Nat /\ finalizerDepth \in Nat /\ ~Finalizing(Top)
      BY <1>1 DEF TypeOk, Finalizing
    <2>6. DepthsOk'
      <3>1. \A d \in Depths : FrameDepths(Top, d, Now) => Now' = d
        BY <1>1, <1>2, <2>1, <2>5, DepthsBack DEF FrameDepths, Depths, Now
      <3>. QED  BY <1>1, <2>1, <3>1, DepthsPop DEF IInv
    <2>7. releaseDepth' \in Nat
      <3>1. PICK d \in Depths : FrameDepths(Top, d, Now)
        BY <1>1, DepthsTop DEF IInv
      <3>. QED  BY <1>1, <2>1, <2>5, <3>1 DEF FrameDepths, Now, Depths
    <2>8. TypeOk'
      BY <1>1, <1>2, <2>1, <2>2, <2>3, <2>7 DEF TypeOk
    <2>. QED  BY <2>3, <2>4, <2>6, <2>8 DEF IInv
  <1>. QED  BY <1>3, <1>4

-----------------------------------------------------------------------------
(* The theorems.                                                           *)

\* No step of running code or of a release breaks the invariant.
THEOREM StepOk == IInv /\ [Next]_vars => IInv'
  <1>. SUFFICES ASSUME IInv, [Next]_vars PROVE IInv'
    OBVIOUS
  <1>1. ASSUME NEW o \in Obj, NEW k \in Kinds, NEW v \in Var, Create(o, k, v) PROVE IInv'
    BY <1>1, CreateOk
  <1>2. ASSUME NEW o \in Obj, NEW v \in Var, Load(o, v) PROVE IInv'
    <2>1. CodeRuns /\ Usable(o)
      BY <1>2, ReferredUsable DEF Load, IInv
    <2>. QED  BY <1>2, <2>1, LoadOk DEF Load
  <1>3. ASSUME NEW v \in Var, Drop(v) PROVE IInv'
    BY <1>3, DropOk
  <1>4. ASSUME NEW p \in Obj, NEW o \in Obj, Store(p, o) PROVE IInv'
    BY <1>4, StoreOk
  <1>5. ASSUME NEW p \in Obj, NEW o \in Obj, Delete(p, o) PROVE IInv'
    BY <1>5, UnstoreOk DEF Delete
  <1>6. ASSUME NEW w \in Weak, NEW o \in Obj, NEW t \in {"ref", "proxy"}, NEW cb \in BOOLEAN,
               NewWeak(w, o, t, cb)
        PROVE  IInv'
    BY <1>6, NewWeakOk
  <1>7. ASSUME NEW w \in Weak, NEW o \in Obj, NEW v \in Var, WeakGet(w, o, v) PROVE IInv'
    BY <1>7, WeakGetOk
  <1>8. ASSUME NEW w \in Weak, NEW o \in Obj, WeakDestroy(w, o) PROVE IInv'
    BY <1>8, WeakDestroyOk
  <1>9. CASE Return
    BY <1>9, ReturnOk
  <1>10. CASE ClearWeakrefs
    BY <1>10, ClearWeakrefsOk
  <1>11. CASE CallCallbacks
    BY <1>11, CallCallbacksOk
  <1>12. CASE DeferFinalizers
    BY <1>12, DeferFinalizersOk
  <1>13. ASSUME NEW f \in Finalizers, RunFinalizer(f) PROVE IInv'
    BY <1>13, RunFinalizerOk
  <1>14. CASE ReleasePendingFinalization
    BY <1>14, ReleasePendingFinalizationOk
  <1>15. CASE LeaveFinalizer
    BY <1>15, LeaveFinalizerOk
  <1>16. CASE Finalized
    BY <1>16, FinalizedOk
  <1>17. CASE Settle
    BY <1>17, SettleOk
  <1>18. ASSUME NEW c \in Obj, ReleaseReference(c) PROVE IInv'
    <2>1. Top.obj \in Obj
      BY <1>18, TopFacts DEF ReleaseReference, At, IInv
    <2>. QED  BY <1>18, <2>1, UnstoreOk DEF ReleaseReference
  <1>19. CASE DestroyObject
    BY <1>19, DestroyObjectOk
  <1>20. CASE UNCHANGED vars
    <2>1. TypeOk' /\ WeakrefsOk'
      BY <1>20 DEF vars, IInv, TypeOk, WeakrefsOk, Usable, Clearing, Top
    <2>2. ReferencesCounted' /\ QueuesOk'
      BY <1>20, CountsKept, QueuesKept DEF vars, IInv, Usable, Self
    <2>3. FramesOk' /\ DepthsOk'
      BY <1>20, FramesKept, DepthsKept DEF vars, IInv
    <2>. QED  BY <2>1, <2>2, <2>3 DEF IInv
  <1>. QED
    BY <1>1, <1>2, <1>3, <1>4, <1>5, <1>6, <1>7, <1>8, <1>9, <1>10, <1>11, <1>12, <1>13,
       <1>14, <1>15, <1>16, <1>17, <1>18, <1>19, <1>20 DEF Next, Code, Native

\* The invariant holds in every state the program reaches.
THEOREM Invariance == Spec => []IInv
  BY InitOk, StepOk, PTL DEF Spec

\* Every state the program reaches is well typed: in particular neither depth
\* counter is ever decremented below zero.
THEOREM TypeCorrect == Spec => []TypeOk
  <1>1. IInv => TypeOk
    BY DEF IInv
  <1>. QED  BY <1>1, Invariance, PTL

\* Every count is exact: whatever the order of releases, finalizers,
\* resurrections and deferrals, no object is destroyed while something refers
\* to it and none outlives the last reference.
THEOREM CountsCorrect == Spec => []ReferencesCounted
  <1>1. IInv => ReferencesCounted
    BY DEF IInv
  <1>. QED  BY <1>1, Invariance, PTL

\* Code that runs, inside callbacks and finalizers too, never gets a dying or
\* destroyed object from a weak reference.
THEOREM WeakrefsCorrect == Spec => []WeakrefsReachUsable
  <1>1. IInv => WeakrefsReachUsable
    BY NoneClearing DEF IInv, WeakrefsOk, WeakrefsReachUsable
  <1>. QED  BY <1>1, Invariance, PTL

\* The depth counters are balanced: once the outermost release has returned,
\* both are zero, however the finalizers in between resurrected or deferred.
DepthsBalanced == stack = <<>> => releaseDepth = 0 /\ finalizerDepth = 0

THEOREM DepthsCorrect == Spec => []DepthsBalanced
  <1>1. IInv => DepthsBalanced
    BY DEF IInv, DepthsOk, Entries, Now, DepthsBalanced
  <1>. QED  BY <1>1, Invariance, PTL

-----------------------------------------------------------------------------
(* Nothing is stranded: whatever waits has somebody who goes on with it.   *)

Within(pcs) == \E i \in 1 .. Len(stack) : stack[i].pc \in pcs
Framed(o)   == \E i \in 1 .. Len(stack) : stack[i].obj = o
Waits(o, q) == \E i \in 1 .. Len(q) : q[i] = o

\* The queue of releases waits for a frame that releases contents, the queue
\* of finalizations for a finalizer, an object that dies for its own frame.
Awaited ==
    /\ pendingReleases # <<>> => Within({"contents"})
    /\ pendingFinalizations # <<>> => Within({"running", "leave"})
    /\ \A o \in Obj : life[o] \in {"dying", "finalizing"} => Framed(o)
    /\ \A o \in Obj :
          life[o] = "queued" => Waits(o, pendingReleases) \/ Waits(o, pendingFinalizations)

\* A depth above zero is the work of a frame further out.
LEMMA DepthsWitnessed ==
    ASSUME TypeOk, NEW entry, Entries(entry, stack)
    PROVE  \A i \in 1 .. Len(stack) + 1 :
              /\ entry[i].release > 0 => \E j \in 1 .. Len(stack) : j < i /\ stack[j].pc = "contents"
              /\ entry[i].finalizer > 0 =>
                    \E j \in 1 .. Len(stack) : j < i /\ stack[j].pc \in {"running", "leave"}
  <1>. DEFINE n == Len(stack)
              Calm(i) ==
                 /\ entry[i].release > 0 => \E j \in 1 .. n : j < i /\ stack[j].pc = "contents"
                 /\ entry[i].finalizer > 0 => \E j \in 1 .. n : j < i /\ stack[j].pc \in {"running", "leave"}
              T == {i \in 1 .. n + 1 : ~Calm(i)}
  <1>1. n \in Nat /\ ReleaseDeferDepth \in Nat \ {0}
    BY LifetimeAssumption DEF TypeOk
  <1>2. /\ entry \in [1 .. n + 1 -> Depths]
        /\ entry[1] = [release |-> 0, finalizer |-> 0]
        /\ \A i \in 1 .. n : FrameDepths(stack[i], entry[i], entry[i + 1])
    BY DEF Entries
  <1>. HIDE DEF n, Calm, T
  <1>3. ASSUME T # {} PROVE FALSE
    <2>0. T \subseteq Nat
      BY <1>1 DEF T
    <2>1. PICK x \in T : \A y \in T : x <= y
      BY <1>3, <2>0, LeastElement
    <2>2. x \in 1 .. n + 1 /\ ~Calm(x)
      BY <2>1 DEF T
    <2>3. x # 1
      <3>1. entry[1].release = 0 /\ entry[1].finalizer = 0
        BY <1>2
      <3>. QED  BY <2>2, <3>1 DEF Calm
    <2>4. x - 1 \in 1 .. n /\ x - 1 \in 1 .. n + 1 /\ x - 1 < x
      BY <1>1, <2>2, <2>3
    <2>5. Calm(x - 1)
      BY <1>1, <2>1, <2>2, <2>4 DEF T
    <2>. DEFINE y == x - 1
    <2>6. y \in 1 .. n /\ y + 1 = x /\ y < x /\ Calm(y)
      BY <1>1, <2>2, <2>4, <2>5
    <2>. HIDE DEF y
    <2>7. entry[y] \in Depths /\ entry[x] \in Depths /\ FrameDepths(stack[y], entry[y], entry[x])
      BY <1>1, <1>2, <2>2, <2>6
    <2>8. ASSUME entry[x].release > 0 PROVE \E j \in 1 .. n : j < x /\ stack[j].pc = "contents"
      <3>1. CASE stack[y].pc = "contents"
        BY <2>6, <3>1
      <3>2. CASE stack[y].pc # "contents"
        <4>1. entry[y].release \in Nat /\ entry[x].release \in Nat
          BY <2>7 DEF Depths
        <4>2. entry[x].release = Under(entry[y].release) \/ entry[x].release = entry[y].release
          BY <2>7, <3>2 DEF FrameDepths
        <4>3. entry[y].release > 0
          BY <1>1, <2>8, <4>1, <4>2 DEF Under
        <4>4. PICK j \in 1 .. n : j < y /\ stack[j].pc = "contents"
          BY <2>6, <4>3 DEF Calm
        <4>5. j < x
          BY <1>1, <2>2, <2>6, <4>4
        <4>. QED  BY <4>4, <4>5
      <3>. QED  BY <3>1, <3>2
    <2>9. ASSUME entry[x].finalizer > 0
          PROVE  \E j \in 1 .. n : j < x /\ stack[j].pc \in {"running", "leave"}
      <3>1. CASE stack[y].pc \in {"running", "leave"}
        BY <2>6, <3>1
      <3>2. CASE stack[y].pc \notin {"running", "leave"}
        <4>1. entry[y].finalizer \in Nat /\ entry[x].finalizer \in Nat
          BY <2>7 DEF Depths
        <4>2. entry[x].finalizer = entry[y].finalizer + 0
          BY <2>7, <3>2 DEF FrameDepths
        <4>3. entry[y].finalizer > 0
          BY <2>9, <4>1, <4>2
        <4>4. PICK j \in 1 .. n : j < y /\ stack[j].pc \in {"running", "leave"}
          BY <2>6, <4>3 DEF Calm
        <4>5. j < x
          BY <1>1, <2>2, <2>6, <4>4
        <4>. QED  BY <4>4, <4>5
      <3>. QED  BY <3>1, <3>2
    <2>. QED  BY <2>2, <2>8, <2>9 DEF Calm
  <1>4. \A i \in 1 .. n + 1 : Calm(i)
    BY <1>3 DEF T
  <1>. QED  BY <1>4 DEF Calm, n

\* So it is for the depths that are counted now.
LEMMA NowWitnessed ==
    ASSUME TypeOk, DepthsOk
    PROVE  /\ releaseDepth > 0 => Within({"contents"})
           /\ finalizerDepth > 0 => Within({"running", "leave"})
  <1>1. PICK entry : Entries(entry, stack) /\ entry[Len(stack) + 1] = Now
    BY DEF DepthsOk
  <1>2. Len(stack) + 1 \in 1 .. Len(stack) + 1
    <2>1. Len(stack) \in Nat
      BY DEF TypeOk
    <2>. QED  BY <2>1
  <1>3. entry[Len(stack) + 1].release = releaseDepth /\ entry[Len(stack) + 1].finalizer = finalizerDepth
    BY <1>1 DEF Now
  <1>. QED  BY <1>1, <1>2, <1>3, DepthsWitnessed DEF Within

\* And for the depths that the innermost frame found.
LEMMA FoundWitnessed ==
    ASSUME TypeOk, DepthsOk, stack # <<>>
    PROVE  \E d \in Depths :
              /\ FrameDepths(Top, d, Now)
              /\ d.release > 0 => \E j \in 1 .. Len(stack) - 1 : stack[j].pc = "contents"
              /\ d.finalizer > 0 => \E j \in 1 .. Len(stack) - 1 : stack[j].pc \in {"running", "leave"}
  <1>1. PICK entry : Entries(entry, stack) /\ entry[Len(stack) + 1] = Now
    BY DEF DepthsOk
  <1>2. Len(stack) \in Nat \ {0}
    BY PopFacts DEF TypeOk
  <1>3. Len(stack) \in 1 .. Len(stack) /\ Len(stack) \in 1 .. Len(stack) + 1
    BY <1>2
  <1>4. entry[Len(stack)] \in Depths /\ FrameDepths(Top, entry[Len(stack)], Now)
    BY <1>1, <1>3 DEF Entries, Top
  <1>5. \A j \in 1 .. Len(stack) : j < Len(stack) => j \in 1 .. Len(stack) - 1
    BY <1>2
  <1>6. /\ entry[Len(stack)].release > 0 =>
             \E j \in 1 .. Len(stack) : j < Len(stack) /\ stack[j].pc = "contents"
        /\ entry[Len(stack)].finalizer > 0 =>
             \E j \in 1 .. Len(stack) : j < Len(stack) /\ stack[j].pc \in {"running", "leave"}
    BY <1>1, <1>3, DepthsWitnessed
  <1>. QED  BY <1>4, <1>5, <1>6

\* What becomes of the frames when a release starts, goes on and returns.
LEMMA PushWaits ==
    ASSUME TypeOk, NEW f \in FrameSet, Push(f)
    PROVE  /\ \A pcs \in SUBSET Pcs : Within(pcs) => Within(pcs)'
           /\ \A o \in Obj : Framed(o) \/ o = f.obj => Framed(o)'
  <1>1. /\ Len(stack') = Len(stack) + 1 /\ Len(stack) \in Nat
        /\ \A i \in 1 .. Len(stack) : stack'[i] = stack[i]
        /\ stack'[Len(stack) + 1] = f
    BY AppendFacts DEF TypeOk, Push
  <1>2. /\ \A i \in 1 .. Len(stack) : i \in 1 .. Len(stack')
        /\ Len(stack) + 1 \in 1 .. Len(stack')
    BY <1>1
  <1>. QED  BY <1>1, <1>2 DEF Within, Framed

LEMMA BecomeWaits ==
    ASSUME TypeOk, stack # <<>>, NEW f \in FrameSet, Become(f)
    PROVE  /\ \A pcs \in SUBSET Pcs :
                 f.pc \in pcs \/ (Within(pcs) /\ Top.pc \notin pcs) => Within(pcs)'
           /\ \A o \in Obj : o = f.obj \/ (Framed(o) /\ o # Top.obj) => Framed(o)'
           /\ \A pcs \in SUBSET Pcs :
                 (\E j \in 1 .. Len(stack) - 1 : stack[j].pc \in pcs) => Within(pcs)'
  <1>1. /\ Len(stack') = Len(stack) /\ Len(stack) \in Nat \ {0}
        /\ \A i \in 1 .. Len(stack) - 1 : stack'[i] = stack[i]
        /\ stack'[Len(stack)] = f /\ Top = stack[Len(stack)]
    BY ReplaceFacts, PopFacts DEF TypeOk, Become, Top
  <1>2. /\ \A i \in 1 .. Len(stack) : i \in 1 .. Len(stack) - 1 \/ i = Len(stack)
        /\ \A i \in 1 .. Len(stack) - 1 : i \in 1 .. Len(stack')
        /\ Len(stack) \in 1 .. Len(stack')
    BY <1>1
  <1>. QED  BY <1>1, <1>2 DEF Within, Framed

LEMMA PopWaits ==
    ASSUME TypeOk, stack # <<>>, Pop
    PROVE  /\ \A pcs \in SUBSET Pcs : Within(pcs) /\ Top.pc \notin pcs => Within(pcs)'
           /\ \A o \in Obj : Framed(o) /\ o # Top.obj => Framed(o)'
           /\ \A pcs \in SUBSET Pcs :
                 (\E j \in 1 .. Len(stack) - 1 : stack[j].pc \in pcs) => Within(pcs)'
  <1>1. /\ Len(stack') = Len(stack) - 1 /\ Len(stack) \in Nat \ {0}
        /\ \A i \in 1 .. Len(stack) - 1 : stack'[i] = stack[i]
        /\ Top = stack[Len(stack)]
    BY PopFacts DEF TypeOk, Pop, Top
  <1>2. /\ \A i \in 1 .. Len(stack) : i \in 1 .. Len(stack) - 1 \/ i = Len(stack)
        /\ \A i \in 1 .. Len(stack) - 1 : i \in 1 .. Len(stack')
    BY <1>1
  <1>. QED  BY <1>1, <1>2 DEF Within, Framed

\* What becomes of the waiting objects when one is queued or taken.
LEMMA QueueWaits ==
    ASSUME NEW q \in Seq(Obj), NEW o \in Obj
    PROVE  /\ \A p \in Obj : Waits(p, q) \/ p = o => Waits(p, <<o>> \o q)
           /\ q # <<>> => \A p \in Obj : Waits(p, q) /\ p # Head(q) => Waits(p, Tail(q))
  <1>1. ASSUME NEW p \in Obj, Waits(p, q) \/ p = o PROVE Waits(p, <<o>> \o q)
    <2>1. /\ Len(<<o>> \o q) = Len(q) + 1 /\ (<<o>> \o q)[1] = o
          /\ \A i \in 1 .. Len(q) : (<<o>> \o q)[i + 1] = q[i]
      BY PrependFacts
    <2>2. /\ 1 \in 1 .. Len(<<o>> \o q)
          /\ \A i \in 1 .. Len(q) : i + 1 \in 1 .. Len(<<o>> \o q)
      BY <2>1
    <2>. QED  BY <1>1, <2>1, <2>2 DEF Waits
  <1>2. ASSUME q # <<>>, NEW p \in Obj, Waits(p, q), p # Head(q) PROVE Waits(p, Tail(q))
    <2>1. PICK i \in 1 .. Len(q) : q[i] = p
      BY <1>2 DEF Waits
    <2>2. /\ Len(Tail(q)) = Len(q) - 1 /\ Head(q) = q[1] /\ Len(q) \in Nat
          /\ \A k \in 1 .. Len(q) - 1 : Tail(q)[k] = q[k + 1]
      BY <1>2, TailFacts
    <2>3. i # 1
      BY <1>2, <2>1, <2>2
    <2>4. i - 1 \in 1 .. Len(Tail(q)) /\ (i - 1) + 1 = i
      BY <2>1, <2>2, <2>3
    <2>5. Tail(q)[i - 1] = p
      BY <2>1, <2>2, <2>4
    <2>. QED  BY <2>4, <2>5 DEF Waits
  <1>. QED  BY <1>1, <1>2

\* Nothing that waits changes.
LEMMA AwaitedKept ==
    ASSUME Awaited, UNCHANGED <<stack, pendingReleases, pendingFinalizations>>,
           \A o \in Obj : life'[o] \in {"dying", "finalizing", "queued"} => life'[o] = life[o]
    PROVE  Awaited'
  BY DEF Awaited, Within, Framed

\* A reference goes: its object is released by a frame of its own.
LEMMA DecrefAwaited ==
    ASSUME TypeOk, Awaited, NEW o \in Obj, Decref(o), UNCHANGED <<pendingReleases, pendingFinalizations>>
    PROVE  Awaited'
  <1>1. CASE ref[o] # 1
    BY <1>1, AwaitedKept DEF Decref
  <1>2. CASE ref[o] = 1
    <2>. DEFINE f == ReleaseZero(o)
    <2>1. life' = [life EXCEPT ![o] = "dying"] /\ Push(f)
      BY <1>2 DEF Decref
    <2>2. f \in FrameSet /\ f.obj = o
      BY DEF ReleaseZero, FrameSet, Pcs, Finalizers
    <2>. HIDE DEF f
    <2>3. life'[o] = "dying" /\ \A p \in Obj \ {o} : life'[p] = life[p]
      BY <2>1 DEF TypeOk
    <2>4. /\ \A pcs \in SUBSET Pcs : Within(pcs) => Within(pcs)'
          /\ \A p \in Obj : Framed(p) \/ p = o => Framed(p)'
      BY <2>1, <2>2, PushWaits
    <2>5. {"contents"} \in SUBSET Pcs /\ {"running", "leave"} \in SUBSET Pcs
      BY DEF Pcs
    <2>. QED  BY <2>3, <2>4, <2>5 DEF Awaited
  <1>. QED  BY <1>1, <1>2

\* The innermost frame goes on with its object.
LEMMA BecomeAwaited ==
    ASSUME TypeOk, Awaited, stack # <<>>, NEW f \in FrameSet, Become(f), f.obj = Top.obj,
           UNCHANGED <<pendingReleases, pendingFinalizations>>,
           \A o \in Obj \ {Top.obj} : life'[o] = life[o],
           life'[Top.obj] # "queued",
           Top.pc = "contents" => f.pc = "contents",
           Top.pc \in {"running", "leave"} /\ f.pc \notin {"running", "leave"} /\ pendingFinalizations # <<>> =>
              \E j \in 1 .. Len(stack) - 1 : stack[j].pc \in {"running", "leave"}
    PROVE  Awaited'
  <1>1. /\ {"contents"} \in SUBSET Pcs /\ {"running", "leave"} \in SUBSET Pcs
        /\ Top.obj \in Obj
    BY TopFacts DEF Pcs
  <1>2. /\ \A pcs \in SUBSET Pcs :
              f.pc \in pcs \/ (Within(pcs) /\ Top.pc \notin pcs) => Within(pcs)'
        /\ \A o \in Obj : o = f.obj \/ (Framed(o) /\ o # Top.obj) => Framed(o)'
        /\ \A pcs \in SUBSET Pcs :
              (\E j \in 1 .. Len(stack) - 1 : stack[j].pc \in pcs) => Within(pcs)'
    BY BecomeWaits
  <1>3. pendingReleases' # <<>> => Within({"contents"})'
    BY <1>1, <1>2 DEF Awaited
  <1>4. pendingFinalizations' # <<>> => Within({"running", "leave"})'
    BY <1>1, <1>2 DEF Awaited
  <1>5. \A o \in Obj : life'[o] \in {"dying", "finalizing"} => Framed(o)'
    BY <1>1, <1>2 DEF Awaited
  <1>6. \A o \in Obj :
           life'[o] = "queued" => Waits(o, pendingReleases)' \/ Waits(o, pendingFinalizations)'
    BY DEF Awaited, Waits
  <1>. QED  BY <1>3, <1>4, <1>5, <1>6 DEF Awaited

\* The innermost frame returns: its object waits no longer, or in a queue.
LEMMA PopAwaited ==
    ASSUME TypeOk, Awaited, stack # <<>>, Pop,
           \A o \in Obj \ {Top.obj} : life'[o] = life[o],
           life'[Top.obj] \notin {"dying", "finalizing"},
           life'[Top.obj] = "queued" =>
              Waits(Top.obj, pendingReleases') \/ Waits(Top.obj, pendingFinalizations'),
           \A o \in Obj : Waits(o, pendingReleases) => Waits(o, pendingReleases'),
           \A o \in Obj : Waits(o, pendingFinalizations) => Waits(o, pendingFinalizations'),
           pendingReleases' # <<>> => Within({"contents"})',
           pendingFinalizations' # <<>> => Within({"running", "leave"})'
    PROVE  Awaited'
  <1>1. Top.obj \in Obj
    BY TopFacts
  <1>2. \A o \in Obj : life'[o] \in {"dying", "finalizing"} => Framed(o)'
    BY <1>1, PopWaits DEF Awaited
  <1>3. \A o \in Obj :
           life'[o] = "queued" => Waits(o, pendingReleases') \/ Waits(o, pendingFinalizations')
    BY <1>1 DEF Awaited
  <1>4. \A o \in Obj :
           life'[o] = "queued" => Waits(o, pendingReleases)' \/ Waits(o, pendingFinalizations)'
    BY <1>3 DEF Waits
  <1>. QED  BY <1>2, <1>4 DEF Awaited

LEMMA ReturnAwaited ==
    ASSUME IInv, Awaited, Return
    PROVE  Awaited'
  <1>1. TypeOk /\ stack # <<>> /\ Top \in FrameSet /\ Top.obj \in Obj /\ FramesOk
    BY TopFacts DEF IInv, Return, InFinalizer, InCallback, At
  <1>2. UNCHANGED <<life, pendingReleases, pendingFinalizations>> /\ life[Top.obj] # "queued"
    BY <1>1, TopLife DEF Return, queueVars, IInv
  <1>3. CASE InFinalizer /\ Become([Top EXCEPT !.pc = "leave"])
    <2>. DEFINE f == [Top EXCEPT !.pc = "leave"]
    <2>1. f \in FrameSet /\ f.obj = Top.obj /\ f.pc = "leave" /\ Top.pc = "running"
      BY <1>1, <1>3 DEF FrameSet, Pcs, InFinalizer, At
    <2>. HIDE DEF f
    <2>2. Become(f)
      BY <1>3 DEF f
    <2>. QED  BY <1>1, <1>2, <2>1, <2>2, BecomeAwaited
  <1>4. CASE InCallback /\ Become([Top EXCEPT !.pc = "calls", !.calls = Tail(@)])
    <2>. DEFINE f == [Top EXCEPT !.pc = "calls", !.calls = Tail(@)]
    <2>1. Top.pc = "calling" /\ Top.calls # <<>> /\ Top.calls \in Seq(Weak)
      BY <1>1, <1>4, TopShape DEF FrameSet, InCallback, At, FrameShape, IInv
    <2>2. Tail(Top.calls) \in Seq(Weak)
      BY <2>1, TailFacts
    <2>3. f \in FrameSet /\ f.obj = Top.obj /\ f.pc = "calls"
      BY <1>1, <2>2 DEF FrameSet, Pcs
    <2>. HIDE DEF f
    <2>4. Become(f)
      BY <1>4 DEF f
    <2>. QED  BY <1>1, <1>2, <2>1, <2>3, <2>4, BecomeAwaited
  <1>. QED  BY <1>3, <1>4 DEF Return

\* The steps of a release before and between the finalizers.
LEMMA ClearingAwaited ==
    ASSUME IInv, Awaited, ClearWeakrefs \/ CallCallbacks \/ Finalized
    PROVE  Awaited'
  <1>1. TypeOk /\ stack # <<>> /\ Top \in FrameSet /\ Top.obj \in Obj
    BY TopFacts DEF IInv, ClearWeakrefs, CallCallbacks, Finalized, At
  <1>2. /\ UNCHANGED <<life, pendingReleases, pendingFinalizations>> /\ life[Top.obj] # "queued"
        /\ Top.pc \in {"clear", "calls", "finalize"}
    BY <1>1, TopLife DEF ClearWeakrefs, CallCallbacks, Finalized, At, heapVars, queueVars, IInv
  <1>3. /\ Top.calls \in Seq(Weak) /\ weakrefs[Top.obj] \in Seq(Weak) /\ <<>> \in Seq(Weak)
        /\ Top.calls # <<>> => Tail(Top.calls) \in Seq(Weak)
    <2>1. Top.calls \in Seq(Weak) /\ weakrefs[Top.obj] \in Seq(Weak)
      BY <1>1 DEF FrameSet, TypeOk
    <2>. QED  BY <2>1, TailFacts
  <1>4. \E f \in FrameSet : Become(f) /\ f.obj = Top.obj
    <2>1. CASE ClearWeakrefs
      <3>. DEFINE c == IF (Top.after = "done") # OwnWeakList(Top.obj) THEN <<>> ELSE weakrefs[Top.obj]
                  f == [Top EXCEPT !.pc = "calls", !.calls = c]
      <3>1. c \in Seq(Weak)
        BY <1>3
      <3>2. Become(f)
        BY <2>1 DEF ClearWeakrefs
      <3>. HIDE DEF c
      <3>3. f \in FrameSet /\ f.obj = Top.obj
        BY <1>1, <3>1 DEF FrameSet, Pcs
      <3>. QED  BY <3>2, <3>3
    <2>2. CASE CallCallbacks
      <3>1. CASE Top.calls = <<>>
        <4>. DEFINE f == [Top EXCEPT !.pc = IF Top.after = "done" THEN "settle" ELSE "finalize"]
        <4>1. Become(f)
          BY <2>2, <3>1 DEF CallCallbacks
        <4>2. f \in FrameSet /\ f.obj = Top.obj
          BY <1>1 DEF FrameSet, Pcs
        <4>. QED  BY <4>1, <4>2
      <3>2. CASE Top.calls # <<>> /\ shape[Head(Top.calls)].callback
        <4>. DEFINE f == [Top EXCEPT !.pc = "calling"]
        <4>1. Become(f)
          BY <2>2, <3>2 DEF CallCallbacks
        <4>2. f \in FrameSet /\ f.obj = Top.obj
          BY <1>1 DEF FrameSet, Pcs
        <4>. QED  BY <4>1, <4>2
      <3>3. CASE Top.calls # <<>> /\ ~shape[Head(Top.calls)].callback
        <4>. DEFINE f == [Top EXCEPT !.calls = Tail(@)]
        <4>1. Become(f)
          BY <2>2, <3>3 DEF CallCallbacks
        <4>2. f \in FrameSet /\ f.obj = Top.obj
          BY <1>1, <1>3, <3>3 DEF FrameSet, Pcs
        <4>. QED  BY <4>1, <4>2
      <3>. QED  BY <3>1, <3>2, <3>3
    <2>3. CASE Finalized
      <3>. DEFINE f == [Top EXCEPT !.pc = "clear", !.after = "done"]
      <3>1. Become(f)
        BY <2>3 DEF Finalized
      <3>2. f \in FrameSet /\ f.obj = Top.obj
        BY <1>1 DEF FrameSet, Pcs
      <3>. QED  BY <3>1, <3>2
    <2>. QED  BY <2>1, <2>2, <2>3
  <1>5. PICK f \in FrameSet : Become(f) /\ f.obj = Top.obj
    BY <1>4
  <1>. QED  BY <1>1, <1>2, <1>5, BecomeAwaited

LEMMA DeferFinalizersAwaited ==
    ASSUME IInv, Awaited, DeferFinalizers
    PROVE  Awaited'
  <1>0. PICK o \in Obj : o = Top.obj
    BY TopFacts DEF DeferFinalizers, At, IInv
  <1>1. TypeOk /\ DepthsOk /\ stack # <<>> /\ Top.pc = "finalize" /\ Pop
    BY DEF DeferFinalizers, At, IInv
  <1>2. /\ life' = [life EXCEPT ![o] = "queued"] /\ UNCHANGED pendingReleases
        /\ pendingFinalizations' = <<o>> \o pendingFinalizations
    BY <1>0 DEF DeferFinalizers
  <1>3. life'[o] = "queued" /\ \A p \in Obj \ {o} : life'[p] = life[p]
    BY <1>1, <1>2 DEF TypeOk
  <1>4. \A p \in Obj : Waits(p, pendingFinalizations) \/ p = o => Waits(p, pendingFinalizations')
    BY <1>1, <1>2, QueueWaits DEF TypeOk
  <1>5. {"contents"} \in SUBSET Pcs /\ {"running", "leave"} \in SUBSET Pcs
    BY DEF Pcs
  <1>6. Within({"running", "leave"})
    <2>1. finalizerDepth > 0
      BY <1>1, LifetimeAssumption DEF DeferFinalizers, TypeOk
    <2>. QED  BY <1>1, <2>1, NowWitnessed
  <1>7. /\ Within({"running", "leave"})'
        /\ pendingReleases' # <<>> => Within({"contents"})'
    BY <1>1, <1>2, <1>5, <1>6, PopWaits DEF Awaited
  <1>. QED  BY <1>0, <1>1, <1>2, <1>3, <1>4, <1>7, PopAwaited

LEMMA RunFinalizerAwaited ==
    ASSUME IInv, Awaited, NEW g \in Finalizers, RunFinalizer(g)
    PROVE  Awaited'
  <1>1. /\ TypeOk /\ stack # <<>> /\ Top \in FrameSet /\ Top.obj \in Obj /\ Top.pc = "finalize"
        /\ life' = [life EXCEPT ![Top.obj] = "finalizing"]
        /\ UNCHANGED <<pendingReleases, pendingFinalizations>>
    BY TopFacts DEF IInv, RunFinalizer, At
  <1>2. life'[Top.obj] = "finalizing" /\ \A p \in Obj \ {Top.obj} : life'[p] = life[p]
    BY <1>1 DEF TypeOk
  <1>. DEFINE runs    == ~(g = "native" /\ spent[Top.obj])
              entered == IF Top.after = "none" THEN releaseDepth ELSE Top.depth
              pc      == IF runs THEN "running" ELSE "leave"
              f       == [Top EXCEPT !.pc = pc, !.after = g, !.depth = entered]
  <1>3. Become(f)
    BY DEF RunFinalizer
  <1>4. pc \in {"running", "leave"} /\ entered \in Nat
    BY <1>1 DEF TypeOk, FrameSet
  <1>. HIDE DEF pc, entered
  <1>5. f \in FrameSet /\ f.obj = Top.obj /\ f.pc = pc
    BY <1>1, <1>4 DEF FrameSet, Pcs
  <1>. HIDE DEF f
  <1>. QED  BY <1>1, <1>2, <1>3, <1>5, BecomeAwaited

LEMMA ReleasePendingFinalizationAwaited ==
    ASSUME IInv, Awaited, ReleasePendingFinalization
    PROVE  Awaited'
  <1>1. /\ TypeOk /\ pendingFinalizations # <<>> /\ pendingFinalizations \in Seq(Obj)
        /\ UNCHANGED pendingReleases /\ pendingFinalizations' = Tail(pendingFinalizations)
    BY DEF IInv, TypeOk, ReleasePendingFinalization
  <1>2. PICK q \in Obj : q = Head(pendingFinalizations)
    BY <1>1, TailFacts
  <1>. DEFINE f == ReleaseZero(q)
  <1>3. life' = [life EXCEPT ![q] = "dying"] /\ Push(f)
    BY <1>2 DEF ReleasePendingFinalization
  <1>4. life'[q] = "dying" /\ \A p \in Obj \ {q} : life'[p] = life[p]
    BY <1>1, <1>3 DEF TypeOk
  <1>5. f \in FrameSet /\ f.obj = q
    BY DEF ReleaseZero, FrameSet, Pcs, Finalizers
  <1>. HIDE DEF f
  <1>6. /\ \A pcs \in SUBSET Pcs : Within(pcs) => Within(pcs)'
        /\ \A p \in Obj : Framed(p) \/ p = q => Framed(p)'
    BY <1>1, <1>3, <1>5, PushWaits
  <1>7. {"contents"} \in SUBSET Pcs /\ {"running", "leave"} \in SUBSET Pcs
    BY DEF Pcs
  <1>8. \A p \in Obj : Waits(p, pendingFinalizations) /\ p # q => Waits(p, pendingFinalizations')
    BY <1>1, <1>2, QueueWaits
  <1>9. /\ pendingReleases' # <<>> => Within({"contents"})'
        /\ pendingFinalizations' # <<>> => Within({"running", "leave"})'
    BY <1>1, <1>6, <1>7 DEF Awaited
  <1>10. \A p \in Obj : life'[p] \in {"dying", "finalizing"} => Framed(p)'
    BY <1>4, <1>6 DEF Awaited
  <1>11. \A p \in Obj :
            life'[p] = "queued" => Waits(p, pendingReleases') \/ Waits(p, pendingFinalizations')
    BY <1>1, <1>4, <1>8 DEF Awaited
  <1>12. \A p \in Obj :
            life'[p] = "queued" => Waits(p, pendingReleases)' \/ Waits(p, pendingFinalizations)'
    BY <1>11 DEF Waits
  <1>. QED  BY <1>9, <1>10, <1>12 DEF Awaited

LEMMA LeaveFinalizerAwaited ==
    ASSUME IInv, Awaited, LeaveFinalizer
    PROVE  Awaited'
  <1>0. PICK o \in Obj : o = Top.obj
    BY TopFacts DEF LeaveFinalizer, At, IInv
  <1>1. /\ TypeOk /\ DepthsOk /\ stack # <<>> /\ Top \in FrameSet /\ Top.pc = "leave"
        /\ UNCHANGED <<pendingReleases, pendingFinalizations>>
    BY TopFacts DEF LeaveFinalizer, At, IInv
  <1>2. ASSUME pendingFinalizations # <<>>
        PROVE  \E j \in 1 .. Len(stack) - 1 : stack[j].pc \in {"running", "leave"}
    <2>1. PICK d \in Depths :
             /\ FrameDepths(Top, d, Now)
             /\ d.finalizer > 0 => \E j \in 1 .. Len(stack) - 1 : stack[j].pc \in {"running", "leave"}
      BY <1>1, FoundWitnessed
    <2>2. finalizerDepth = d.finalizer + 1 /\ d.finalizer \in Nat
      BY <1>1, <2>1 DEF FrameDepths, Now, Depths
    <2>3. finalizerDepth # 1
      BY <1>2 DEF LeaveFinalizer
    <2>. QED  BY <2>1, <2>2, <2>3
  <1>3. CASE ref[o] # 1
    <2>1. life' = [life EXCEPT ![o] = "alive"] /\ Pop
      BY <1>0, <1>3 DEF LeaveFinalizer
    <2>2. life'[o] = "alive" /\ \A p \in Obj \ {o} : life'[p] = life[p]
      BY <1>1, <2>1 DEF TypeOk
    <2>3. {"contents"} \in SUBSET Pcs /\ {"running", "leave"} \in SUBSET Pcs
      BY DEF Pcs
    <2>4. pendingReleases' # <<>> => Within({"contents"})'
      BY <1>1, <2>1, <2>3, PopWaits DEF Awaited
    <2>5. pendingFinalizations' # <<>> => Within({"running", "leave"})'
      BY <1>1, <1>2, <2>1, <2>3, PopWaits
    <2>6. /\ \A p \in Obj : Waits(p, pendingReleases) => Waits(p, pendingReleases')
          /\ \A p \in Obj : Waits(p, pendingFinalizations) => Waits(p, pendingFinalizations')
      BY <1>1
    <2>. QED  BY <1>0, <1>1, <2>1, <2>2, <2>4, <2>5, <2>6, PopAwaited
  <1>4. CASE ref[o] = 1
    <2>. DEFINE f == [Top EXCEPT !.pc = "finalize"]
    <2>1. life' = [life EXCEPT ![o] = "dying"] /\ Become(f)
      BY <1>0, <1>4 DEF LeaveFinalizer
    <2>2. life'[o] = "dying" /\ \A p \in Obj \ {o} : life'[p] = life[p]
      BY <1>1, <2>1 DEF TypeOk
    <2>3. f \in FrameSet /\ f.obj = Top.obj
      BY <1>1 DEF FrameSet, Pcs
    <2>. HIDE DEF f
    <2>. QED  BY <1>0, <1>1, <1>2, <2>1, <2>2, <2>3, BecomeAwaited
  <1>. QED  BY <1>3, <1>4

LEMMA SettleAwaited ==
    ASSUME IInv, Awaited, Settle
    PROVE  Awaited'
  <1>0. PICK o \in Obj : o = Top.obj
    BY TopFacts DEF Settle, At, IInv
  <1>1. /\ TypeOk /\ DepthsOk /\ stack # <<>> /\ Top \in FrameSet /\ Top.pc = "settle"
        /\ UNCHANGED pendingFinalizations /\ life[o] = "dying"
    BY <1>0, TopFacts, TopLife DEF Settle, At, IInv
  <1>2. CASE releaseDepth >= ReleaseDeferDepth
    <2>1. /\ pendingReleases' = <<o>> \o pendingReleases /\ life' = [life EXCEPT ![o] = "queued"]
          /\ Pop
      BY <1>0, <1>2 DEF Settle
    <2>2. life'[o] = "queued" /\ \A p \in Obj \ {o} : life'[p] = life[p]
      BY <1>1, <2>1 DEF TypeOk
    <2>3. \A p \in Obj : Waits(p, pendingReleases) \/ p = o => Waits(p, pendingReleases')
      BY <1>1, <2>1, QueueWaits DEF TypeOk
    <2>4. {"contents"} \in SUBSET Pcs /\ {"running", "leave"} \in SUBSET Pcs
      BY DEF Pcs
    <2>5. Within({"contents"})
      <3>1. releaseDepth > 0
        BY <1>1, <1>2, LifetimeAssumption DEF TypeOk
      <3>. QED  BY <1>1, <3>1, NowWitnessed
    <2>6. /\ Within({"contents"})'
          /\ pendingFinalizations' # <<>> => Within({"running", "leave"})'
      BY <1>1, <2>1, <2>4, <2>5, PopWaits DEF Awaited
    <2>. QED  BY <1>0, <1>1, <2>1, <2>2, <2>3, <2>6, PopAwaited
  <1>3. CASE ~(releaseDepth >= ReleaseDeferDepth)
    <2>. DEFINE f == [Top EXCEPT !.pc = "contents"]
    <2>1. Become(f) /\ UNCHANGED <<life, pendingReleases>>
      BY <1>3 DEF Settle
    <2>2. f \in FrameSet /\ f.obj = Top.obj
      BY <1>1 DEF FrameSet, Pcs
    <2>. HIDE DEF f
    <2>. QED  BY <1>0, <1>1, <2>1, <2>2, BecomeAwaited
  <1>. QED  BY <1>2, <1>3

LEMMA DestroyObjectAwaited ==
    ASSUME IInv, Awaited, DestroyObject
    PROVE  Awaited'
  <1>0. PICK o \in Obj : o = Top.obj
    BY TopFacts DEF DestroyObject, At, IInv
  <1>1. /\ TypeOk /\ DepthsOk /\ QueuesOk /\ stack # <<>> /\ Top \in FrameSet /\ Top.pc = "contents"
        /\ UNCHANGED pendingFinalizations /\ life[o] = "dying"
        /\ pendingReleases \in Seq(Obj)
    BY <1>0, TopFacts, TopLife DEF DestroyObject, At, IInv, TypeOk
  <1>2. {"contents"} \in SUBSET Pcs /\ {"running", "leave"} \in SUBSET Pcs
    BY DEF Pcs
  <1>3. CASE releaseDepth = 1 /\ pendingReleases # <<>>
    <2>1. PICK q \in Obj : q = Head(pendingReleases)
      BY <1>1, <1>3, TailFacts
    <2>. DEFINE f == [Top EXCEPT !.obj = q]
    <2>2. /\ life' = [life EXCEPT ![o] = "dead", ![q] = "dying"] /\ Become(f)
          /\ pendingReleases' = Tail(pendingReleases)
      BY <1>0, <1>3, <2>1 DEF DestroyObject
    <2>3. life[q] = "queued" /\ q # o
      BY <1>1, <1>3, <2>1, TailFacts DEF QueuesOk, QueueOk
    <2>4. /\ life'[o] = "dead" /\ life'[q] = "dying"
          /\ \A p \in Obj \ {o, q} : life'[p] = life[p]
      BY <1>1, <2>2, <2>3 DEF TypeOk
    <2>5. f \in FrameSet /\ f.obj = q /\ f.pc = "contents"
      BY <1>1 DEF FrameSet
    <2>. HIDE DEF f
    <2>6. /\ \A pcs \in SUBSET Pcs : f.pc \in pcs \/ (Within(pcs) /\ Top.pc \notin pcs) => Within(pcs)'
          /\ \A p \in Obj : p = q \/ (Framed(p) /\ p # o) => Framed(p)'
      BY <1>0, <1>1, <2>2, <2>5, BecomeWaits
    <2>7. /\ Within({"contents"})'
          /\ pendingFinalizations' # <<>> => Within({"running", "leave"})'
      BY <1>1, <1>2, <2>5, <2>6 DEF Awaited
    <2>8. \A p \in Obj : life'[p] \in {"dying", "finalizing"} => Framed(p)'
      BY <2>4, <2>6 DEF Awaited
    <2>9. \A p \in Obj : Waits(p, pendingReleases) /\ p # q => Waits(p, pendingReleases')
      BY <1>1, <1>3, <2>1, <2>2, QueueWaits
    <2>10. \A p \in Obj :
              life'[p] = "queued" => Waits(p, pendingReleases') \/ Waits(p, pendingFinalizations')
      BY <1>1, <2>4, <2>9 DEF Awaited
    <2>11. \A p \in Obj :
              life'[p] = "queued" => Waits(p, pendingReleases)' \/ Waits(p, pendingFinalizations)'
      BY <2>10 DEF Waits
    <2>. QED  BY <2>7, <2>8, <2>11 DEF Awaited
  <1>4. CASE ~(releaseDepth = 1 /\ pendingReleases # <<>>)
    <2>1. life' = [life EXCEPT ![o] = "dead"] /\ Pop /\ UNCHANGED pendingReleases
      BY <1>0, <1>4 DEF DestroyObject
    <2>2. life'[o] = "dead" /\ \A p \in Obj \ {o} : life'[p] = life[p]
      BY <1>1, <2>1 DEF TypeOk
    <2>3. ASSUME pendingReleases # <<>>
          PROVE  \E j \in 1 .. Len(stack) - 1 : stack[j].pc = "contents"
      <3>1. PICK d \in Depths :
               /\ FrameDepths(Top, d, Now)
               /\ d.release > 0 => \E j \in 1 .. Len(stack) - 1 : stack[j].pc = "contents"
        BY <1>1, FoundWitnessed
      <3>2. releaseDepth = d.release + 1 /\ d.release \in Nat
        BY <1>1, <3>1 DEF FrameDepths, Now, Depths
      <3>3. releaseDepth # 1
        BY <1>4, <2>3
      <3>. QED  BY <3>1, <3>2, <3>3
    <2>4. pendingReleases' # <<>> => Within({"contents"})'
      BY <1>1, <1>2, <2>1, <2>3, PopWaits
    <2>5. pendingFinalizations' # <<>> => Within({"running", "leave"})'
      BY <1>1, <1>2, <2>1, PopWaits DEF Awaited
    <2>6. /\ \A p \in Obj : Waits(p, pendingReleases) => Waits(p, pendingReleases')
          /\ \A p \in Obj : Waits(p, pendingFinalizations) => Waits(p, pendingFinalizations')
      BY <1>1, <2>1
    <2>. QED  BY <1>0, <1>1, <2>1, <2>2, <2>4, <2>5, <2>6, PopAwaited
  <1>. QED  BY <1>3, <1>4

\* No step leaves what waits without somebody who goes on with it.
LEMMA AwaitedStep == IInv /\ Awaited /\ [Next]_vars => Awaited'
  <1>. SUFFICES ASSUME IInv, Awaited, [Next]_vars PROVE Awaited'
    OBVIOUS
  <1>0. TypeOk
    BY DEF IInv
  <1>1. ASSUME NEW o \in Obj, NEW k \in Kinds, NEW v \in Var, Create(o, k, v) PROVE Awaited'
    <2>1. \A p \in Obj : life'[p] \in {"dying", "finalizing", "queued"} => life'[p] = life[p]
      BY <1>0, <1>1 DEF Create, TypeOk
    <2>. QED  BY <1>1, <2>1, AwaitedKept DEF Create, queueVars
  <1>2. ASSUME NEW o \in Obj, NEW v \in Var, Load(o, v) PROVE Awaited'
    BY <1>2, AwaitedKept DEF Load, queueVars
  <1>3. ASSUME NEW v \in Var, Drop(v) PROVE Awaited'
    <2>1. env[v] \in Obj /\ Decref(env[v]) /\ UNCHANGED <<pendingReleases, pendingFinalizations>>
      BY <1>0, <1>3 DEF Drop, TypeOk, queueVars
    <2>. QED  BY <1>0, <2>1, DecrefAwaited
  <1>4. ASSUME NEW p \in Obj, NEW o \in Obj, Store(p, o) PROVE Awaited'
    BY <1>4, AwaitedKept DEF Store, queueVars
  <1>5. ASSUME NEW p \in Obj, NEW o \in Obj, Delete(p, o) PROVE Awaited'
    BY <1>0, <1>5, DecrefAwaited DEF Delete, queueVars
  <1>6. ASSUME NEW w \in Weak, NEW o \in Obj, NEW t \in {"ref", "proxy"}, NEW cb \in BOOLEAN,
               NewWeak(w, o, t, cb)
        PROVE  Awaited'
    BY <1>6, AwaitedKept DEF NewWeak, heapVars, queueVars
  <1>7. ASSUME NEW w \in Weak, NEW o \in Obj, NEW v \in Var, WeakGet(w, o, v) PROVE Awaited'
    BY <1>7, AwaitedKept DEF WeakGet, queueVars
  <1>8. ASSUME NEW w \in Weak, NEW o \in Obj, WeakDestroy(w, o) PROVE Awaited'
    BY <1>8, AwaitedKept DEF WeakDestroy, heapVars, queueVars
  <1>9. CASE Return
    BY <1>9, ReturnAwaited
  <1>10. CASE ClearWeakrefs \/ CallCallbacks \/ Finalized
    BY <1>10, ClearingAwaited
  <1>11. CASE DeferFinalizers
    BY <1>11, DeferFinalizersAwaited
  <1>12. ASSUME NEW f \in Finalizers, RunFinalizer(f) PROVE Awaited'
    BY <1>12, RunFinalizerAwaited
  <1>13. CASE ReleasePendingFinalization
    BY <1>13, ReleasePendingFinalizationAwaited
  <1>14. CASE LeaveFinalizer
    BY <1>14, LeaveFinalizerAwaited
  <1>15. CASE Settle
    BY <1>15, SettleAwaited
  <1>16. ASSUME NEW c \in Obj, ReleaseReference(c) PROVE Awaited'
    BY <1>0, <1>16, DecrefAwaited DEF ReleaseReference, queueVars
  <1>17. CASE DestroyObject
    BY <1>17, DestroyObjectAwaited
  <1>18. CASE UNCHANGED vars
    BY <1>18, AwaitedKept DEF vars
  <1>. QED
    BY <1>1, <1>2, <1>3, <1>4, <1>5, <1>6, <1>7, <1>8, <1>9, <1>10, <1>11, <1>12, <1>13,
       <1>14, <1>15, <1>16, <1>17, <1>18 DEF Next, Code, Native

\* Once the outermost release has returned nothing is left half released: no
\* object is forgotten in a queue or on its way, whatever the finalizers and
\* the callbacks did in between.
THEOREM NothingStrandedCorrect == Spec => []NothingStranded
  <1>1. Init => Awaited
    BY DEF Init, Awaited
  <1>2. IInv /\ Awaited => NothingStranded
    <2>. SUFFICES ASSUME IInv, Awaited, stack = <<>> PROVE NothingStranded
      BY DEF NothingStranded
    <2>1. \A i \in 1 .. Len(stack) : FALSE
      OBVIOUS
    <2>2. pendingReleases = <<>> /\ pendingFinalizations = <<>>
      BY <2>1 DEF Awaited, Within
    <2>3. releaseDepth = 0 /\ finalizerDepth = 0
      BY DEF IInv, DepthsOk, Entries, Now
    <2>4. \A o \in Obj : life[o] \in {"unborn", "alive", "dead"}
      BY <2>1, <2>2 DEF Awaited, Framed, Waits, IInv, TypeOk, Lives
    <2>. QED  BY <2>2, <2>3, <2>4 DEF NothingStranded
  <1>. QED  BY <1>1, <1>2, AwaitedStep, Invariance, PTL DEF Spec

-----------------------------------------------------------------------------
(* The order of the weak references.                                       *)

\* Every entry of a list is in use, and the basic ones are at its head.
ListOk(s) ==
    \A i \in 1 .. Len(s) :
        /\ shape[s[i]] # None
        /\ IsBasic(s[i], "ref") => i = 1
        /\ IsBasic(s[i], "proxy") => i = 1 \/ (i = 2 /\ IsBasic(s[1], "ref"))
ListsOk == \A o \in Obj : ListOk(weakrefs[o])

\* Behind the place of a new weak reference there is no basic one, but for the
\* basic proxy that a new basic reference goes before.
LEMMA BehindPlace ==
    ASSUME NEW s \in Seq(Weak), ListOk(s), NEW t \in {"ref", "proxy"}, NEW cb \in BOOLEAN,
           cb \/ ~Shared(s, t)
    PROVE  /\ \A j \in 1 .. Len(s) : j > Before(s, t, cb) =>
                 /\ ~IsBasic(s[j], "ref")
                 /\ IsBasic(s[j], "proxy") => ~cb /\ t = "ref" /\ j = 1
           /\ ~cb /\ t = "ref" => Before(s, t, cb) = 0
           /\ ~cb /\ t = "proxy" =>
                 Before(s, t, cb) = 0 \/ (Before(s, t, cb) = 1 /\ IsBasic(s[1], "ref"))
  <1>1. /\ Len(s) \in Nat
        /\ \A j \in 1 .. Len(s) : s # <<>> /\ j \in Nat /\ j > 0 /\ (j > 1 => Len(s) > 1)
    OBVIOUS
  <1>2. /\ \A j \in 1 .. Len(s) : IsBasic(s[j], "ref") => j = 1
        /\ \A j \in 1 .. Len(s) :
              IsBasic(s[j], "proxy") => j = 1 \/ (j = 2 /\ IsBasic(s[1], "ref"))
    BY DEF ListOk
  <1>3. CASE cb
    <2>1. Before(s, t, cb) = Basics(s)
      BY <1>3 DEF Before
    <2>2. ASSUME NEW j \in 1 .. Len(s), j > Basics(s)
          PROVE  ~IsBasic(s[j], "ref") /\ ~IsBasic(s[j], "proxy")
      <3>1. ~IsBasic(s[j], "ref")
        BY <1>1, <1>2, <2>2 DEF Basics
      <3>2. ~IsBasic(s[j], "proxy")
        <4>1. CASE j = 1
          BY <1>1, <2>2, <4>1 DEF Basics
        <4>2. CASE j = 2 /\ IsBasic(s[1], "ref")
          BY <1>1, <2>2, <4>2 DEF Basics
        <4>. QED  BY <1>2, <4>1, <4>2
      <3>. QED  BY <3>1, <3>2
    <2>. QED  BY <1>3, <2>1, <2>2
  <1>4. CASE ~cb /\ t = "ref"
    <2>1. Before(s, t, cb) = 0 /\ ~Shared(s, "ref")
      BY <1>4 DEF Before
    <2>2. ASSUME NEW j \in 1 .. Len(s) PROVE ~IsBasic(s[j], "ref")
      <3>1. SUFFICES ASSUME IsBasic(s[j], "ref") PROVE FALSE
        OBVIOUS
      <3>2. j = 1 /\ 1 <= 2 /\ \A k \in 1 .. 1 - 1 : FALSE
        BY <1>2, <3>1
      <3>. QED  BY <2>1, <3>1, <3>2 DEF Shared
    <2>3. ASSUME NEW j \in 1 .. Len(s), IsBasic(s[j], "proxy") PROVE j = 1
      <3>1. 1 \in 1 .. Len(s)
        BY <1>1
      <3>. QED  BY <1>2, <2>2, <2>3, <3>1
    <2>. QED  BY <1>4, <2>1, <2>2, <2>3
  <1>5. CASE ~cb /\ t = "proxy"
    <2>1. Before(s, t, cb) = RefFirst(s) /\ ~Shared(s, "proxy")
      BY <1>5 DEF Before
    <2>2. RefFirst(s) = 0 \/ (RefFirst(s) = 1 /\ IsBasic(s[1], "ref"))
      BY DEF RefFirst
    <2>3. ASSUME NEW j \in 1 .. Len(s), j > RefFirst(s) PROVE ~IsBasic(s[j], "ref")
      BY <1>1, <1>2, <2>3 DEF RefFirst
    <2>4. ASSUME NEW j \in 1 .. Len(s), IsBasic(s[j], "proxy") PROVE FALSE
      <3>1. CASE j = 1
        <4>1. 1 <= 2 /\ \A k \in 1 .. 1 - 1 : FALSE
          OBVIOUS
        <4>. QED  BY <2>1, <2>4, <3>1, <4>1 DEF Shared
      <3>2. CASE j = 2 /\ IsBasic(s[1], "ref")
        <4>1. ~shape[s[1]].callback
          BY <3>2 DEF IsBasic
        <4>2. \A k \in 1 .. 2 - 1 : k = 1
          OBVIOUS
        <4>3. \A k \in 1 .. j - 1 : ~shape[s[k]].callback
          BY <3>2, <4>1, <4>2
        <4>4. j <= 2
          BY <3>2
        <4>. QED  BY <2>1, <2>4, <4>3, <4>4 DEF Shared
      <3>. QED  BY <1>2, <2>4, <3>1, <3>2
    <2>. QED  BY <1>5, <2>1, <2>2, <2>3, <2>4
  <1>. QED  BY <1>3, <1>4, <1>5

\* A weak reference is put where the list stays in order.
LEMMA InsertKeepsOrder ==
    ASSUME NEW s \in Seq(Weak), ListOk(s), NEW w \in Weak, NEW t \in {"ref", "proxy"}, NEW cb \in BOOLEAN,
           NEW n, n = Before(s, t, cb),
           shape \in [Weak -> Shapes \cup {None}], shape[w] = None,
           shape' = [shape EXCEPT ![w] = [type |-> t, callback |-> cb]],
           cb \/ ~Shared(s, t)
    PROVE  ListOk(InsertAfter(s, n, w))'
  <1>. DEFINE r == InsertAfter(s, n, w)
  <1>1. Len(s) \in Nat /\ n \in Nat /\ n <= Len(s)
    BY BeforeType
  <1>2. /\ \A j \in 1 .. Len(s) : j > n =>
              /\ ~IsBasic(s[j], "ref")
              /\ IsBasic(s[j], "proxy") => ~cb /\ t = "ref" /\ j = 1
        /\ ~cb /\ t = "ref" => n = 0
        /\ ~cb /\ t = "proxy" => n = 0 \/ (n = 1 /\ IsBasic(s[1], "ref"))
    BY BehindPlace
  <1>3. \A i \in 1 .. Len(s) :
           /\ shape'[s[i]] = shape[s[i]] /\ shape'[s[i]] # None
           /\ IsBasic(s[i], "ref")' = IsBasic(s[i], "ref")
           /\ IsBasic(s[i], "proxy")' = IsBasic(s[i], "proxy")
    BY DEF ListOk, IsBasic
  <1>4. /\ shape'[w] # None
        /\ IsBasic(w, "ref")' => ~cb /\ t = "ref"
        /\ ~cb /\ t = "ref" => IsBasic(w, "ref")'
        /\ IsBasic(w, "proxy")' => ~cb /\ t = "proxy"
    <2>1. shape'[w] = [type |-> t, callback |-> cb] /\ [type |-> t, callback |-> cb] \in Shapes
      BY DEF Shapes
    <2>. QED  BY <2>1, LifetimeAssumption DEF IsBasic
  <1>5. /\ Len(r) = Len(s) + 1
        /\ \A k \in 1 .. Len(s) + 1 :
              r[k] = IF k <= n THEN s[k] ELSE IF k = n + 1 THEN w ELSE s[k - 1]
    BY <1>1 DEF InsertAfter
  <1>. HIDE DEF r
  <1>6. ASSUME NEW k \in 1 .. Len(r)
        PROVE  /\ shape'[r[k]] # None
               /\ IsBasic(r[k], "ref")' => k = 1
               /\ IsBasic(r[k], "proxy")' => k = 1 \/ (k = 2 /\ IsBasic(r[1], "ref")')
    <2>0. 1 \in 1 .. Len(s) + 1 /\ k \in 1 .. Len(s) + 1
      BY <1>1, <1>5
    <2>1. CASE k <= n
      <3>1. r[k] = s[k]
        BY <1>5, <2>0, <2>1
      <3>2. 1 <= n
        BY <1>1, <2>0, <2>1
      <3>3. r[1] = s[1]
        BY <1>5, <2>0, <3>2
      <3>4. k \in 1 .. Len(s) /\ 1 \in 1 .. Len(s)
        BY <1>1, <2>0, <2>1
      <3>. QED  BY <1>3, <3>1, <3>3, <3>4 DEF ListOk
    <2>2. CASE k = n + 1
      <3>1. r[k] = w
        BY <1>1, <1>5, <2>0, <2>2
      <3>2. n = 1 => 1 \in 1 .. Len(s) /\ r[1] = s[1]
        BY <1>1, <1>5, <2>0
      <3>3. ~cb /\ t = "ref" => k = 1
        BY <1>2, <2>2
      <3>4. ~cb /\ t = "proxy" => k = 1 \/ (k = 2 /\ n = 1 /\ IsBasic(s[1], "ref"))
        BY <1>2, <2>2
      <3>5. n = 1 /\ IsBasic(s[1], "ref") => IsBasic(r[1], "ref")'
        BY <1>3, <3>2
      <3>. QED  BY <1>4, <3>1, <3>3, <3>4, <3>5
    <2>3. CASE k > n + 1
      <3>1. k - 1 \in 1 .. Len(s) /\ k - 1 > n /\ r[k] = s[k - 1]
        BY <1>1, <1>5, <2>0, <2>3
      <3>2. ~IsBasic(r[k], "ref")' /\ shape'[r[k]] # None
        BY <1>2, <1>3, <3>1
      <3>3. ASSUME IsBasic(r[k], "proxy")' PROVE k = 2 /\ IsBasic(r[1], "ref")'
        <4>1. IsBasic(s[k - 1], "proxy")
          BY <1>3, <3>1, <3>3
        <4>2. ~cb /\ t = "ref" /\ k - 1 = 1 /\ n = 0
          BY <1>2, <3>1, <4>1
        <4>3. r[1] = w
          BY <1>5, <2>0, <4>2
        <4>. QED  BY <1>4, <2>0, <4>2, <4>3
      <3>. QED  BY <3>2, <3>3
    <2>. QED  BY <1>1, <2>0, <2>1, <2>2, <2>3
  <1>7. ListOk(r)'
    BY <1>6 DEF ListOk
  <1>. QED  BY <1>7 DEF r

\* A weak reference leaves a list in order.
LEMMA WithoutKeepsOrder ==
    ASSUME NEW s \in Seq(Weak), ListOk(s), NEW n \in 1 .. Len(s)
    PROVE  ListOk(Without(s, n))
  <1>. DEFINE r == Without(s, n)
  <1>1. Len(s) \in Nat /\ n \in Nat /\ n > 0
    OBVIOUS
  <1>2. /\ Len(r) = Len(s) - 1
        /\ \A k \in 1 .. Len(s) - 1 : r[k] = IF k < n THEN s[k] ELSE s[k + 1]
    BY <1>1 DEF Without
  <1>. HIDE DEF r
  <1>3. ASSUME NEW k \in 1 .. Len(r)
        PROVE  /\ shape[r[k]] # None
               /\ IsBasic(r[k], "ref") => k = 1
               /\ IsBasic(r[k], "proxy") => k = 1 \/ (k = 2 /\ IsBasic(r[1], "ref"))
    <2>0. k \in 1 .. Len(s) - 1 /\ 1 \in 1 .. Len(s) - 1
      BY <1>1, <1>2
    <2>1. CASE k < n
      <3>1. r[k] = s[k]
        BY <1>2, <2>0, <2>1
      <3>2. 1 < n
        BY <1>1, <2>0, <2>1
      <3>3. r[1] = s[1]
        BY <1>2, <2>0, <3>2
      <3>4. k \in 1 .. Len(s)
        BY <1>1, <2>0
      <3>. QED  BY <3>1, <3>3, <3>4 DEF ListOk
    <2>2. CASE ~(k < n)
      <3>1. k + 1 \in 1 .. Len(s) /\ r[k] = s[k + 1] /\ k + 1 # 1
        BY <1>1, <1>2, <2>0, <2>2
      <3>2. ~IsBasic(r[k], "ref") /\ shape[r[k]] # None
        BY <3>1 DEF ListOk
      <3>3. IsBasic(r[k], "proxy") => k + 1 = 2
        BY <3>1 DEF ListOk
      <3>. QED  BY <2>0, <3>2, <3>3
    <2>. QED  BY <2>1, <2>2
  <1>4. ListOk(r)
    BY <1>3 DEF ListOk
  <1>. QED  BY <1>4 DEF r

\* No step breaks the order of a list.
LEMMA OrderStep == IInv /\ ListsOk /\ [Next]_vars => ListsOk'
  <1>. SUFFICES ASSUME IInv, ListsOk, [Next]_vars PROVE ListsOk'
    OBVIOUS
  <1>0. /\ weakrefs \in [Obj -> Seq(Weak)] /\ shape \in [Weak -> Shapes \cup {None}]
        /\ \A p \in Obj : ListOk(weakrefs[p])
    BY DEF IInv, TypeOk, ListsOk
  <1>1. ASSUME NEW w \in Weak, NEW o \in Obj, NEW t \in {"ref", "proxy"}, NEW cb \in BOOLEAN,
               NewWeak(w, o, t, cb)
        PROVE  ListsOk'
    <2>1. PICK s \in Seq(Weak) : s = weakrefs[o]
      BY <1>0
    <2>2. PICK n : n = Before(s, t, cb)
      OBVIOUS
    <2>3. PICK r : r = InsertAfter(s, n, w)
      OBVIOUS
    <2>4. /\ shape[w] = None /\ (cb \/ ~Shared(s, t)) /\ ListOk(s)
          /\ shape' = [shape EXCEPT ![w] = [type |-> t, callback |-> cb]]
          /\ weakrefs' = [weakrefs EXCEPT ![o] = r]
      BY <1>0, <1>1, <2>1, <2>2, <2>3 DEF NewWeak
    <2>5. ListOk(r)'
      <3>1. ListOk(InsertAfter(s, n, w))'
        BY <1>0, <2>2, <2>4, InsertKeepsOrder
      <3>. QED  BY <2>3, <3>1
    <2>6. weakrefs'[o] = r /\ \A p \in Obj \ {o} : weakrefs'[p] = weakrefs[p]
      BY <1>0, <2>4
    <2>7. ASSUME NEW p \in Obj \ {o} PROVE ListOk(weakrefs[p])'
      <3>1. \A i \in 1 .. Len(weakrefs[p]) :
               weakrefs[p][i] \in Weak /\ shape'[weakrefs[p][i]] = shape[weakrefs[p][i]]
        BY <1>0, <2>4 DEF ListOk
      <3>2. \A i \in 1 .. Len(weakrefs[p]) : 1 \in 1 .. Len(weakrefs[p])
        BY <1>0
      <3>. QED  BY <1>0, <2>6, <3>1, <3>2 DEF ListOk, IsBasic
    <2>8. ListOk(weakrefs[o])'
      BY <2>5, <2>6 DEF ListOk
    <2>. QED  BY <2>7, <2>8 DEF ListsOk
  <1>2. ASSUME NEW w \in Weak, NEW o \in Obj, WeakDestroy(w, o) PROVE ListsOk'
    <2>1. PICK i \in 1 .. Len(weakrefs[o]) : weakrefs' = [weakrefs EXCEPT ![o] = Without(weakrefs[o], i)]
      BY <1>2 DEF WeakDestroy
    <2>2. UNCHANGED shape
      BY <1>2 DEF WeakDestroy
    <2>3. ListOk(Without(weakrefs[o], i))
      BY <1>0, WithoutKeepsOrder
    <2>4. \A p \in Obj : ListOk(weakrefs'[p])
      BY <1>0, <2>1, <2>3
    <2>. QED  BY <2>2, <2>4 DEF ListsOk, ListOk, IsBasic
  <1>3. CASE ClearWeakrefs
    <2>1. UNCHANGED shape /\ \A p \in Obj : weakrefs'[p] = weakrefs[p] \/ weakrefs'[p] = <<>>
      BY <1>0, <1>3 DEF ClearWeakrefs
    <2>2. ListOk(<<>>)
      BY DEF ListOk
    <2>3. \A p \in Obj : ListOk(weakrefs'[p])
      BY <1>0, <2>1, <2>2
    <2>. QED  BY <2>1, <2>3 DEF ListsOk, ListOk, IsBasic
  <1>4. CASE UNCHANGED weakVars
    BY <1>4 DEF weakVars, ListsOk, ListOk, IsBasic
  <1>5. ASSUME NEW o \in Obj, NEW k \in Kinds, NEW v \in Var, Create(o, k, v) PROVE UNCHANGED weakVars
    BY <1>5 DEF Create
  <1>6. ASSUME NEW o \in Obj, NEW v \in Var, Load(o, v) PROVE UNCHANGED weakVars
    BY <1>6 DEF Load
  <1>7. ASSUME NEW v \in Var, Drop(v) PROVE UNCHANGED weakVars
    BY <1>7 DEF Drop
  <1>8. ASSUME NEW p \in Obj, NEW o \in Obj, Store(p, o) \/ Delete(p, o) PROVE UNCHANGED weakVars
    BY <1>8 DEF Store, Delete
  <1>9. ASSUME NEW w \in Weak, NEW o \in Obj, NEW v \in Var, WeakGet(w, o, v) PROVE UNCHANGED weakVars
    BY <1>9 DEF WeakGet
  <1>10. ASSUME NEW f \in Finalizers, RunFinalizer(f) PROVE UNCHANGED weakVars
    BY <1>10 DEF RunFinalizer
  <1>11. ASSUME NEW c \in Obj, ReleaseReference(c) PROVE UNCHANGED weakVars
    BY <1>11 DEF ReleaseReference
  <1>12. ASSUME \/ Return \/ CallCallbacks \/ DeferFinalizers \/ ReleasePendingFinalization
                \/ LeaveFinalizer \/ Finalized \/ Settle \/ DestroyObject \/ UNCHANGED vars
         PROVE  UNCHANGED weakVars
    BY <1>12 DEF Return, CallCallbacks, DeferFinalizers, ReleasePendingFinalization, LeaveFinalizer,
                 Finalized, Settle, DestroyObject, vars, weakVars
  <1>. QED
    BY <1>1, <1>2, <1>3, <1>4, <1>5, <1>6, <1>7, <1>8, <1>9, <1>10, <1>11, <1>12 DEF Next, Code, Native

\* The basic reference and the basic proxy of an object are found at the head
\* of its list, at most one of each, whatever references with callbacks are
\* made and dropped around them.
THEOREM BasicWeakrefsCorrect == Spec => []BasicWeakrefsFirst
  <1>1. Init => ListsOk
    BY DEF Init, ListsOk, ListOk
  <1>2. ListsOk => BasicWeakrefsFirst
    BY DEF ListsOk, ListOk, BasicWeakrefsFirst
  <1>. QED  BY <1>1, <1>2, OrderStep, Invariance, PTL DEF Spec
=============================================================================
