---------------------------- MODULE Types_caches ----------------------------
(***************************************************************************)
(* What caches of lookups rely on (Types), for any hierarchy of classes,   *)
(* any names and any code that runs inside the operations: the types of    *)
(* the state, that a change to a class reaches every type with a version   *)
(* that has the class in its MRO, and that the lookup cache and the memo   *)
(* of a constructor answer what a walk of the MRO would find.              *)
(***************************************************************************)
EXTENDS Types_proofs, SequenceTheorems

(***************************************************************************)
(* Sequences of classes                                                    *)
(***************************************************************************)

\* A sequence is one over any set that has its elements.
LEMMA SeqOver ==
  ASSUME NEW S, NEW T, NEW s \in Seq(S), Members(s) \subseteq T
  PROVE  s \in Seq(T)
  <1>1. Len(s) \in Nat /\ DOMAIN s = 1 .. Len(s) /\ s = [i \in 1 .. Len(s) |-> s[i]]
    OBVIOUS
  <1>2. \A i \in 1 .. Len(s) : s[i] \in T
    BY <1>1 DEF Members
  <1>3. s \in [1 .. Len(s) -> T]
    BY <1>1, <1>2
  <1> QED BY <1>1, <1>3, SeqDef

LEMMA SeqElements ==
  ASSUME NEW S, NEW s \in Seq(S)
  PROVE  /\ Members(s) \subseteq S /\ Len(s) \in Nat /\ DOMAIN s = 1 .. Len(s)
         /\ s = <<>> <=> Members(s) = {}
         /\ s = <<>> <=> Len(s) = 0
  <1>1. Len(s) \in Nat /\ DOMAIN s = 1 .. Len(s) /\ \A i \in 1 .. Len(s) : s[i] \in S
    OBVIOUS
  <1>2. s = <<>> <=> Len(s) = 0
    OBVIOUS
  <1>3. Len(s) # 0 => 1 \in 1 .. Len(s)
    BY <1>1
  <1>4. Len(s) = 0 => DOMAIN s = {}
    BY <1>1
  <1>5. Members(s) = {} <=> DOMAIN s = {}
    BY DEF Members
  <1>6. Members(s) \subseteq S
    BY <1>1 DEF Members
  <1> QED BY <1>1, <1>2, <1>3, <1>4, <1>5, <1>6

\* The elements of sequences.
Elements(ms) == UNION {Members(r) : r \in Members(ms)}

\* The merge of sequences of classes for type t begins with t and has the
\* elements of all of them.
LEMMA MergedOrder ==
  ASSUME NEW U, IsFiniteSet(U), NEW t, NEW bs \in Seq(U), NEW ms \in Seq(Seq(U)),
         NEW m \in C3(t, bs, ms)
  PROVE  /\ m \in Seq(U \cup {t}) /\ m # <<>> /\ m[1] = t
         /\ Members(m) = {t} \cup Members(bs) \cup Elements(ms)
         /\ \A i \in 2 .. Len(m) : m[i] \in Members(bs) \cup Elements(ms)
  <1> DEFINE seqs == Append(ms, bs)
             all  == UNION {Members(r) : r \in Members(seqs)}
             n == Cardinality(all)
  <1>1. Members(seqs) = Members(ms) \cup {bs}
    <2>1. /\ DOMAIN ms = 1 .. Len(ms) /\ Len(ms) \in Nat
          /\ DOMAIN seqs = 1 .. Len(ms) + 1
          /\ \A i \in 1 .. Len(ms) : seqs[i] = ms[i]
          /\ seqs[Len(ms) + 1] = bs
      OBVIOUS
    <2> HIDE DEF seqs
    <2>2. \A i \in DOMAIN seqs : i \in DOMAIN ms \/ i = Len(ms) + 1
      BY <2>1
    <2>3. Len(ms) + 1 \in DOMAIN seqs /\ \A i \in DOMAIN ms : i \in DOMAIN seqs
      BY <2>1
    <2> QED BY <2>1, <2>2, <2>3 DEF Members
  <1>2. all = Members(bs) \cup Elements(ms)
    BY <1>1 DEF Elements
  <1>3. all \subseteq U
    <2>1. Members(bs) \subseteq U /\ \A r \in Members(ms) : r \in Seq(U)
      BY SeqElements DEF Members
    <2>2. \A r \in Members(ms) : Members(r) \subseteq U
      BY <2>1, SeqElements
    <2> QED BY <1>2, <2>1, <2>2 DEF Elements
  <1>4. PICK s \in Arrangements(all) : m = <<t>> \o s
    BY DEF C3
  <1> HIDE DEF all
  <1>5. IsFiniteSet(all) /\ n \in Nat
    BY <1>3, FS_Subset, FS_CardinalityType
  <1>6. s \in [1 .. n -> all] /\ \A i, j \in DOMAIN s : s[i] = s[j] => i = j
    BY <1>4 DEF Arrangements
  <1> HIDE DEF n
  <1>7. s \in Injection(1 .. n, all)
    BY <1>6 DEF Injection, IsInjective
  <1>8. s \in Surjection(1 .. n, all)
    <2>1. Cardinality(1 .. n) = n
      <3>1. Cardinality(1 .. n) = IF 1 > n THEN 0 ELSE n - 1 + 1
        BY <1>5, FS_Interval
      <3> QED BY <1>5, <3>1
    <2> QED BY <1>5, <1>7, <2>1, FS_Injection DEF n
  <1>9. Members(s) = all
    BY <1>6, <1>8 DEF Members, Surjection
  <1>10. s \in Seq(all) /\ Len(s) = n
    BY <1>5, <1>6, IsASeq
  <1>11. s \in Seq(U \cup {t})
    BY <1>3, <1>9, <1>10, SeqOver
  <1>12. /\ m \in Seq(U \cup {t}) /\ Len(m) = n + 1 /\ m[1] = t
         /\ \A i \in 2 .. n + 1 : m[i] = s[i - 1]
    BY <1>4, <1>10, <1>11, LinkedFront
  <1>13. DOMAIN m = 1 .. n + 1 /\ DOMAIN s = 1 .. n
    BY <1>6, <1>12, SeqElements
  <1>14. \A i \in 2 .. n + 1 : i - 1 \in 1 .. n
    BY <1>5
  <1>15. \A i \in 2 .. n + 1 : m[i] \in all
    BY <1>6, <1>12, <1>14
  <1>16. all \subseteq Members(m)
    <2> SUFFICES ASSUME NEW i \in 1 .. n PROVE s[i] \in Members(m)
      BY <1>9, <1>13 DEF Members
    <2>1. i + 1 \in 2 .. n + 1 /\ i + 1 \in 1 .. n + 1 /\ (i + 1) - 1 = i
      BY <1>5
    <2> QED BY <1>12, <1>13, <2>1 DEF Members
  <1>17. Members(m) \subseteq {t} \cup all
    <2> SUFFICES ASSUME NEW i \in 1 .. n + 1 PROVE m[i] \in {t} \cup all
      BY <1>13 DEF Members
    <2>1. i = 1 \/ i \in 2 .. n + 1
      BY <1>5
    <2> QED BY <1>12, <1>15, <2>1
  <1>18. 1 \in 1 .. n + 1
    BY <1>5
  <1>19. t \in Members(m) /\ m # <<>>
    BY <1>12, <1>13, <1>18 DEF Members
  <1> QED BY <1>2, <1>12, <1>15, <1>16, <1>17, <1>19

(***************************************************************************)
(* The frames of a step                                                    *)
(***************************************************************************)

\* The frames of stack t are those of stack s at their places, and new ones in F.
NewOn(t, s, F) == \A i \in DOMAIN t : t[i] \in F \/ (i \in DOMAIN s /\ t[i] = s[i])

LEMMA FramesPushed ==
  ASSUME NEW s, Sequence(s), NEW f
  PROVE  Sequence(Append(s, f)) /\ NewOn(Append(s, f), s, {f})
  <1>1. /\ Sequence(Append(s, f)) /\ Len(s) \in Nat /\ DOMAIN s = 1 .. Len(s)
        /\ DOMAIN Append(s, f) = 1 .. Len(s) + 1
        /\ \A i \in 1 .. Len(s) : Append(s, f)[i] = s[i]
        /\ Append(s, f)[Len(s) + 1] = f
    BY Appended
  <1>2. \A i \in 1 .. Len(s) + 1 : i \in 1 .. Len(s) \/ i = Len(s) + 1
    BY <1>1
  <1> QED BY <1>1, <1>2 DEF NewOn

LEMMA FramesPopped ==
  ASSUME NEW s, Sequence(s), s # <<>>
  PROVE  NewOn(Lower(s), s, {})
  <1>1. /\ Len(s) \in Nat \ {0} /\ DOMAIN s = 1 .. Len(s)
        /\ DOMAIN Lower(s) = 1 .. Len(s) - 1
        /\ \A i \in 1 .. Len(s) - 1 : Lower(s)[i] = s[i]
    BY Popped
  <1>2. \A i \in 1 .. Len(s) - 1 : i \in 1 .. Len(s)
    BY <1>1
  <1> QED BY <1>1, <1>2 DEF NewOn

LEMMA FramesReplaced ==
  ASSUME NEW s, Sequence(s), s # <<>>, NEW f
  PROVE  Sequence(Append(Lower(s), f)) /\ NewOn(Append(Lower(s), f), s, {f})
  <1>1. /\ Sequence(Append(Lower(s), f)) /\ DOMAIN Append(Lower(s), f) = DOMAIN s
        /\ Append(Lower(s), f)[Len(s)] = f
        /\ \A i \in DOMAIN s : i # Len(s) => Append(Lower(s), f)[i] = s[i]
    BY Replaced
  <1> QED BY <1>1 DEF NewOn

LEMMA FramesJoined ==
  ASSUME NEW s, NEW t, NEW u, NEW F, NEW G, NewOn(t, s, F), NewOn(u, t, G)
  PROVE  NewOn(u, s, F \cup G)
  BY DEF NewOn

\* The frames a lookup begins with.
LEMMA FramesLooked ==
  ASSUME NEW s, Sequence(s), NEW t, NEW use, NEW k
  PROVE  /\ NewOn(s \o Asking(Looks(t, use, k)), s, {Looks(t, use, k), Wants(t)})
         /\ NewOn(s \o <<Looks(t, use, k), Wants(t)>>, s, {Looks(t, use, k), Wants(t)})
  <1> DEFINE f == Looks(t, use, k)
             g == Wants(t)
  <1>1. f.type = t
    BY DEF Looks
  <1>2. Asking(f) = <<f, g>> \/ Asking(f) = <<f>>
    BY <1>1 DEF Asking
  <1> HIDE DEF f, g
  <1>3. Sequence(Append(s, f)) /\ NewOn(Append(s, f), s, {f})
    BY FramesPushed
  <1>4. NewOn(Append(Append(s, f), g), Append(s, f), {g})
    BY <1>3, FramesPushed
  <1>5. s \o <<f>> = Append(s, f) /\ s \o <<f, g>> = Append(Append(s, f), g)
    BY Concatenated
  <1>6. NewOn(s \o <<f, g>>, s, {f, g}) /\ NewOn(s \o <<f>>, s, {f, g})
    BY <1>3, <1>4, <1>5 DEF NewOn
  <1> QED BY <1>2, <1>6 DEF f, g

\* The frames that steps put on top of the stack.
Asked == [Top EXCEPT !.asked = FirstBase(Top.type)]
Walking == [Top EXCEPT !.step = "walk", !.version = version[Top.type], !.mro = mro[Top.type], !.at = 1]
Probing == [Top EXCEPT !.at = @ + 1]
Releasing == [Top EXCEPT !.step = "release", !.found = Probed]
Assigning(t) ==
    [op |-> "bases", step |-> "scan", type |-> t, before |-> bases[t], odd |-> t \in odd,
     current |-> NoClass, orders |-> <<>>, todo |-> {}, was |-> [d \in Descendants({t}) |-> mro[d]]]
Computing(r) == [Top EXCEPT !.step = "compute", !.current = r, !.orders = Orders(bases[r])]
Scanning == [Top EXCEPT !.step = "scan", !.current = NoClass, !.orders = <<>>]
Undoing == [Top EXCEPT !.step = "undo", !.current = NoClass, !.orders = <<>>]
Finishing == [Top EXCEPT !.step = "finish", !.todo = Records(Top.type)]
Refreshing(r) == [Top EXCEPT !.todo = @ \ {r}]

LEMMA TopPopped ==
  ASSUME Sequence(stack), stack # <<>>, stack' = Below
  PROVE  NewOn(stack', stack, {})
  BY FramesPopped DEF Lower, Below

LEMMA TopReplaced ==
  ASSUME Sequence(stack), stack # <<>>, NEW f, stack' = Append(Below, f)
  PROVE  NewOn(stack', stack, {f})
  BY FramesReplaced DEF Lower, Below

\* What the steps of versions and lookups put on the stack.
LEMMA LookingFrames ==
  ASSUME Sequence(stack)
  PROVE  /\ AskBase => NewOn(stack', stack, {Asked, Wants(FirstBase(Top.type))})
         /\ RefuseVersion \/ DistrustMro \/ GiveVersion => NewOn(stack', stack, {})
         /\ \A t, use, k : Lookup(t, use, k) => NewOn(stack', stack, {Looks(t, use, k), Wants(t)})
         /\ AnswerAtOnce \/ EndUncached \/ KeyReleased => NewOn(stack', stack, {})
         /\ StartWalk => NewOn(stack', stack, {Walking})
         /\ ProbeMiss => NewOn(stack', stack, {Probing})
         /\ EndCached => NewOn(stack', stack, {Releasing})
         /\ \A c, k : ChangeDict(c, k) => NewOn(stack', stack, {})
  <1> USE DEF AtTop
  <1>1. ASSUME AskBase
        PROVE  NewOn(stack', stack, {Asked, Wants(FirstBase(Top.type))})
    <2>1. stack # <<>> /\ stack' = Append(Append(Lower(stack), Asked), Wants(FirstBase(Top.type)))
      BY <1>1 DEF AskBase, Asked, Below, Lower
    <2>2. Sequence(Append(Lower(stack), Asked)) /\ NewOn(Append(Lower(stack), Asked), stack, {Asked})
      BY <2>1, FramesReplaced
    <2>3. NewOn(stack', Append(Lower(stack), Asked), {Wants(FirstBase(Top.type))})
      BY <2>1, <2>2, FramesPushed
    <2>4. NewOn(stack', stack, {Asked} \cup {Wants(FirstBase(Top.type))})
      BY <2>2, <2>3, FramesJoined
    <2> QED BY <2>4 DEF NewOn
  <1>2. ASSUME RefuseVersion \/ DistrustMro \/ GiveVersion
        PROVE  NewOn(stack', stack, {})
    BY <1>2, TopPopped DEF RefuseVersion, DistrustMro, GiveVersion, Pop
  <1>3. ASSUME NEW t, NEW use, NEW k, Lookup(t, use, k)
        PROVE  NewOn(stack', stack, {Looks(t, use, k), Wants(t)})
    BY <1>3, FramesLooked DEF Lookup
  <1>4. ASSUME AnswerAtOnce \/ EndUncached \/ KeyReleased
        PROVE  NewOn(stack', stack, {})
    BY <1>4, TopPopped DEF AnswerAtOnce, EndUncached, KeyReleased, Pop
  <1>5. ASSUME StartWalk PROVE NewOn(stack', stack, {Walking})
    BY <1>5, TopReplaced DEF StartWalk, Become, Walking
  <1>6. ASSUME ProbeMiss PROVE NewOn(stack', stack, {Probing})
    BY <1>6, TopReplaced DEF ProbeMiss, Become, Probing
  <1>7. ASSUME EndCached PROVE NewOn(stack', stack, {Releasing})
    <2>1. stack # <<>> /\ (stack' = Below \/ stack' = Append(Below, Releasing))
      BY <1>7 DEF EndCached, Become, Pop, Releasing
    <2>2. NewOn(stack', stack, {}) \/ NewOn(stack', stack, {Releasing})
      BY <2>1, TopPopped, TopReplaced
    <2> QED BY <2>2 DEF NewOn
  <1>8. ASSUME NEW c, NEW k, ChangeDict(c, k)
        PROVE  NewOn(stack', stack, {})
    BY <1>8 DEF ChangeDict, NewOn
  <1> QED BY <1>1, <1>2, <1>3, <1>4, <1>5, <1>6, <1>7, <1>8

\* What the steps of creations and assignments put on the stack.
LEMMA AssigningFrames ==
  ASSUME Sequence(stack)
  PROVE  /\ \A t, bs : Create(t, bs) => NewOn(stack', stack, {Looks(t, "has", DelKey), Wants(t)})
         /\ \A t, bs, strange : SetBases(t, bs, strange) => NewOn(stack', stack, {Assigning(t)})
         /\ (\E t : Die(t)) \/ Merge \/ RecordLate \/ Undo => stack' = stack
         /\ StartMerge => \E r \in InTurn(Top.type) \cap odd : NewOn(stack', stack, {Computing(r)})
         /\ EndMerge => NewOn(stack', stack, {Scanning})
         /\ Fail => NewOn(stack', stack, {Undoing})
         /\ Rebase => NewOn(stack', stack, {Finishing})
         /\ RefreshRecord => \E r \in Top.todo :
               NewOn(stack', stack, {Refreshing(r), Looks(r, "has", DelKey), Wants(r)})
         /\ EndUndo \/ EndRebase => NewOn(stack', stack, {})
  <1> USE DEF AtTop
  <1>1. ASSUME NEW t, NEW bs, Create(t, bs)
        PROVE  NewOn(stack', stack, {Looks(t, "has", DelKey), Wants(t)})
    BY <1>1, FramesLooked DEF Create
  <1>2. ASSUME NEW t, NEW bs, NEW strange, SetBases(t, bs, strange)
        PROVE  NewOn(stack', stack, {Assigning(t)})
    <2>1. stack' = Append(stack, Assigning(t))
      BY <1>2 DEF SetBases, Push, Assigning
    <2> QED BY <2>1, FramesPushed
  <1>3. (\E t : Die(t)) \/ Merge \/ RecordLate \/ Undo => stack' = stack
    BY DEF Die, Merge, RecordLate, Undo
  <1>4. ASSUME StartMerge
        PROVE  \E r \in InTurn(Top.type) \cap odd : NewOn(stack', stack, {Computing(r)})
    <2>1. PICK r \in InTurn(Top.type) \cap odd : stack' = Append(Below, Computing(r))
      BY <1>4 DEF StartMerge, Become, Computing
    <2>2. stack # <<>>
      BY <1>4 DEF StartMerge
    <2> QED BY <2>1, <2>2, TopReplaced
  <1>5. ASSUME EndMerge PROVE NewOn(stack', stack, {Scanning})
    BY <1>5, TopReplaced DEF EndMerge, Become, Scanning
  <1>6. ASSUME Fail PROVE NewOn(stack', stack, {Undoing})
    BY <1>6, TopReplaced DEF Fail, Become, Undoing
  <1>7. ASSUME Rebase PROVE NewOn(stack', stack, {Finishing})
    BY <1>7, TopReplaced DEF Rebase, Become, Finishing
  <1>8. ASSUME RefreshRecord
        PROVE  \E r \in Top.todo :
                  NewOn(stack', stack, {Refreshing(r), Looks(r, "has", DelKey), Wants(r)})
    <2>1. PICK r \in Top.todo :
             stack' = Append(Lower(stack), Refreshing(r)) \o Asking(Looks(r, "has", DelKey))
      BY <1>8 DEF RefreshRecord, Refreshing, Below, Lower
    <2>2. stack # <<>>
      BY <1>8 DEF RefreshRecord
    <2>3. /\ Sequence(Append(Lower(stack), Refreshing(r)))
          /\ NewOn(Append(Lower(stack), Refreshing(r)), stack, {Refreshing(r)})
      BY <2>2, FramesReplaced
    <2>4. NewOn(stack', Append(Lower(stack), Refreshing(r)), {Looks(r, "has", DelKey), Wants(r)})
      BY <2>1, <2>3, FramesLooked
    <2>5. NewOn(stack', stack, {Refreshing(r)} \cup {Looks(r, "has", DelKey), Wants(r)})
      BY <2>3, <2>4, FramesJoined
    <2>6. NewOn(stack', stack, {Refreshing(r), Looks(r, "has", DelKey), Wants(r)})
      BY <2>5 DEF NewOn
    <2> QED BY <2>6
  <1>9. ASSUME EndUndo \/ EndRebase PROVE NewOn(stack', stack, {})
    BY <1>9, TopPopped DEF EndUndo, EndRebase, Pop
  <1> QED BY <1>1, <1>2, <1>3, <1>4, <1>5, <1>6, <1>7, <1>8, <1>9

(***************************************************************************)
(* Types                                                                   *)
(***************************************************************************)

LookFields == {"op", "step", "type", "use", "key", "version", "mro", "at", "found"}

\* An operation in progress, lv being the types that exist and lk their locks.
FrameTyped(f, lv, lk) ==
    /\ f.type \in lv /\ f.op \in {"version", "lookup", "bases"}
    /\ f.op = "version" => f.step = "ask" /\ "asked" \in DOMAIN f
    /\ f.op = "lookup" =>
          /\ LookFields \subseteq DOMAIN f
          /\ f.step \in {"start", "walk", "release"}
          /\ f.key \in Keys /\ f.version \in 0 .. MaxVersion
          /\ f.use = "init" => f.key = InitKey
          /\ f.use \in {"fin", "has"} => f.key = DelKey
          /\ f.found \in Classes \cup {NoClass}
          /\ f.mro \in Seq(lv \cup Classic)
          /\ f.step = "walk" => f.at \in 1 .. Len(f.mro)
    /\ f.op = "bases" =>
          /\ f.step \in {"scan", "compute", "undo", "finish"}
          /\ f.before \in Seq(lv \cup Classic)
          /\ f.orders \in Seq(Seq(lv \cup Classic))
          /\ f.todo \subseteq {d \in Heap : lk[d] = f.type}

FramesTyped(s, lv, lk) == \A i \in DOMAIN s : FrameTyped(s[i], lv, lk)

\* Each type that exists has an MRO, which begins with it.
HierTyped(lv, bs, ms, sb) ==
    /\ Static \subseteq lv /\ lv \subseteq Types
    /\ bs \in [Types -> Seq(lv \cup Classic)] /\ ms \in [Types -> Seq(lv \cup Classic)]
    /\ \A t \in lv : ms[t] # <<>> /\ ms[t][1] = t
    /\ \A t \in Types \ lv : ms[t] = <<>> /\ bs[t] = <<>>
    /\ sb \in [Types -> SUBSET (lv \cap Heap)]

LocksTyped(lv, lk, dn, od) ==
    /\ lk \in [Heap -> (lv \cap Heap) \cup {NoClass}]
    /\ dn \subseteq {t \in Heap : lk[t] # NoClass}
    /\ DOMAIN od = Heap
    /\ \A t \in Heap : /\ {"mro", "custom"} \subseteq DOMAIN od[t]
                       /\ lk[t] # NoClass => /\ od[t].mro \in Seq(lv \cup Classic)
                                             /\ od[t].mro # <<>> /\ od[t].mro[1] = t

FlagsTyped(lv, od, cs, rb, ls) ==
    /\ od \subseteq lv \cap Heap /\ cs \subseteq lv \cap Heap /\ rb \subseteq lv \cap Heap
    /\ ls \subseteq lv

DataTyped(ds, vs, nx, e, h, it, fn) ==
    /\ ds \in [Classes -> SUBSET Keys]
    /\ vs \in [Types -> 0 .. MaxVersion] /\ nx \in 0 .. MaxVersion
    /\ e \in [version : 0 .. MaxVersion, type : Types \cup {NoClass},
              key : Keys \cup {NoKey}, value : Classes \cup {NoClass}]
    /\ h \subseteq Keys
    /\ it \in [Types -> [version : 0 .. MaxVersion, value : Classes \cup {NoClass}]]
    /\ fn \in [Types -> [version : 0 .. MaxVersion, has : BOOLEAN]]

TInv ==
    /\ HierTyped(live, bases, mro, subs)
    /\ FramesTyped(stack, live, lock)
    /\ LocksTyped(live, lock, done, old)
    /\ FlagsTyped(live, odd, custom, rebasing, listed)
    /\ DataTyped(defs, version, next, entry, held, init, fin)

\* The classes there are.
LEMMA ClassFacts ==
  /\ Heap \subseteq Types /\ Static \subseteq Types /\ Types = Heap \cup Static
  /\ Heap \cap Static = {} /\ Types \cap Classic = {} /\ Classes = Types \cup Classic
  /\ NoClass \notin Classes /\ IsFiniteSet(Classes) /\ Root \in Static
  BY TypesAssumption DEF Types, Classes

LEMMA FramesTypedOn ==
  ASSUME NEW s, NEW t, NEW F, NewOn(t, s, F), NEW lv, NEW lk, FramesTyped(s, lv, lk),
         \A f \in F : FrameTyped(f, lv, lk)
  PROVE  FramesTyped(t, lv, lk)
  BY DEF NewOn, FramesTyped

LEMMA TopTyped ==
  ASSUME LInv, TInv, stack # <<>>
  PROVE  FrameTyped(Top, live, lock) /\ Named(Top) /\ Len(stack) \in DOMAIN stack
         /\ Top = stack[Len(stack)]
  BY TopNamed DEF LInv, TInv, FramesTyped, Top

\* The bases and the MRO of a type that exists.
LEMMA BasesTyped ==
  ASSUME TInv, NEW t \in Types
  PROVE  /\ bases[t] \in Seq(live \cup Classic) /\ mro[t] \in Seq(live \cup Classic)
         /\ Members(bases[t]) \subseteq live \cup Classic /\ DOMAIN bases[t] = 1 .. Len(bases[t])
         /\ Members(mro[t]) \subseteq live \cup Classic /\ DOMAIN mro[t] = 1 .. Len(mro[t])
         /\ Len(bases[t]) \in Nat /\ Len(mro[t]) \in Nat
  <1>1. bases[t] \in Seq(live \cup Classic) /\ mro[t] \in Seq(live \cup Classic)
    BY DEF TInv, HierTyped
  <1> QED BY <1>1, SeqElements

LEMMA FirstBaseOf ==
  ASSUME TInv, NEW t \in Types, Unversioned(t) # {}
  PROVE  FirstBase(t) \in live /\ version[FirstBase(t)] = 0 /\ FirstBase(t) \in Members(bases[t])
  <1> DEFINE i == CHOOSE i \in Unversioned(t) : \A j \in Unversioned(t) : i <= j
  <1>1. DOMAIN bases[t] = 1 .. Len(bases[t]) /\ Members(bases[t]) \subseteq live \cup Classic
    BY BasesTyped
  <1>2. Unversioned(t) \subseteq Nat
    BY <1>1 DEF Unversioned
  <1>3. \E x \in Unversioned(t) : \A j \in Unversioned(t) : x <= j
    BY <1>2, LeastElement
  <1>4. i \in Unversioned(t)
    BY <1>3
  <1>5. FirstBase(t) = bases[t][i]
    BY DEF FirstBase
  <1> HIDE DEF i
  <1> QED BY <1>1, <1>4, <1>5, ClassFacts DEF Unversioned, Members

LEMMA WantsTyped ==
  ASSUME NEW t \in live
  PROVE  FrameTyped(Wants(t), live, lock)
  BY DEF FrameTyped, Wants

LEMMA LooksTyped ==
  ASSUME NEW t, NEW lv, t \in lv, NEW lk, NEW use \in {"plain", "init", "fin", "has"}, NEW k \in Keys
  PROVE  FrameTyped(Looks(t, use, k), lv, lk) /\ FrameTyped(Wants(t), lv, lk)
  <1> DEFINE f == Looks(t, use, k)
  <1>1. KeyOf(use, k) \in Keys /\ (use = "init" => KeyOf(use, k) = InitKey)
        /\ (use \in {"fin", "has"} => KeyOf(use, k) = DelKey)
    BY TypesAssumption DEF KeyOf
  <1>2. /\ f.op = "lookup" /\ f.step = "start" /\ f.type = t /\ f.use = use /\ f.key = KeyOf(use, k)
        /\ f.version = 0 /\ f.mro = <<>> /\ f.found = NoClass /\ DOMAIN f = LookFields
    BY DEF Looks, LookFields
  <1> HIDE DEF f
  <1>3. 0 \in 0 .. MaxVersion
    BY TypesAssumption
  <1>4. <<>> \in Seq(lv \cup Classic)
    OBVIOUS
  <1>5. FrameTyped(f, lv, lk)
    BY <1>1, <1>2, <1>3, <1>4 DEF FrameTyped
  <1>6. FrameTyped(Wants(t), lv, lk)
    BY DEF FrameTyped, Wants
  <1> QED BY <1>5, <1>6 DEF f

\* A memo is given a value of its type.
LEMMA PublishTyped ==
  ASSUME NEW it, it = init, NEW fn, fn = fin,
         it \in [Types -> [version : 0 .. MaxVersion, value : Classes \cup {NoClass}]],
         fn \in [Types -> [version : 0 .. MaxVersion, has : BOOLEAN]],
         NEW t \in Types, NEW use, NEW v \in 0 .. MaxVersion, NEW value \in Classes \cup {NoClass},
         Publish(t, use, v, value)
  PROVE  /\ init' \in [Types -> [version : 0 .. MaxVersion, value : Classes \cup {NoClass}]]
         /\ fin' \in [Types -> [version : 0 .. MaxVersion, has : BOOLEAN]]
  <1> DEFINE a == [version |-> v, value |-> value]
             w == IF use = "fin" /\ version[t] = v THEN v ELSE fn[t].version
             b == [has |-> value # NoClass, version |-> w]
  <1>1. a \in [version : 0 .. MaxVersion, value : Classes \cup {NoClass}]
    OBVIOUS
  <1>2. w \in 0 .. MaxVersion
    OBVIOUS
  <1>3. init' = it \/ init' = [it EXCEPT ![t] = a]
    BY DEF Publish
  <1>4. fin' = fn \/ fin' = [fn EXCEPT ![t] = b]
    BY DEF Publish
  <1> HIDE DEF a, w
  <1>5. b \in [version : 0 .. MaxVersion, has : BOOLEAN]
    BY <1>2
  <1> HIDE DEF b
  <1>6. init' \in [Types -> [version : 0 .. MaxVersion, value : Classes \cup {NoClass}]]
    BY <1>1, <1>3
  <1>7. fin' \in [Types -> [version : 0 .. MaxVersion, has : BOOLEAN]]
    BY <1>4, <1>5
  <1> QED BY <1>6, <1>7

\* What a probe finds is a class.
LEMMA ProbedTyped ==
  ASSUME LInv, TInv, AtTop("lookup", "walk")
  PROVE  Probed \in Classes \cup {NoClass}
  <1>1. FrameTyped(Top, live, lock) /\ Top.op = "lookup" /\ Top.step = "walk"
    BY TopTyped DEF AtTop
  <1>2. Top.mro \in Seq(live \cup Classic) /\ Top.at \in 1 .. Len(Top.mro)
    BY <1>1 DEF FrameTyped
  <1>3. Top.mro[Top.at] \in live \cup Classic
    BY <1>2
  <1>4. live \subseteq Types
    BY DEF TInv, HierTyped
  <1> QED BY <1>3, <1>4, ClassFacts DEF Probed

LEMMA LookingFramesTyped ==
  ASSUME LInv, TInv, Looking
  PROVE  FramesTyped(stack', live, lock)
  <1> USE DEF AtTop
  <1>0. Sequence(stack) /\ FramesTyped(stack, live, lock) /\ live \subseteq Types
    BY DEF LInv, StackNamed, TInv, HierTyped
  <1>1. CASE AskBase
    <2>1. stack # <<>> /\ Top.op = "version" /\ Unversioned(Top.type) # {}
      BY <1>1 DEF AskBase
    <2>2. FrameTyped(Top, live, lock) /\ Named(Top)
      BY <2>1, TopTyped
    <2>3. Top.type \in Types
      BY <1>0, <2>2 DEF FrameTyped
    <2>4. FirstBase(Top.type) \in live
      BY <2>1, <2>3, FirstBaseOf
    <2>5. FrameTyped(Wants(FirstBase(Top.type)), live, lock)
      BY <2>4, WantsTyped
    <2>6. /\ DOMAIN Asked = DOMAIN Top /\ Asked.op = Top.op /\ Asked.step = Top.step
          /\ Asked.type = Top.type
      BY <2>1, <2>2 DEF FrameTyped, Asked
    <2>7. FrameTyped(Asked, live, lock)
      BY <2>1, <2>2, <2>6 DEF FrameTyped
    <2>8. NewOn(stack', stack, {Asked, Wants(FirstBase(Top.type))})
      BY <1>0, <1>1, LookingFrames
    <2> QED BY <1>0, <2>5, <2>7, <2>8, FramesTypedOn
  <1>2. CASE RefuseVersion \/ DistrustMro \/ GiveVersion \/ AnswerAtOnce \/ EndUncached \/ KeyReleased
    <2>1. NewOn(stack', stack, {})
      BY <1>0, <1>2, LookingFrames
    <2> QED BY <1>0, <2>1, FramesTypedOn
  <1>3. ASSUME NEW t \in Types, NEW use \in {"plain", "init", "fin"}, NEW k \in Keys, Lookup(t, use, k)
        PROVE  FramesTyped(stack', live, lock)
    <2>1. NewOn(stack', stack, {Looks(t, use, k), Wants(t)})
      BY <1>0, <1>3, LookingFrames
    <2>2. t \in live
      BY <1>3 DEF Lookup
    <2>3. FrameTyped(Looks(t, use, k), live, lock) /\ FrameTyped(Wants(t), live, lock)
      BY <2>2, LooksTyped
    <2> QED BY <1>0, <2>1, <2>3, FramesTypedOn
  <1>4. CASE StartWalk
    <2>1. stack # <<>> /\ Top.op = "lookup"
      BY <1>4 DEF StartWalk
    <2>2. FrameTyped(Top, live, lock)
      BY <2>1, TopTyped
    <2> DEFINE t == Top.type
    <2>3. t \in live /\ t \in Types
      BY <1>0, <2>2 DEF FrameTyped
    <2>4. /\ DOMAIN Walking = DOMAIN Top /\ Walking.op = Top.op /\ Walking.step = "walk"
          /\ Walking.type = Top.type /\ Walking.use = Top.use /\ Walking.key = Top.key
          /\ Walking.version = version[t] /\ Walking.mro = mro[t] /\ Walking.at = 1
          /\ Walking.found = Top.found
      BY <2>1, <2>2 DEF FrameTyped, Walking, LookFields
    <2> HIDE DEF t
    <2>5. version[t] \in 0 .. MaxVersion /\ mro[t] \in Seq(live \cup Classic) /\ mro[t] # <<>>
      BY <2>3 DEF TInv, HierTyped, DataTyped
    <2>6. 1 \in 1 .. Len(mro[t])
      BY <2>5
    <2>7. FrameTyped(Walking, live, lock)
      BY <2>1, <2>2, <2>4, <2>5, <2>6 DEF FrameTyped
    <2>8. NewOn(stack', stack, {Walking})
      BY <1>0, <1>4, LookingFrames
    <2> QED BY <1>0, <2>7, <2>8, FramesTypedOn
  <1>5. CASE ProbeMiss
    <2>1. stack # <<>> /\ Top.op = "lookup" /\ Top.step = "walk" /\ Top.at < Len(Top.mro)
      BY <1>5 DEF ProbeMiss
    <2>2. FrameTyped(Top, live, lock)
      BY <2>1, TopTyped
    <2>3. /\ DOMAIN Probing = DOMAIN Top /\ Probing.op = Top.op /\ Probing.step = Top.step
          /\ Probing.type = Top.type /\ Probing.use = Top.use /\ Probing.key = Top.key
          /\ Probing.version = Top.version /\ Probing.mro = Top.mro /\ Probing.at = Top.at + 1
          /\ Probing.found = Top.found
      BY <2>1, <2>2 DEF FrameTyped, Probing, LookFields
    <2>4. Top.at \in 1 .. Len(Top.mro) /\ Len(Top.mro) \in Nat
      BY <2>1, <2>2, SeqElements DEF FrameTyped
    <2>5. Top.at + 1 \in 1 .. Len(Top.mro)
      BY <2>1, <2>4
    <2>6. FrameTyped(Probing, live, lock)
      BY <2>1, <2>2, <2>3, <2>5 DEF FrameTyped
    <2>7. NewOn(stack', stack, {Probing})
      BY <1>0, <1>5, LookingFrames
    <2> QED BY <1>0, <2>6, <2>7, FramesTypedOn
  <1>6. CASE EndCached
    <2>1. stack # <<>> /\ Top.op = "lookup" /\ Top.step = "walk" /\ AtTop("lookup", "walk")
      BY <1>6 DEF EndCached
    <2>2. FrameTyped(Top, live, lock) /\ Probed \in Classes \cup {NoClass}
      BY <2>1, TopTyped, ProbedTyped
    <2>3. /\ DOMAIN Releasing = DOMAIN Top /\ Releasing.op = Top.op /\ Releasing.step = "release"
          /\ Releasing.type = Top.type /\ Releasing.use = Top.use /\ Releasing.key = Top.key
          /\ Releasing.version = Top.version /\ Releasing.mro = Top.mro
          /\ Releasing.found = Probed
      BY <2>1, <2>2 DEF FrameTyped, Releasing, LookFields
    <2>4. FrameTyped(Releasing, live, lock)
      BY <2>1, <2>2, <2>3 DEF FrameTyped
    <2>5. NewOn(stack', stack, {Releasing})
      BY <1>0, <1>6, LookingFrames
    <2> QED BY <1>0, <2>4, <2>5, FramesTypedOn
  <1>7. ASSUME NEW c, NEW k, ChangeDict(c, k)
        PROVE  FramesTyped(stack', live, lock)
    BY <1>0, <1>7, LookingFrames, FramesTypedOn
  <1> QED BY <1>1, <1>2, <1>3, <1>4, <1>5, <1>6, <1>7 DEF Looking

\* A change to a class leaves versions of their type.
LEMMA ModifiedTyped ==
  ASSUME version \in [Types -> 0 .. MaxVersion], NEW c, Modified(c)
  PROVE  version' \in [Types -> 0 .. MaxVersion] /\ next' = next /\ listed' \subseteq listed
  <1>1. 0 \in 0 .. MaxVersion
    BY TypesAssumption
  <1>2. \E w : version' = Without(w)
    BY DEF Modified
  <1> QED BY <1>1, <1>2 DEF Modified, Without

LEMMA GivenTyped ==
  ASSUME LInv, TInv, GiveVersion
  PROVE  /\ version' \in [Types -> 0 .. MaxVersion] /\ next' \in 0 .. MaxVersion
         /\ listed' \subseteq live
  <1>1. Top.type \in live
    BY TopTyped DEF GiveVersion, AtTop, FrameTyped
  <1>2. /\ version \in [Types -> 0 .. MaxVersion] /\ next \in 0 .. MaxVersion /\ listed \subseteq live
    BY DEF TInv, DataTyped, FlagsTyped
  <1>3. CASE UNCHANGED versions
    BY <1>2, <1>3 DEF versions
  <1>4. CASE /\ listed' = IF HasClassic(Top.type) THEN listed \cup {Top.type} ELSE listed
             /\ version' = [version EXCEPT ![Top.type] = next]
             /\ next' = Counted(next)
    <2>1. MaxVersion \in Nat \ {0}
      BY TypesAssumption
    <2>2. Counted(next) \in 0 .. MaxVersion
      BY <1>2, <2>1 DEF Counted
    <2> QED BY <1>1, <1>2, <1>4, <2>2
  <1> QED BY <1>3, <1>4 DEF GiveVersion

LEMMA FilledTyped ==
  ASSUME LInv, TInv, EndCached
  PROVE  /\ entry' \in [version : 0 .. MaxVersion, type : Types \cup {NoClass},
                        key : Keys \cup {NoKey}, value : Classes \cup {NoClass}]
         /\ held' \subseteq Keys
  <1>1. AtTop("lookup", "walk") /\ entry' = Filled(Top, Probed) /\ held' = HeldWith(Top.key)
    BY DEF EndCached
  <1>2. FrameTyped(Top, live, lock) /\ Probed \in Classes \cup {NoClass} /\ Top.op = "lookup"
    BY <1>1, TopTyped, ProbedTyped DEF AtTop
  <1>3. Top.type \in Types /\ Top.key \in Keys /\ Top.version \in 0 .. MaxVersion
    BY <1>2 DEF FrameTyped, TInv, HierTyped
  <1>4. held \subseteq Keys
    BY DEF TInv, DataTyped
  <1> QED BY <1>1, <1>2, <1>3, <1>4 DEF Filled, HeldWith

LEMMA LookingTyped ==
  ASSUME LInv, TInv, Looking
  PROVE  TInv'
  <1> USE DEF AtTop
  <1>1. UNCHANGED <<hierarchy, locks>>
    BY DEF Looking, AskBase, RefuseVersion, DistrustMro, GiveVersion, Lookup, AnswerAtOnce,
           StartWalk, ProbeMiss, EndUncached, EndCached, KeyReleased, ChangeDict
  <1>2. HierTyped(live', bases', mro', subs') /\ LocksTyped(live', lock', done', old')
    BY <1>1 DEF TInv, hierarchy, locks
  <1>3. FramesTyped(stack', live', lock')
    BY <1>1, LookingFramesTyped DEF hierarchy, locks
  <1>4. FlagsTyped(live, odd, custom, rebasing, listed)
        /\ DataTyped(defs, version, next, entry, held, init, fin)
    BY DEF TInv
  <1>5. CASE AskBase \/ RefuseVersion \/ StartWalk \/ ProbeMiss
             \/ \E t \in Types, use \in {"plain", "init", "fin"}, k \in Keys : Lookup(t, use, k)
    <2>1. UNCHANGED <<defs, custom, rebasing, versions, cache, memos>>
      BY <1>5 DEF AskBase, RefuseVersion, StartWalk, ProbeMiss, Lookup
    <2> QED BY <1>1, <1>2, <1>3, <1>4, <2>1 DEF TInv, hierarchy, versions, cache, memos
  <1>6. CASE DistrustMro
    <2>1. /\ Top.type \in rebasing /\ rebasing' = rebasing \ {Top.type}
          /\ custom' = custom \cup {Top.type} /\ UNCHANGED <<defs, versions, cache, memos>>
      BY <1>6 DEF DistrustMro
    <2>2. FlagsTyped(live, odd, custom', rebasing', listed)
      BY <1>4, <2>1 DEF FlagsTyped
    <2> QED BY <1>1, <1>2, <1>3, <1>4, <2>1, <2>2 DEF TInv, hierarchy, versions, cache, memos
  <1>7. CASE GiveVersion
    <2>1. rebasing' = rebasing \ {Top.type} /\ UNCHANGED <<defs, custom, cache, memos>>
      BY <1>7 DEF GiveVersion
    <2>2. /\ version' \in [Types -> 0 .. MaxVersion] /\ next' \in 0 .. MaxVersion
          /\ listed' \subseteq live
      BY <1>7, GivenTyped
    <2>3. FlagsTyped(live, odd, custom', rebasing', listed')
      BY <1>4, <2>1, <2>2 DEF FlagsTyped
    <2>4. DataTyped(defs, version', next', entry, held, init, fin)
      BY <1>4, <2>2 DEF DataTyped
    <2> QED BY <1>1, <1>2, <1>3, <2>1, <2>3, <2>4 DEF TInv, hierarchy, cache, memos
  <1>8. CASE AnswerAtOnce
    <2>1. stack # <<>> /\ UNCHANGED <<defs, custom, rebasing, versions, cache>>
      BY <1>8 DEF AnswerAtOnce
    <2>2. Top.type \in Types
      BY <2>1, TopTyped DEF FrameTyped, TInv, HierTyped
    <2>3. version[Top.type] \in 0 .. MaxVersion /\ entry.value \in Classes \cup {NoClass}
      BY <1>4, <2>2 DEF DataTyped
    <2>4. UNCHANGED memos \/ Publish(Top.type, Top.use, version[Top.type], entry.value)
      BY <1>8 DEF AnswerAtOnce
    <2>5. /\ init' \in [Types -> [version : 0 .. MaxVersion, value : Classes \cup {NoClass}]]
          /\ fin' \in [Types -> [version : 0 .. MaxVersion, has : BOOLEAN]]
      BY <1>4, <2>2, <2>3, <2>4, PublishTyped DEF DataTyped, memos
    <2>6. DataTyped(defs, version, next, entry, held, init', fin')
      BY <1>4, <2>5 DEF DataTyped
    <2> QED BY <1>1, <1>2, <1>3, <1>4, <2>1, <2>6 DEF TInv, hierarchy, versions, cache
  <1>9. CASE EndUncached \/ KeyReleased \/ EndCached
    <2>1. stack # <<>> /\ Top.op = "lookup" /\ UNCHANGED <<defs, custom, rebasing, versions>>
      BY <1>9 DEF EndUncached, KeyReleased, EndCached
    <2>2. FrameTyped(Top, live, lock)
      BY <2>1, TopTyped
    <2>3. Top.type \in Types /\ Top.version \in 0 .. MaxVersion /\ Top.found \in Classes \cup {NoClass}
      BY <2>1, <2>2 DEF FrameTyped, TInv, HierTyped
    <2>4. UNCHANGED memos \/ \E value \in Classes \cup {NoClass} :
                                 Publish(Top.type, Top.use, Top.version, value)
      BY <1>9, <2>3, ProbedTyped DEF EndUncached, KeyReleased, EndCached
    <2>5. /\ init' \in [Types -> [version : 0 .. MaxVersion, value : Classes \cup {NoClass}]]
          /\ fin' \in [Types -> [version : 0 .. MaxVersion, has : BOOLEAN]]
      BY <1>4, <2>3, <2>4, PublishTyped DEF DataTyped, memos
    <2>6. /\ entry' \in [version : 0 .. MaxVersion, type : Types \cup {NoClass},
                         key : Keys \cup {NoKey}, value : Classes \cup {NoClass}]
          /\ held' \subseteq Keys
      BY <1>4, <1>9, FilledTyped DEF DataTyped, EndUncached, KeyReleased, cache
    <2>7. DataTyped(defs, version, next, entry', held', init', fin')
      BY <1>4, <2>5, <2>6 DEF DataTyped
    <2> QED BY <1>1, <1>2, <1>3, <1>4, <2>1, <2>7 DEF TInv, hierarchy, versions
  <1>10. ASSUME NEW c \in Classes, NEW k \in Keys, ChangeDict(c, k)
         PROVE  TInv'
    <2>1. /\ defs' = [defs EXCEPT ![c] = IF k \in @ THEN @ \ {k} ELSE @ \cup {k}]
          /\ Modified(c) /\ UNCHANGED <<custom, rebasing, cache, memos>>
      BY <1>10 DEF ChangeDict
    <2>2. defs' \in [Classes -> SUBSET Keys]
      BY <1>4, <2>1 DEF DataTyped
    <2>3. version' \in [Types -> 0 .. MaxVersion] /\ next' = next /\ listed' \subseteq listed
      BY <1>4, <2>1, ModifiedTyped DEF DataTyped
    <2>4. DataTyped(defs', version', next', entry, held, init, fin)
      BY <1>4, <2>2, <2>3 DEF DataTyped
    <2>5. FlagsTyped(live, odd, custom, rebasing, listed')
      BY <1>4, <2>3 DEF FlagsTyped
    <2> QED BY <1>1, <1>2, <1>3, <2>1, <2>4, <2>5 DEF TInv, hierarchy, cache, memos
  <1> QED BY <1>5, <1>6, <1>7, <1>8, <1>9, <1>10 DEF Looking

(***************************************************************************)
(* Types, over creation, death and assignments                             *)
(***************************************************************************)

LEMMA FramesTypedGrow ==
  ASSUME NEW s, NEW lv, NEW lk, FramesTyped(s, lv, lk), NEW lv2, lv \subseteq lv2,
         NEW lk2, \A d \in Heap : \A i \in DOMAIN s :
                     s[i].op = "bases" /\ lk[d] = s[i].type => lk2[d] = s[i].type
  PROVE  FramesTyped(s, lv2, lk2)
  <1>1. Seq(lv \cup Classic) \subseteq Seq(lv2 \cup Classic)
    BY SeqMonotonic
  <1>2. Seq(Seq(lv \cup Classic)) \subseteq Seq(Seq(lv2 \cup Classic))
    BY <1>1, SeqMonotonic
  <1> SUFFICES ASSUME NEW i \in DOMAIN s
               PROVE  FrameTyped(s[i], lv2, lk2)
    BY DEF FramesTyped
  <1>3. FrameTyped(s[i], lv, lk)
    BY DEF FramesTyped
  <1>4. s[i].op = "bases" => {d \in Heap : lk[d] = s[i].type} \subseteq {d \in Heap : lk2[d] = s[i].type}
    OBVIOUS
  <1> QED BY <1>1, <1>2, <1>3, <1>4 DEF FrameTyped

LEMMA OrdersTyped ==
  ASSUME TInv, NEW bs \in Seq(live \cup Classic)
  PROVE  /\ Orders(bs) \in Seq(Seq(live \cup Classic))
         /\ \A x \in Types : x \in Members(bs) \cup Elements(Orders(bs)) =>
               \E b \in Members(bs) \cap Types : x \in Members(mro[b])
  <1>1. live \subseteq Types /\ Members(bs) \subseteq live \cup Classic
        /\ DOMAIN bs = 1 .. Len(bs) /\ Len(bs) \in Nat
    BY SeqElements DEF TInv, HierTyped
  <1>2. ASSUME NEW c \in live \cup Classic
        PROVE  OrderOf(c) \in Seq(live \cup Classic)
    <2>1. CASE c \in Classic
      <3>1. <<c>> \in Seq(live \cup Classic)
        BY <2>1
      <3> QED BY <2>1, <3>1 DEF OrderOf
    <2>2. CASE c \in live /\ c \notin Classic
      BY <2>2, <1>1, BasesTyped DEF OrderOf
    <2> QED BY <2>1, <2>2
  <1>3. \A i \in 1 .. Len(bs) : bs[i] \in live \cup Classic
    OBVIOUS
  <1>4. Orders(bs) = [i \in 1 .. Len(bs) |-> OrderOf(bs[i])]
    BY <1>1 DEF Orders
  <1>5. Orders(bs) \in Seq(Seq(live \cup Classic))
    <2>1. Orders(bs) \in [1 .. Len(bs) -> Seq(live \cup Classic)]
      BY <1>2, <1>3, <1>4
    <2> QED BY <1>1, <2>1, SeqDef
  <1>6. ASSUME NEW x \in Types, x \in Members(bs)
        PROVE  \E b \in Members(bs) \cap Types : x \in Members(mro[b])
    <2>1. x \in live
      BY <1>1, <1>6, ClassFacts
    <2>2. mro[x] # <<>> /\ mro[x][1] = x /\ mro[x] \in Seq(live \cup Classic)
      BY <2>1 DEF TInv, HierTyped
    <2>3. 1 \in DOMAIN mro[x]
      BY <2>2
    <2>4. x \in Members(mro[x])
      BY <2>2, <2>3 DEF Members
    <2> QED BY <1>6, <2>4
  <1>7. ASSUME NEW x \in Types, NEW r \in Members(Orders(bs)), x \in Members(r)
        PROVE  \E b \in Members(bs) \cap Types : x \in Members(mro[b])
    <2>1. PICK i \in 1 .. Len(bs) : r = OrderOf(bs[i])
      BY <1>4 DEF Members
    <2>2. bs[i] \in Members(bs) /\ bs[i] \in live \cup Classic
      BY <1>1, <1>3 DEF Members
    <2>3. CASE bs[i] \in Classic
      <3>1. r = <<bs[i]>>
        BY <2>1, <2>3 DEF OrderOf
      <3>2. Members(<<bs[i]>>) = {bs[i]}
        BY DEF Members
      <3> QED BY <1>7, <2>3, <3>1, <3>2, ClassFacts
    <2>4. CASE bs[i] \notin Classic
      <3>1. r = mro[bs[i]] /\ bs[i] \in Types
        BY <1>1, <2>1, <2>2, <2>4 DEF OrderOf
      <3> QED BY <1>7, <2>2, <3>1
    <2> QED BY <2>3, <2>4
  <1> QED BY <1>5, <1>6, <1>7 DEF Elements

\* What C3 makes of the orders of classes that exist.
LEMMA MergedTyped ==
  ASSUME TInv, NEW t, NEW bs \in Seq(live \cup Classic), NEW ms \in Seq(Seq(live \cup Classic)),
         NEW m \in C3(t, bs, ms)
  PROVE  /\ m \in Seq(live \cup Classic \cup {t}) /\ m # <<>> /\ m[1] = t
         /\ Members(m) = {t} \cup Members(bs) \cup Elements(ms)
         /\ \A i \in 2 .. Len(m) : m[i] \in Members(bs) \cup Elements(ms)
  <1>1. live \cup Classic \subseteq Classes
    BY ClassFacts DEF TInv, HierTyped
  <1>2. IsFiniteSet(live \cup Classic)
    BY <1>1, ClassFacts, FS_Subset
  <1> QED BY <1>2, MergedOrder

LEMMA MergedFollows ==
  ASSUME TInv, NEW t, NEW bs \in Seq(live \cup Classic), NEW ms \in Seq(Seq(live \cup Classic)),
         NEW m \in C3(t, bs, ms)
  PROVE  /\ \A x \in Members(bs) : x \in Members(m)
         /\ \A i \in 2 .. Len(m) : m[i] \in Members(bs) \/ m[i] \in Elements(ms)
  <1>1. live \cup Classic \subseteq Classes
    BY ClassFacts DEF TInv, HierTyped
  <1>2. IsFiniteSet(live \cup Classic)
    BY <1>1, ClassFacts, FS_Subset
  <1>3. /\ m \in Seq(live \cup Classic \cup {t}) /\ m # <<>> /\ m[1] = t
        /\ Members(m) = {t} \cup Members(bs) \cup Elements(ms)
        /\ \A i \in 2 .. Len(m) : m[i] \in Members(bs) \cup Elements(ms)
    BY <1>2, MergedOrder
  <1> QED BY <1>3

LEMMA CreateTyped ==
  ASSUME LInv, TInv, NEW t \in Heap, NEW bs \in NewBases[t], Create(t, bs)
  PROVE  TInv'
  <1> DEFINE lv == live \cup {t}
  <1>1. /\ t \notin live /\ Members(bs) \subseteq live \cup Classic
        /\ live' = lv /\ bases' = [bases EXCEPT ![t] = bs]
        /\ subs' = [b \in Types |-> IF b \in Members(bs) THEN subs[b] \cup {t} ELSE subs[b]]
        /\ UNCHANGED <<odd, defs, locks, versions, cache, memos>>
    BY DEF Create
  <1>2. PICK m \in C3(t, bs, Orders(bs)) :
           /\ mro' = [mro EXCEPT ![t] = m]
           /\ custom' = Flagged(custom, t, Custom(t, m, FALSE))
           /\ rebasing' = Flagged(rebasing, t, Rebasing(m, FALSE))
    BY DEF Create
  <1>3. bs \in Seq(Classes) \ {<<>>}
    BY TypesAssumption
  <1>4. bs \in Seq(live \cup Classic)
    BY <1>1, <1>3, SeqOver
  <1>5. m \in Seq(live \cup Classic \cup {t}) /\ m # <<>> /\ m[1] = t
    BY <1>4, OrdersTyped, MergedTyped
  <1>6. live \cup Classic \cup {t} = lv \cup Classic
    OBVIOUS
  <1>7. Seq(live \cup Classic) \subseteq Seq(lv \cup Classic)
    BY SeqMonotonic
  <1>8. bs \in Seq(lv \cup Classic) /\ m \in Seq(lv \cup Classic)
    BY <1>4, <1>5, <1>6, <1>7
  <1>9. HierTyped(live, bases, mro, subs) /\ t \in Types
    BY ClassFacts DEF TInv
  <1> HIDE DEF lv
  <1>10. HierTyped(lv, bases', mro', subs')
    <2>1. Static \subseteq lv /\ lv \subseteq Types /\ live \subseteq lv /\ t \in lv
      BY <1>9 DEF lv, HierTyped
    <2>2. bases' \in [Types -> Seq(lv \cup Classic)] /\ mro' \in [Types -> Seq(lv \cup Classic)]
      BY <1>1, <1>2, <1>7, <1>8, <1>9 DEF HierTyped
    <2>3. \A x \in lv : mro'[x] # <<>> /\ mro'[x][1] = x
      <3>1. \A x \in Types : mro'[x] = IF x = t THEN m ELSE mro[x]
        BY <1>2, <1>9 DEF HierTyped
      <3> QED BY <1>5, <1>9, <3>1, <2>1 DEF lv, HierTyped
    <2>4. \A x \in Types \ lv : mro'[x] = <<>> /\ bases'[x] = <<>>
      BY <1>1, <1>2, <1>9, <2>1 DEF HierTyped
    <2>5. subs' \in [Types -> SUBSET (lv \cap Heap)]
      BY <1>1, <1>9, <2>1 DEF HierTyped
    <2> QED BY <2>1, <2>2, <2>3, <2>4, <2>5 DEF HierTyped
  <1>11. live \subseteq lv /\ t \in lv
    BY DEF lv
  <1>12. LocksTyped(lv, lock, done, old)
    BY <1>7, <1>11 DEF TInv, LocksTyped
  <1>13. FlagsTyped(lv, odd, custom', rebasing', listed)
    BY <1>2, <1>11 DEF TInv, FlagsTyped, Flagged
  <1>14. FramesTyped(stack', lv, lock)
    <2>1. NewOn(stack', stack, {Looks(t, "has", DelKey), Wants(t)})
      BY AssigningFrames DEF LInv, StackNamed
    <2>2. FramesTyped(stack, lv, lock)
      BY <1>11, FramesTypedGrow DEF TInv
    <2>3. DelKey \in Keys
      BY TypesAssumption
    <2>4. FrameTyped(Looks(t, "has", DelKey), lv, lock) /\ FrameTyped(Wants(t), lv, lock)
      BY <1>11, <2>3, LooksTyped
    <2> QED BY <2>1, <2>2, <2>4, FramesTypedOn
  <1>15. DataTyped(defs, version, next, entry, held, init, fin)
    BY DEF TInv
  <1> QED BY <1>1, <1>10, <1>12, <1>13, <1>14, <1>15 DEF TInv, locks, versions, cache, memos

\* Nothing that is left mentions a class that dies.
LEMMA DieTyped ==
  ASSUME LInv, TInv, NEW t \in Heap, Die(t)
  PROVE  TInv'
  <1> DEFINE lv == live \ {t}
             U == lv \cup Classic
  <1>1. /\ t \in live /\ ~ Referenced(t)
        /\ live' = lv
        /\ bases' = [bases EXCEPT ![t] = <<>>] /\ mro' = [mro EXCEPT ![t] = <<>>]
        /\ subs' = [b \in Types |-> IF b = t THEN {} ELSE subs[b] \ {t}]
        /\ odd' = odd \ {t} /\ custom' = custom \ {t} /\ rebasing' = rebasing \ {t}
        /\ listed' = listed \ {t}
        /\ defs' = [defs EXCEPT ![t] = {}] /\ version' = [version EXCEPT ![t] = 0]
        /\ init' = [init EXCEPT ![t] = None]
        /\ fin' = [fin EXCEPT ![t] = [version |-> 0, has |-> FALSE]]
        /\ UNCHANGED <<locks, next, cache, stack>>
    BY DEF Die
  <1>2. /\ \A s \in live \ {t} : t \notin Members(bases[s]) /\ t \notin Members(mro[s])
        /\ \A s \in Heap : lock[s] # NoClass => t # s /\ t \notin Members(old[s].mro)
        /\ \A i \in DOMAIN stack : t \notin Mentioned(stack[i])
    BY <1>1 DEF Referenced
  <1>3. HierTyped(live, bases, mro, subs) /\ t \in Types /\ t \notin Classic /\ t \notin Static
    BY ClassFacts DEF TInv
  <1>4. ASSUME NEW s \in Seq(live \cup Classic), t \notin Members(s)
        PROVE  s \in Seq(U)
    <2>1. Members(s) \subseteq U
      BY <1>4, SeqElements
    <2> QED BY <2>1, SeqOver
  <1> HIDE DEF lv, U
  <1>5. <<>> \in Seq(U)
    OBVIOUS
  <1>6. HierTyped(lv, bases', mro', subs')
    <2>1. Static \subseteq lv /\ lv \subseteq Types /\ lv \subseteq live \ {t}
      BY <1>3 DEF lv, HierTyped
    <2>2. ASSUME NEW x \in Types
          PROVE  bases'[x] \in Seq(U) /\ mro'[x] \in Seq(U)
      <3>1. CASE x = t
        BY <1>1, <1>3, <1>5, <3>1 DEF HierTyped
      <3>2. CASE x \in lv
        <4>1. bases'[x] = bases[x] /\ mro'[x] = mro[x]
          BY <1>1, <1>3, <2>1, <3>2 DEF HierTyped
        <4>2. bases[x] \in Seq(live \cup Classic) /\ mro[x] \in Seq(live \cup Classic)
          BY BasesTyped
        <4> QED BY <1>2, <1>4, <2>1, <3>2, <4>1, <4>2
      <3>3. CASE x # t /\ x \notin lv
        <4>1. bases'[x] = <<>> /\ mro'[x] = <<>>
          BY <1>1, <1>3, <3>3 DEF HierTyped, lv
        <4> QED BY <1>5, <4>1
      <3> QED BY <3>1, <3>2, <3>3
    <2>3. bases' \in [Types -> Seq(U)] /\ mro' \in [Types -> Seq(U)]
      BY <1>1, <1>3, <2>2 DEF HierTyped
    <2>4. \A x \in lv : mro'[x] # <<>> /\ mro'[x][1] = x
      BY <1>1, <1>3, <2>1 DEF HierTyped
    <2>5. \A x \in Types \ lv : mro'[x] = <<>> /\ bases'[x] = <<>>
      BY <1>1, <1>3 DEF HierTyped, lv
    <2>6. subs' \in [Types -> SUBSET (lv \cap Heap)]
      BY <1>1, <1>3 DEF HierTyped, lv
    <2> QED BY <2>1, <2>3, <2>4, <2>5, <2>6 DEF HierTyped, U
  <1>7. LocksTyped(live, lock, done, old) /\ Owned(stack, lock)
    BY DEF TInv, LInv
  <1>8. LocksTyped(lv, lock, done, old)
    <2>1. ASSUME NEW d \in Heap, lock[d] = t
          PROVE  FALSE
      <3>1. PICK i \in DOMAIN stack : stack[i].op = "bases" /\ stack[i].type = t
        BY <1>7, <2>1, NoClassOutside DEF Owned
      <3> QED BY <1>2, <3>1 DEF Mentioned
    <2>2. lock \in [Heap -> (lv \cap Heap) \cup {NoClass}]
      BY <1>7, <2>1 DEF LocksTyped, lv
    <2>3. \A d \in Heap : lock[d] # NoClass => old[d].mro \in Seq(U)
      BY <1>2, <1>4, <1>7 DEF LocksTyped
    <2> QED BY <1>7, <2>2, <2>3 DEF LocksTyped, U
  <1>9. FlagsTyped(lv, odd', custom', rebasing', listed')
    BY <1>1 DEF TInv, FlagsTyped, lv
  <1>10. FramesTyped(stack, lv, lock)
    <2> SUFFICES ASSUME NEW i \in DOMAIN stack
                 PROVE  FrameTyped(stack[i], lv, lock)
      BY DEF FramesTyped
    <2> DEFINE f == stack[i]
    <2>1. FrameTyped(f, live, lock) /\ t \notin Mentioned(f)
      BY <1>2 DEF TInv, FramesTyped
    <2> HIDE DEF f
    <2>2. f.type \in lv
      BY <2>1 DEF FrameTyped, Mentioned, lv
    <2>3. f.op = "lookup" => f.mro \in Seq(U)
      <3>1. f.op = "lookup" => f.mro \in Seq(live \cup Classic) /\ t \notin Members(f.mro)
        BY <2>1 DEF FrameTyped, Mentioned
      <3> QED BY <3>1, <1>4
    <2>4. f.op = "bases" => f.before \in Seq(U) /\ f.orders \in Seq(Seq(U))
      <3> SUFFICES ASSUME f.op = "bases"
                   PROVE  f.before \in Seq(U) /\ f.orders \in Seq(Seq(U))
        OBVIOUS
      <3>1. /\ f.before \in Seq(live \cup Classic) /\ t \notin Members(f.before)
            /\ f.orders \in Seq(Seq(live \cup Classic))
            /\ \A m \in Members(f.orders) : t \notin Members(m)
        BY <2>1 DEF FrameTyped, Mentioned
      <3>2. Members(f.orders) \subseteq Seq(live \cup Classic)
        BY <3>1, SeqElements
      <3>3. Members(f.orders) \subseteq Seq(U)
        BY <1>4, <3>1, <3>2
      <3>4. f.orders \in Seq(Seq(U))
        BY <3>1, <3>3, SeqOver
      <3> QED BY <1>4, <3>1, <3>4
    <2>5. FrameTyped(f, lv, lock)
      BY <2>1, <2>2, <2>3, <2>4 DEF FrameTyped, U
    <2> QED BY <2>5 DEF f
  <1>11. DataTyped(defs', version', next', entry', held', init', fin')
    <2>1. DataTyped(defs, version, next, entry, held, init, fin)
      BY DEF TInv
    <2>2. None \in [version : 0 .. MaxVersion, value : Classes \cup {NoClass}]
          /\ [version |-> 0, has |-> FALSE] \in [version : 0 .. MaxVersion, has : BOOLEAN]
          /\ 0 \in 0 .. MaxVersion
      BY TypesAssumption DEF None
    <2>3. defs' \in [Classes -> SUBSET Keys]
      BY <1>1, <2>1 DEF DataTyped
    <2>4. version' \in [Types -> 0 .. MaxVersion]
      BY <1>1, <2>1, <2>2 DEF DataTyped
    <2>5. init' \in [Types -> [version : 0 .. MaxVersion, value : Classes \cup {NoClass}]]
      BY <1>1, <2>1, <2>2 DEF DataTyped
    <2>6. fin' \in [Types -> [version : 0 .. MaxVersion, has : BOOLEAN]]
      BY <1>1, <2>1, <2>2 DEF DataTyped
    <2> QED BY <1>1, <2>1, <2>3, <2>4, <2>5, <2>6 DEF DataTyped, cache
  <1> QED BY <1>1, <1>6, <1>8, <1>9, <1>10, <1>11 DEF TInv, locks

\* The records of an assignment are of the types there are.
LEMMA RecordedTyped ==
  ASSUME TInv, NEW s, s \subseteq live \cap Heap, NEW t \in live \cap Heap, Recorded(s, t)
  PROVE  LocksTyped(live, lock', done, old')
  <1>1. /\ HierTyped(live, bases, mro, subs) /\ LocksTyped(live, lock, done, old)
        /\ live \subseteq Types
    BY DEF TInv, HierTyped
  <1>2. /\ lock' = [d \in Heap |-> IF d \in s THEN t ELSE lock[d]]
        /\ old' = [d \in Heap |-> IF d \in s THEN [mro |-> mro[d], custom |-> FALSE] ELSE old[d]]
    BY DEF Recorded
  <1>3. lock' \in [Heap -> (live \cap Heap) \cup {NoClass}]
    BY <1>1, <1>2 DEF LocksTyped
  <1>4. \A d \in Heap : lock[d] # NoClass => lock'[d] # NoClass
    BY <1>2, ClassFacts
  <1>5. ASSUME NEW d \in Heap
        PROVE  /\ {"mro", "custom"} \subseteq DOMAIN old'[d]
               /\ lock'[d] # NoClass => /\ old'[d].mro \in Seq(live \cup Classic)
                                        /\ old'[d].mro # <<>> /\ old'[d].mro[1] = d
    <2>1. CASE d \in s
      <3>1. old'[d] = [mro |-> mro[d], custom |-> FALSE]
        BY <1>2, <2>1
      <3>2. mro[d] \in Seq(live \cup Classic) /\ mro[d] # <<>> /\ mro[d][1] = d
        BY <1>1, <2>1 DEF HierTyped
      <3> QED BY <3>1, <3>2
    <2>2. CASE d \notin s
      <3>1. old'[d] = old[d] /\ lock'[d] = lock[d]
        BY <1>2, <2>2
      <3> QED BY <1>1, <3>1 DEF LocksTyped
    <2> QED BY <2>1, <2>2
  <1>6. DOMAIN old' = Heap /\ done \subseteq {d \in Heap : lock'[d] # NoClass}
    BY <1>1, <1>2, <1>4 DEF LocksTyped
  <1> QED BY <1>3, <1>5, <1>6 DEF LocksTyped

\* Frames keep their records while no record changes its assignment.
LEMMA FramesRecorded ==
  ASSUME LInv, TInv, NEW s, s \subseteq live \cap Heap, \A d \in s : lock[d] = NoClass,
         NEW t \in Heap, Recorded(s, t)
  PROVE  FramesTyped(stack, live, lock')
  <1>1. \A d \in Heap : lock'[d] = IF d \in s THEN t ELSE lock[d]
    BY DEF Recorded
  <1>2. \A i \in DOMAIN stack : stack[i].op = "bases" => stack[i].type \in Heap
    BY DEF LInv, Memory, FramesOk, FrameOk
  <1>3. \A d \in Heap : \A i \in DOMAIN stack :
           stack[i].op = "bases" /\ lock[d] = stack[i].type => lock'[d] = stack[i].type
    BY <1>1, <1>2, NoClassOutside
  <1> QED BY <1>3, FramesTypedGrow DEF TInv

LEMMA SetBasesTyped ==
  ASSUME LInv, TInv, NEW t \in Heap, NEW bs \in NewBases[t], NEW strange \in BOOLEAN,
         SetBases(t, bs, strange)
  PROVE  TInv'
  <1>1. /\ t \in live /\ lock[t] = NoClass /\ Members(bs) \subseteq live \cup Classic
        /\ \A d \in Descendants({t}) : ~Locked(d)
        /\ Recorded(Descendants({t}), t)
        /\ bases' = [bases EXCEPT ![t] = bs]
        /\ odd' = Flagged(odd, t, strange)
        /\ UNCHANGED <<live, mro, subs, defs, custom, rebasing, done, versions, cache, memos>>
    BY DEF SetBases
  <1>2. Descendants({t}) \subseteq live \cap Heap /\ t \in Types
    BY <1>1, DescendantsLive, NoClassOutside DEF LInv
  <1>3. LocksTyped(live, lock', done, old')
    BY <1>1, <1>2, RecordedTyped
  <1>4. bs \in Seq(live \cup Classic)
    <2>1. bs \in Seq(Classes)
      BY TypesAssumption
    <2> QED BY <1>1, <2>1, SeqOver
  <1>5. HierTyped(live, bases', mro, subs)
    BY <1>1, <1>2, <1>4 DEF TInv, HierTyped
  <1>6. FlagsTyped(live, odd', custom, rebasing, listed)
    BY <1>1 DEF TInv, FlagsTyped, Flagged
  <1>7. FramesTyped(stack, live, lock')
    BY <1>1, <1>2, FramesRecorded DEF Locked
  <1>8. FrameTyped(Assigning(t), live, lock')
    <2>1. /\ Assigning(t).op = "bases" /\ Assigning(t).step = "scan" /\ Assigning(t).type = t
          /\ Assigning(t).before = bases[t] /\ Assigning(t).orders = <<>> /\ Assigning(t).todo = {}
      BY DEF Assigning
    <2>2. bases[t] \in Seq(live \cup Classic) /\ <<>> \in Seq(Seq(live \cup Classic))
      BY <1>2, BasesTyped
    <2> QED BY <1>1, <2>1, <2>2 DEF FrameTyped
  <1>9. NewOn(stack', stack, {Assigning(t)})
    BY AssigningFrames DEF LInv, StackNamed
  <1>10. FramesTyped(stack', live, lock')
    BY <1>7, <1>8, <1>9, FramesTypedOn
  <1>11. DataTyped(defs, version, next, entry, held, init, fin)
    BY DEF TInv
  <1> QED BY <1>1, <1>3, <1>5, <1>6, <1>10, <1>11 DEF TInv, versions, cache, memos

LEMMA RecordLateTyped ==
  ASSUME LInv, TInv, RecordLate
  PROVE  TInv'
  <1> DEFINE t == Top.type
             s == Late(t)
  <1>1. stack # <<>> /\ Top.op = "bases"
    BY DEF RecordLate, AtTop
  <1>2. Recorded(s, t) /\ \A d \in s : ~Locked(d)
    BY DEF RecordLate
  <1>3. t \in Heap /\ lock[t] = t /\ t # NoClass
    BY <1>1, TopOk
  <1>4. t \in live /\ Records(t) \subseteq live \cap Heap
    BY <1>3 DEF Records, LInv, Sound, LocksSound
  <1>5. s \subseteq live \cap Heap
    BY <1>4, DescendantsLive DEF LInv, Late
  <1>6. UNCHANGED <<hierarchy, defs, custom, rebasing, done, versions, cache, memos, stack>>
    BY DEF RecordLate
  <1> HIDE DEF s, t
  <1>7. LocksTyped(live, lock', done, old')
    BY <1>2, <1>3, <1>4, <1>5, RecordedTyped
  <1>8. FramesTyped(stack, live, lock')
    BY <1>2, <1>3, <1>5, FramesRecorded DEF Locked
  <1> QED BY <1>6, <1>7, <1>8 DEF TInv, hierarchy, versions, cache, memos

\* The assignment on top moves on, and changes no lock.
LEMMA TopMovesTyped ==
  ASSUME LInv, TInv, stack # <<>>, Top.op = "bases", NEW f, NEW F,
         F = {f}, NewOn(stack', stack, F), DOMAIN f = DOMAIN Top,
         f.op = Top.op, f.type = Top.type, f.before = Top.before,
         f.step \in {"scan", "compute", "undo", "finish"},
         f.orders \in Seq(Seq(live \cup Classic)),
         f.todo \subseteq {d \in Heap : lock[d] = f.type}
  PROVE  FramesTyped(stack', live, lock)
  <1>1. FrameTyped(Top, live, lock)
    BY TopTyped
  <1>2. FrameTyped(f, live, lock)
    BY <1>1 DEF FrameTyped
  <1> QED BY <1>2, FramesTypedOn DEF TInv

LEMMA BasesFields ==
  ASSUME LInv, stack # <<>>, Top.op = "bases"
  PROVE  BaseFields \subseteq DOMAIN Top
  BY TopNamed DEF LInv, Named

LEMMA StartMergeTyped ==
  ASSUME LInv, TInv, StartMerge
  PROVE  TInv'
  <1>1. stack # <<>> /\ Top.op = "bases"
    BY DEF StartMerge, AtTop
  <1>2. PICK r \in InTurn(Top.type) \cap odd : NewOn(stack', stack, {Computing(r)})
    BY AssigningFrames DEF LInv, StackNamed
  <1>3. BaseFields \subseteq DOMAIN Top /\ FrameTyped(Top, live, lock)
    BY <1>1, BasesFields, TopTyped
  <1>4. /\ DOMAIN Computing(r) = DOMAIN Top /\ Computing(r).op = Top.op
        /\ Computing(r).step = "compute" /\ Computing(r).type = Top.type
        /\ Computing(r).before = Top.before /\ Computing(r).todo = Top.todo
        /\ Computing(r).orders = Orders(bases[r])
    BY <1>1, <1>3 DEF Computing, BaseFields
  <1>5. Orders(bases[r]) \in Seq(Seq(live \cup Classic))
    <2>1. r \in Types
      BY NoClassOutside DEF InTurn, Waiting, Records
    <2>2. bases[r] \in Seq(live \cup Classic)
      BY <2>1, BasesTyped
    <2> QED BY <2>2, OrdersTyped
  <1>6. FramesTyped(stack', live, lock)
    BY <1>1, <1>2, <1>3, <1>4, <1>5, TopMovesTyped DEF FrameTyped
  <1>7. UNCHANGED <<hierarchy, defs, custom, rebasing, locks, versions, cache, memos>>
    BY DEF StartMerge
  <1> QED BY <1>6, <1>7 DEF TInv, hierarchy, locks, versions, cache, memos

LEMMA FailTyped ==
  ASSUME LInv, TInv, Fail
  PROVE  TInv'
  <1>1. stack # <<>> /\ Top.op = "bases"
    BY DEF Fail, AtTop
  <1>2. NewOn(stack', stack, {Undoing})
    BY AssigningFrames DEF LInv, StackNamed
  <1>3. BaseFields \subseteq DOMAIN Top /\ FrameTyped(Top, live, lock) /\ Top.type \in Heap
    BY <1>1, BasesFields, TopTyped, TopOk
  <1>4. /\ DOMAIN Undoing = DOMAIN Top /\ Undoing.op = Top.op
        /\ Undoing.step = "undo" /\ Undoing.type = Top.type
        /\ Undoing.before = Top.before /\ Undoing.todo = Top.todo
        /\ Undoing.orders = <<>>
    BY <1>1, <1>3 DEF Undoing, BaseFields
  <1>5. <<>> \in Seq(Seq(live \cup Classic))
    OBVIOUS
  <1>6. FramesTyped(stack', live, lock)
    BY <1>1, <1>2, <1>3, <1>4, <1>5, TopMovesTyped DEF FrameTyped
  <1>7. /\ bases' = [bases EXCEPT ![Top.type] = Top.before]
        /\ odd' = Flagged(odd, Top.type, Top.odd)
        /\ UNCHANGED <<live, mro, subs, defs, custom, rebasing, locks, versions, cache, memos>>
    BY DEF Fail
  <1>8. Top.before \in Seq(live \cup Classic) /\ Top.type \in live /\ Top.type \in Types
    BY <1>1, <1>3, NoClassOutside DEF FrameTyped
  <1>9. HierTyped(live, bases', mro, subs)
    BY <1>7, <1>8 DEF TInv, HierTyped
  <1>10. FlagsTyped(live, odd', custom, rebasing, listed)
    BY <1>3, <1>7, <1>8 DEF TInv, FlagsTyped, Flagged
  <1> QED BY <1>6, <1>7, <1>9, <1>10 DEF TInv, locks, versions, cache, memos

LEMMA RebaseTyped ==
  ASSUME LInv, TInv, Rebase
  PROVE  TInv'
  <1>1. stack # <<>> /\ Top.op = "bases"
    BY DEF Rebase, AtTop
  <1>2. NewOn(stack', stack, {Finishing})
    BY AssigningFrames DEF LInv, StackNamed
  <1>3. BaseFields \subseteq DOMAIN Top /\ FrameTyped(Top, live, lock) /\ Top.type \in Heap
    BY <1>1, BasesFields, TopTyped, TopOk
  <1>4. /\ DOMAIN Finishing = DOMAIN Top /\ Finishing.op = Top.op
        /\ Finishing.step = "finish" /\ Finishing.type = Top.type
        /\ Finishing.before = Top.before /\ Finishing.todo = Records(Top.type)
        /\ Finishing.orders = Top.orders
    BY <1>1, <1>3 DEF Finishing, BaseFields
  <1>5. Records(Top.type) \subseteq {d \in Heap : lock[d] = Top.type}
    BY DEF Records
  <1>6. FramesTyped(stack', live, lock)
    BY <1>1, <1>2, <1>3, <1>4, <1>5, TopMovesTyped DEF FrameTyped
  <1>7. /\ custom' = custom \/ custom' = custom \cup {Top.type}
        /\ UNCHANGED <<live, bases, odd, mro, defs, rebasing, locks, cache, memos>>
        /\ Modified(Top.type)
    BY DEF Rebase
  <1>8. /\ subs' = [b \in Types |-> subs'[b]] /\ \A b \in Types : subs'[b] \subseteq subs[b] \cup {Top.type}
    BY DEF Rebase
  <1>9. Top.type \in live
    BY <1>3 DEF FrameTyped
  <1>10. HierTyped(live, bases, mro, subs')
    <2>1. subs' \in [Types -> SUBSET (live \cap Heap)]
      BY <1>3, <1>8, <1>9 DEF TInv, HierTyped
    <2> QED BY <2>1 DEF TInv, HierTyped
  <1>11. version' \in [Types -> 0 .. MaxVersion] /\ next' = next /\ listed' \subseteq listed
    BY <1>7, ModifiedTyped DEF TInv, DataTyped
  <1>12. FlagsTyped(live, odd, custom', rebasing, listed')
    BY <1>3, <1>7, <1>9, <1>11 DEF TInv, FlagsTyped
  <1>13. DataTyped(defs, version', next', entry, held, init, fin)
    BY <1>11 DEF TInv, DataTyped
  <1> QED BY <1>6, <1>7, <1>10, <1>12, <1>13 DEF TInv, locks, cache, memos

LEMMA RefreshTyped ==
  ASSUME LInv, TInv, RefreshRecord
  PROVE  TInv'
  <1>1. stack # <<>> /\ Top.op = "bases"
    BY DEF RefreshRecord, AtTop
  <1>2. PICK r \in Top.todo : NewOn(stack', stack, {Refreshing(r), Looks(r, "has", DelKey), Wants(r)})
    BY AssigningFrames DEF LInv, StackNamed
  <1>3. BaseFields \subseteq DOMAIN Top /\ FrameTyped(Top, live, lock) /\ Top.type # NoClass
    BY <1>1, BasesFields, TopTyped, TopOk
  <1>4. /\ DOMAIN Refreshing(r) = DOMAIN Top /\ Refreshing(r).op = Top.op
        /\ Refreshing(r).step = Top.step /\ Refreshing(r).type = Top.type
        /\ Refreshing(r).before = Top.before /\ Refreshing(r).todo = Top.todo \ {r}
        /\ Refreshing(r).orders = Top.orders
    BY <1>1, <1>3 DEF Refreshing, BaseFields
  <1>5. FrameTyped(Refreshing(r), live, lock)
    BY <1>1, <1>3, <1>4 DEF FrameTyped
  <1>6. r \in live
    BY <1>1, <1>3 DEF FrameTyped, TInv, LocksTyped, LInv, Sound, LocksSound
  <1>7. FrameTyped(Looks(r, "has", DelKey), live, lock) /\ FrameTyped(Wants(r), live, lock)
    <2>1. DelKey \in Keys
      BY TypesAssumption
    <2> QED BY <1>6, <2>1, LooksTyped
  <1>8. FramesTyped(stack', live, lock)
    BY <1>2, <1>5, <1>7, FramesTypedOn DEF TInv
  <1>9. UNCHANGED <<hierarchy, defs, custom, rebasing, locks, versions, cache, memos>>
    BY DEF RefreshRecord
  <1> QED BY <1>8, <1>9 DEF TInv, hierarchy, locks, versions, cache, memos

\* A record that gets an MRO of classes that exist.
LEMMA InstallTyped ==
  ASSUME LInv, TInv, NEW r \in Heap, lock[r] # NoClass,
         NEW m \in Seq(live \cup Classic), m # <<>>, m[1] = r, Install(r, m)
  PROVE  /\ HierTyped(live, bases, mro', subs) /\ LocksTyped(live, lock, done', old')
         /\ FlagsTyped(live, odd, custom', rebasing', listed')
         /\ DataTyped(defs, version', next', entry, held, init, fin)
  <1>1. /\ old' = [old EXCEPT ![r].custom = r \in custom] /\ mro' = [mro EXCEPT ![r] = m]
        /\ Modified(r) /\ done' = done \cup {r}
        /\ custom' = Flagged(custom, r, Custom(r, m, FALSE))
        /\ rebasing' = Flagged(rebasing, r, Rebasing(m, r \in odd))
    BY DEF Install
  <1>2. /\ HierTyped(live, bases, mro, subs) /\ LocksTyped(live, lock, done, old)
        /\ r \in live /\ r \in Types
    BY NoClassOutside DEF TInv, LInv, Sound, LocksSound
  <1>3. HierTyped(live, bases, mro', subs)
    BY <1>1, <1>2 DEF HierTyped
  <1>4. LocksTyped(live, lock, done', old')
    <2>1. DOMAIN old' = Heap
          /\ \A d \in Heap : DOMAIN old'[d] = DOMAIN old[d] /\ old'[d].mro = old[d].mro
      <3>1. \A d \in Heap : d # r => old'[d] = old[d]
        BY <1>1, <1>2 DEF LocksTyped
      <3>2. old'[r] = [old[r] EXCEPT !.custom = r \in custom]
        BY <1>1, <1>2 DEF LocksTyped
      <3>3. {"mro", "custom"} \subseteq DOMAIN old[r]
        BY <1>2 DEF LocksTyped
      <3> QED BY <1>1, <1>2, <3>1, <3>2, <3>3 DEF LocksTyped
    <2> QED BY <1>1, <1>2, <2>1 DEF LocksTyped
  <1>5. version' \in [Types -> 0 .. MaxVersion] /\ next' = next /\ listed' \subseteq listed
    BY <1>1, ModifiedTyped DEF TInv, DataTyped
  <1>6. FlagsTyped(live, odd, custom', rebasing', listed')
    BY <1>1, <1>2, <1>5 DEF TInv, FlagsTyped, Flagged
  <1>7. DataTyped(defs, version', next', entry, held, init, fin)
    BY <1>5 DEF TInv, DataTyped
  <1> QED BY <1>3, <1>4, <1>6, <1>7

LEMMA MergeTyped ==
  ASSUME LInv, TInv, Merge
  PROVE  TInv'
  <1>1. stack # <<>> /\ Top.op = "bases"
    BY DEF Merge, AtTop
  <1>2. PICK r \in InTurn(Top.type) : \E m \in Merges(r) : Install(r, m)
    BY DEF Merge
  <1>3. PICK m \in C3(r, bases[r], Orders(bases[r])) : Install(r, m)
    BY <1>2 DEF Merges
  <1>4. r \in Heap /\ lock[r] # NoClass /\ r \in Types
    BY <1>1, TopOk, NoClassOutside DEF InTurn, Waiting, Records
  <1>5. r \in live
    BY <1>4 DEF LInv, Sound, LocksSound
  <1>6. m \in Seq(live \cup Classic) /\ m # <<>> /\ m[1] = r
    <2>1. bases[r] \in Seq(live \cup Classic)
      BY <1>4, BasesTyped
    <2>2. m \in Seq(live \cup Classic \cup {r}) /\ m # <<>> /\ m[1] = r
      BY <2>1, OrdersTyped, MergedTyped
    <2>3. live \cup Classic \cup {r} = live \cup Classic
      BY <1>5
    <2> QED BY <2>2, <2>3
  <1>7. UNCHANGED <<live, bases, odd, subs, defs, lock, cache, memos, stack>>
    BY DEF Merge
  <1> QED BY <1>3, <1>4, <1>6, <1>7, InstallTyped DEF TInv, cache, memos

LEMMA EndMergeTyped ==
  ASSUME LInv, TInv, EndMerge
  PROVE  TInv'
  <1> DEFINE r == Top.current
  <1>1. stack # <<>> /\ Top.op = "bases" /\ Top.step = "compute"
    BY DEF EndMerge, AtTop
  <1>2. PICK m \in C3(r, bases[r], Top.orders) : Install(r, m)
    BY DEF EndMerge
  <1>3. FrameOk(Top, lock, done, old, mro, bases) /\ Top.type # NoClass
        /\ BaseFields \subseteq DOMAIN Top /\ FrameTyped(Top, live, lock)
    BY <1>1, TopOk, BasesFields, TopTyped
  <1>4. r \in Heap /\ lock[r] # NoClass /\ r \in Types
    BY <1>1, <1>3, NoClassOutside DEF FrameOk
  <1>5. r \in live
    BY <1>4 DEF LInv, Sound, LocksSound
  <1> HIDE DEF r
  <1>6. m \in Seq(live \cup Classic) /\ m # <<>> /\ m[1] = r
    <2>1. bases[r] \in Seq(live \cup Classic) /\ Top.orders \in Seq(Seq(live \cup Classic))
      BY <1>1, <1>3, <1>4, BasesTyped DEF FrameTyped
    <2>2. m \in Seq(live \cup Classic \cup {r}) /\ m # <<>> /\ m[1] = r
      BY <2>1, MergedTyped
    <2>3. live \cup Classic \cup {r} = live \cup Classic
      BY <1>5
    <2> QED BY <2>2, <2>3
  <1>7. NewOn(stack', stack, {Scanning})
    BY AssigningFrames DEF LInv, StackNamed
  <1>8. /\ DOMAIN Scanning = DOMAIN Top /\ Scanning.op = Top.op
        /\ Scanning.step = "scan" /\ Scanning.type = Top.type
        /\ Scanning.before = Top.before /\ Scanning.todo = Top.todo
        /\ Scanning.orders = <<>>
    BY <1>1, <1>3 DEF Scanning, BaseFields
  <1>9. <<>> \in Seq(Seq(live \cup Classic))
    OBVIOUS
  <1>10. FramesTyped(stack', live, lock)
    BY <1>1, <1>3, <1>7, <1>8, <1>9, TopMovesTyped DEF FrameTyped
  <1>11. UNCHANGED <<live, bases, odd, subs, defs, lock, cache, memos>>
    BY DEF EndMerge
  <1> QED BY <1>2, <1>4, <1>6, <1>10, <1>11, InstallTyped DEF TInv, cache, memos

LEMMA UndoTyped ==
  ASSUME LInv, TInv, Undo
  PROVE  TInv'
  <1>1. PICK r \in Records(Top.type) \cap done :
           /\ mro' = [mro EXCEPT ![r] = old[r].mro]
           /\ Modified(r)
           /\ custom' = Flagged(custom, r, Custom(r, old[r].mro, old[r].custom))
           /\ rebasing' = Flagged(rebasing, r, Rebasing(old[r].mro, r \in odd))
           /\ done' = done \ {r}
    BY DEF Undo
  <1>2. UNCHANGED <<live, bases, odd, subs, defs, lock, old, cache, memos, stack>>
    BY DEF Undo
  <1>3. /\ HierTyped(live, bases, mro, subs) /\ LocksTyped(live, lock, done, old)
        /\ r \in Heap /\ r \in Types
    BY NoClassOutside DEF TInv, Records
  <1>a. lock[r] # NoClass
    BY <1>3 DEF LocksTyped
  <1>b. r \in live
    BY <1>a, <1>3 DEF LInv, Sound, LocksSound
  <1>4. r \in live /\ old[r].mro \in Seq(live \cup Classic) /\ old[r].mro # <<>> /\ old[r].mro[1] = r
    BY <1>3, <1>a, <1>b DEF LocksTyped
  <1>5. HierTyped(live, bases, mro', subs)
    BY <1>1, <1>3, <1>4 DEF HierTyped
  <1>6. LocksTyped(live, lock, done', old)
    BY <1>1, <1>3 DEF LocksTyped
  <1>7. version' \in [Types -> 0 .. MaxVersion] /\ next' = next /\ listed' \subseteq listed
    BY <1>1, ModifiedTyped DEF TInv, DataTyped
  <1>8. FlagsTyped(live, odd, custom', rebasing', listed')
    BY <1>1, <1>3, <1>4, <1>7 DEF TInv, FlagsTyped, Flagged
  <1>9. DataTyped(defs, version', next', entry, held, init, fin)
    BY <1>7 DEF TInv, DataTyped
  <1> QED BY <1>2, <1>5, <1>6, <1>8, <1>9 DEF TInv, cache, memos

\* The frames below an assignment that ends have other records.
LEMMA EndTyped ==
  ASSUME LInv, TInv, stack # <<>>, Top.op = "bases", Unlocked(Top.type), stack' = Below,
         UNCHANGED <<hierarchy, defs, custom, rebasing, versions, cache, memos>>
  PROVE  TInv'
  <1> DEFINE t == Top.type
  <1>1. t # NoClass /\ StackNamed(stack) /\ Top = stack[Len(stack)] /\ Len(stack) \in DOMAIN stack
    BY TopOk
  <1>2. /\ Len(stack) \in Nat \ {0} /\ DOMAIN stack = 1 .. Len(stack)
        /\ DOMAIN Lower(stack) = 1 .. Len(stack) - 1
        /\ \A i \in 1 .. Len(stack) - 1 : Lower(stack)[i] = stack[i]
    BY <1>1, Popped DEF StackNamed
  <1>3. stack' = Lower(stack)
    BY DEF Lower, Below
  <1>4. \A i \in DOMAIN stack' : i \in DOMAIN stack /\ i # Len(stack) /\ stack'[i] = stack[i]
    BY <1>2, <1>3
  <1>5. /\ lock' = [d \in Heap |-> IF lock[d] = t THEN NoClass ELSE lock[d]]
        /\ old' = [d \in Heap |-> IF lock[d] = t THEN NoMro ELSE old[d]]
        /\ done' = done \ Records(t)
    BY DEF Unlocked
  <1>6. \A i \in DOMAIN stack' : stack'[i].op = "bases" => stack'[i].type # t
    BY <1>1, <1>4 DEF LInv, Memory, FramesOk
  <1> HIDE DEF t
  <1>7. FramesTyped(stack', live, lock')
    <2>1. FramesTyped(stack', live, lock)
      BY <1>4 DEF TInv, FramesTyped
    <2>2. \A d \in Heap : \A i \in DOMAIN stack' :
             stack'[i].op = "bases" /\ lock[d] = stack'[i].type => lock'[d] = stack'[i].type
      BY <1>5, <1>6
    <2>3. ASSUME NEW s, s = stack', NEW lk, lk = lock' PROVE FramesTyped(s, live, lk)
      BY <2>1, <2>2, <2>3, FramesTypedGrow
    <2> QED BY <2>3
  <1>8. LocksTyped(live, lock', done', old')
    <2>1. LocksTyped(live, lock, done, old)
      BY DEF TInv
    <2>2. lock' \in [Heap -> (live \cap Heap) \cup {NoClass}]
      BY <1>5, <2>1 DEF LocksTyped
    <2>3. DOMAIN old' = Heap /\ \A d \in Heap : {"mro", "custom"} \subseteq DOMAIN old'[d]
      <3>1. {"mro", "custom"} \subseteq DOMAIN NoMro
        BY DEF NoMro
      <3> QED BY <1>5, <2>1, <3>1 DEF LocksTyped
    <2>4. \A d \in Heap : lock'[d] # NoClass => lock[d] # NoClass /\ old'[d] = old[d]
      BY <1>5
    <2>5. done' \subseteq {d \in Heap : lock'[d] # NoClass}
      BY <1>5, <2>1 DEF LocksTyped, Records
    <2> QED BY <2>1, <2>2, <2>3, <2>4, <2>5 DEF LocksTyped
  <1> QED BY <1>7, <1>8 DEF TInv, hierarchy, versions, cache, memos

LEMMA MergedClasses ==
  ASSUME NEW t, NEW b \in Seq(Classes), NEW q \in Seq(Seq(Classes)), NEW m \in C3(t, b, q)
  PROVE  /\ m # <<>> /\ m[1] = t
         /\ \A i \in 2 .. Len(m) : m[i] \in Members(b) \cup Elements(q)
  <1>1. \A U : U = Classes => IsFiniteSet(U)
    BY ClassFacts
  <1>2. ASSUME NEW U, U = Classes
        PROVE  /\ m # <<>> /\ m[1] = t
               /\ \A i \in 2 .. Len(m) : m[i] \in Members(b) \cup Elements(q)
    <2>1. b \in Seq(U) /\ q \in Seq(Seq(U)) /\ IsFiniteSet(U)
      BY <1>1, <1>2
    <2>2. /\ m \in Seq(U \cup {t}) /\ m # <<>> /\ m[1] = t
          /\ Members(m) = {t} \cup Members(b) \cup Elements(q)
          /\ \A i \in 2 .. Len(m) : m[i] \in Members(b) \cup Elements(q)
      BY <2>1, MergedOrder
    <2> QED BY <2>2
  <1> QED BY <1>2

\* The hierarchy at the start is that of classes that exist.
LEMMA StartTyped ==
  ASSUME Init, NEW t \in Heap, StartBases[t] # <<>>
  PROVE  /\ StartBases[t] \in Seq(live \cup Classic) /\ StartMro[t] \in Seq(live \cup Classic)
         /\ StartMro[t] # <<>> /\ StartMro[t][1] = t
         /\ \A i \in 2 .. Len(StartMro[t]) :
               \/ StartMro[t][i] \in Members(StartBases[t])
               \/ \E b \in Members(StartBases[t]) \ Classic : StartMro[t][i] \in Members(Order(b))
               \/ StartMro[t][i] \in Classic
  <1> DEFINE bs == StartBases[t]
             Start(c) == IF c \in Classic THEN <<c>> ELSE Order(c)
             ms == [i \in DOMAIN bs |-> Start(bs[i])]
             U == Classes
  <1>1. live = Static \cup {x \in Heap : StartBases[x] # <<>>}
    BY DEF Init
  <1>2. /\ bs \in Seq(Classes) /\ StartMro[t] \in Seq(Classes)
        /\ \A c \in (Members(bs) \cup Members(StartMro[t])) \cap Heap : StartBases[c] # <<>>
    <2>1. StartBases \in [Heap -> Seq(Classes)] /\ StartMro \in [Heap -> Seq(Classes)]
      BY TypesAssumption
    <2>2. \A c \in (Members(bs) \cup Members(StartMro[t])) \cap Heap : StartBases[c] # <<>>
      BY TypesAssumption
    <2> QED BY <2>1, <2>2
  <1>3. StartMro[t] \in C3(t, bs, ms)
    BY TypesAssumption
  <1>4. /\ Members(bs) \subseteq Classes /\ Members(StartMro[t]) \subseteq Classes
        /\ DOMAIN bs = 1 .. Len(bs) /\ Len(bs) \in Nat
    BY <1>2, SeqElements
  <1>5. Members(bs) \subseteq live \cup Classic /\ Members(StartMro[t]) \subseteq live \cup Classic
    BY <1>1, <1>2, <1>4, ClassFacts
  <1>6. bs \in Seq(live \cup Classic) /\ StartMro[t] \in Seq(live \cup Classic)
    BY <1>2, <1>5, SeqOver
  <1>7. \A c \in Classes : Start(c) \in Seq(Classes)
    <2> SUFFICES ASSUME NEW c \in Classes PROVE Start(c) \in Seq(Classes)
      OBVIOUS
    <2>1. CASE c \in Classic
      <3>1. <<c>> \in Seq(Classes)
        OBVIOUS
      <3> QED BY <2>1, <3>1
    <2>2. CASE c \in Static
      <3>1. c \in Classes /\ Root \in Classes
        BY <2>2, ClassFacts
      <3>2. <<Root>> \in Seq(Classes) /\ <<c, Root>> \in Seq(Classes)
        BY <3>1
      <3> QED BY <2>2, <3>2, ClassFacts DEF Order
    <2>3. CASE c \in Heap
      <3>1. StartMro[c] \in Seq(Classes)
        BY <2>3, TypesAssumption
      <3> QED BY <2>3, <3>1, ClassFacts DEF Order
    <2> QED BY <2>1, <2>2, <2>3, ClassFacts
  <1>8. \A i \in 1 .. Len(bs) : bs[i] \in Classes
    BY <1>2
  <1> HIDE DEF Start
  <1>9. ms \in Seq(Seq(Classes))
    <2>1. ms = [i \in 1 .. Len(bs) |-> Start(bs[i])]
      BY <1>4
    <2>2. ms \in [1 .. Len(bs) -> Seq(Classes)]
      BY <1>7, <1>8, <2>1
    <2> QED BY <1>4, <2>2, SeqDef
  <1>10. \A r \in Members(ms) : \E i \in 1 .. Len(bs) : r = Start(bs[i])
    BY <1>4 DEF Members
  <1> HIDE DEF ms
  <1>11. /\ StartMro[t] # <<>> /\ StartMro[t][1] = t
         /\ \A i \in 2 .. Len(StartMro[t]) :
               StartMro[t][i] \in Members(bs) \cup Elements(ms)
    <2>1. IsFiniteSet(Classes) /\ bs \in Seq(Classes)
      BY <1>2, ClassFacts
    <2> HIDE DEF bs
    <2> QED BY <1>3, <1>9, <2>1, MergedClasses
  <1>12. ASSUME NEW i \in 2 .. Len(StartMro[t]), StartMro[t][i] \notin Members(bs)
         PROVE  \/ \E b \in Members(bs) \ Classic : StartMro[t][i] \in Members(Order(b))
                \/ StartMro[t][i] \in Classic
    <2>1. PICK r \in Members(ms) : StartMro[t][i] \in Members(r)
      BY <1>11, <1>12 DEF Elements
    <2>2. PICK j \in 1 .. Len(bs) : r = Start(bs[j])
      BY <1>10
    <2>3. bs[j] \in Members(bs)
      BY <1>4 DEF Members
    <2>4. CASE bs[j] \in Classic
      <3>1. r = <<bs[j]>>
        BY <2>2, <2>4 DEF Start
      <3>2. Members(<<bs[j]>>) = {bs[j]}
        BY DEF Members
      <3> QED BY <2>1, <2>4, <3>1, <3>2
    <2>5. CASE bs[j] \notin Classic
      <3>1. r = Order(bs[j])
        BY <2>2, <2>5 DEF Start
      <3> QED BY <2>1, <2>3, <2>5, <3>1
    <2> QED BY <2>4, <2>5
  <1> QED BY <1>6, <1>11, <1>12

LEMMA TInvInit == Init => TInv
  <1> SUFFICES ASSUME Init PROVE TInv
    OBVIOUS
  <1>1. live = Static \cup {t \in Heap : StartBases[t] # <<>>}
        /\ bases = [t \in Types |-> Bases(t)] /\ mro = [t \in Types |-> Order(t)]
        /\ subs = [t \in Types |-> {s \in Heap : t \in Members(StartBases[s])}]
    BY DEF Init
  <1>2. ASSUME NEW t \in Static
        PROVE  /\ bases[t] \in Seq(live \cup Classic) /\ mro[t] \in Seq(live \cup Classic)
               /\ mro[t] # <<>> /\ mro[t][1] = t
    <2>1. t \in live /\ Root \in live /\ t \in Types
      BY <1>1, ClassFacts
    <2>2. /\ <<>> \in Seq(live \cup Classic) /\ <<Root>> \in Seq(live \cup Classic)
          /\ <<t, Root>> \in Seq(live \cup Classic)
      BY <2>1
    <2>3. /\ <<t, Root>> # <<>> /\ <<t, Root>>[1] = t /\ <<Root>> # <<>> /\ <<Root>>[1] = Root
      OBVIOUS
    <2> QED BY <1>1, <2>1, <2>2, <2>3 DEF Bases, Order
  <1>3. ASSUME NEW t \in Heap, StartBases[t] # <<>>
        PROVE  /\ bases[t] \in Seq(live \cup Classic) /\ mro[t] \in Seq(live \cup Classic)
               /\ mro[t] # <<>> /\ mro[t][1] = t
    BY <1>1, <1>3, StartTyped, ClassFacts DEF Bases, Order
  <1>4. ASSUME NEW t \in Heap, StartBases[t] = <<>>
        PROVE  bases[t] = <<>> /\ mro[t] = <<>> /\ t \notin live
    <2>1. StartMro[t] = <<>>
      BY <1>4, TypesAssumption
    <2>2. t \in Types /\ t \notin Static
      BY ClassFacts
    <2> QED BY <1>1, <1>4, <2>1, <2>2 DEF Bases, Order
  <1>5. HierTyped(live, bases, mro, subs)
    <2>1. Static \subseteq live /\ live \subseteq Types
      BY <1>1, ClassFacts
    <2>2. <<>> \in Seq(live \cup Classic)
      OBVIOUS
    <2>3. \A t \in Types : bases[t] \in Seq(live \cup Classic) /\ mro[t] \in Seq(live \cup Classic)
      BY <1>2, <1>3, <1>4, <2>2, ClassFacts
    <2>4. bases \in [Types -> Seq(live \cup Classic)] /\ mro \in [Types -> Seq(live \cup Classic)]
      BY <1>1, <2>3
    <2>5. \A t \in live : mro[t] # <<>> /\ mro[t][1] = t
      BY <1>1, <1>2, <1>3
    <2>6. \A t \in Types \ live : mro[t] = <<>> /\ bases[t] = <<>>
      BY <1>1, <1>4, ClassFacts
    <2>7. \A s \in Heap : \A b \in Types : b \in Members(StartBases[s]) => StartBases[s] # <<>>
      <3>1. Members(<<>>) = {}
        BY DEF Members
      <3> QED BY <3>1
    <2>8. subs \in [Types -> SUBSET (live \cap Heap)]
      BY <1>1, <2>7
    <2> QED BY <2>1, <2>4, <2>5, <2>6, <2>8 DEF HierTyped
  <1>6. FramesTyped(stack, live, lock)
    <2>1. stack = <<>>
      BY DEF Init
    <2> QED BY <2>1 DEF FramesTyped
  <1>7. LocksTyped(live, lock, done, old)
    <2>1. {"mro", "custom"} \subseteq DOMAIN NoMro
      BY DEF NoMro
    <2> QED BY <2>1 DEF Init, LocksTyped
  <1>8. FlagsTyped(live, odd, custom, rebasing, listed)
    BY DEF Init, FlagsTyped
  <1>9. DataTyped(defs, version, next, entry, held, init, fin)
    <2>1. defs \in [Classes -> SUBSET Keys]
      BY TypesAssumption DEF Init
    <2>2. 0 \in 0 .. MaxVersion /\ 1 \in 0 .. MaxVersion
      BY TypesAssumption
    <2>3. entry \in [version : 0 .. MaxVersion, type : Types \cup {NoClass},
                     key : Keys \cup {NoKey}, value : Classes \cup {NoClass}]
      BY <2>2 DEF Init
    <2>4. /\ init \in [Types -> [version : 0 .. MaxVersion, value : Classes \cup {NoClass}]]
          /\ fin \in [Types -> [version : 0 .. MaxVersion, has : BOOLEAN]]
      BY <2>2 DEF Init, None
    <2> QED BY <2>1, <2>2, <2>3, <2>4 DEF Init, DataTyped
  <1> QED BY <1>5, <1>6, <1>7, <1>8, <1>9 DEF TInv

\* The steps that end an assignment.
LEMMA EndsTyped ==
  ASSUME LInv, TInv, EndUndo \/ EndRebase
  PROVE  TInv'
  <1>1. stack # <<>> /\ Top.op = "bases" /\ Unlocked(Top.type) /\ stack' = Below
        /\ UNCHANGED <<hierarchy, defs, custom, rebasing, versions, cache, memos>>
    BY DEF EndUndo, EndRebase, AtTop, Pop
  <1> QED BY <1>1, EndTyped

LEMMA TInvKept ==
  ASSUME LInv, TInv, [Next]_vars
  PROVE  TInv'
  <1>1. CASE UNCHANGED vars
    BY <1>1 DEF TInv, vars, hierarchy, locks, versions, cache, memos
  <1>2. CASE Next
    <2>1. Step
      BY <1>2, NextSteps
    <2> QED BY <2>1, LookingTyped, CreateTyped, SetBasesTyped, DieTyped, MergeTyped,
               StartMergeTyped, EndMergeTyped, RecordLateTyped, FailTyped, UndoTyped,
               EndsTyped, RebaseTyped, RefreshTyped DEF Step
  <1> QED BY <1>1, <1>2

LEMMA TypedInvariant == Spec => [](IInv /\ TInv)
  <1>1. Init => IInv /\ TInv
    BY TInvInit, InitSound, VInvInit DEF IInv
  <1>2. IInv /\ TInv /\ [Next]_vars => IInv' /\ TInv'
    BY TInvKept, LInvKept, VInvKept DEF IInv
  <1> QED BY <1>1, <1>2, PTL DEF Spec

LEMMA TInvTypes ==
  ASSUME TInv
  PROVE  TypeOk
  <1>1. /\ HierTyped(live, bases, mro, subs) /\ FramesTyped(stack, live, lock)
        /\ LocksTyped(live, lock, done, old) /\ FlagsTyped(live, odd, custom, rebasing, listed)
        /\ DataTyped(defs, version, next, entry, held, init, fin)
    BY DEF TInv
  <1>2. \A t \in Types : /\ DOMAIN bases[t] = 1 .. Len(bases[t]) /\ Members(bases[t]) \subseteq live \cup Classic
                         /\ DOMAIN mro[t] = 1 .. Len(mro[t]) /\ Members(mro[t]) \subseteq live \cup Classic
                         /\ t \in live <=> mro[t] # <<>>
    BY <1>1, BasesTyped DEF HierTyped
  <1>3. Static \subseteq live /\ live \subseteq Types /\ subs \in [Types -> SUBSET (live \cap Heap)]
    BY <1>1 DEF HierTyped
  <1>4. lock \in [Heap -> live \cup {NoClass}] /\ done \subseteq {t \in Heap : lock[t] # NoClass}
    BY <1>1 DEF LocksTyped
  <1>5. \A i \in DOMAIN stack : stack[i].type \in live
    BY <1>1 DEF FramesTyped, FrameTyped
  <1> QED BY <1>1, <1>2, <1>3, <1>4, <1>5 DEF TypeOk, FlagsTyped, DataTyped

\* Whatever operations are inside one another, the bases and the MRO of each type
\* that exists are of classes that exist, it has an MRO, and the lists of
\* subclasses, locks, flags and operations in progress are about such types
\* (create_type, set_bases and the release of a type).
THEOREM Typed == Spec => []TypeOk
  <1>1. IInv /\ TInv => TypeOk
    BY TInvTypes
  <1> QED BY <1>1, TypedInvariant, PTL

(***************************************************************************)
(* The bases that list a type                                              *)
(***************************************************************************)

\* The assignments of __bases__ on stack s whose bases do not yet list the type,
\* each with the bases it replaces, and the types of the others.
Ongoing(s) ==
    {<<s[i].type, s[i].before>> : i \in {j \in DOMAIN s : s[j].op = "bases" /\ s[j].step # "finish"}}
Ended(s) == {s[i].type : i \in {j \in DOMAIN s : s[j].op = "bases" /\ s[j].step = "finish"}}

Distinct(s) ==
    \A i, j \in DOMAIN s :
        i # j /\ s[i].op = "bases" /\ s[j].op = "bases" => s[i].type # s[j].type

LEMMA OngoingQuiet ==
  ASSUME NEW s, NEW t, Quiet(s, t)
  PROVE  Ongoing(t) = Ongoing(s) /\ Ended(t) = Ended(s)
  <1>1. \A i \in DOMAIN t : t[i].op = "bases" =>
           /\ i \in DOMAIN s /\ s[i].op = "bases" /\ s[i].type = t[i].type
           /\ s[i].before = t[i].before /\ s[i].step = t[i].step
    BY DEF Quiet, Like
  <1>2. \A i \in DOMAIN s : s[i].op = "bases" =>
           /\ i \in DOMAIN t /\ t[i].op = "bases" /\ s[i].type = t[i].type
           /\ s[i].before = t[i].before /\ s[i].step = t[i].step
    BY DEF Quiet, Like
  <1>3. Ongoing(t) = Ongoing(s)
    BY <1>1, <1>2 DEF Ongoing
  <1>4. Ended(t) = Ended(s)
    BY <1>1, <1>2 DEF Ended
  <1> QED BY <1>3, <1>4

\* The assignment on top moves on.
LEMMA OngoingMoves ==
  ASSUME NEW s, Sequence(s), s # <<>>, Distinct(s), s[Len(s)].op = "bases",
         s[Len(s)].step # "finish",
         NEW f, f.op = "bases", f.type = s[Len(s)].type, f.before = s[Len(s)].before
  PROVE  /\ f.step # "finish" => /\ Ongoing(Append(Lower(s), f)) = Ongoing(s)
                                 /\ Ended(Append(Lower(s), f)) = Ended(s)
         /\ f.step = "finish" => /\ Ongoing(Append(Lower(s), f)) = Ongoing(s) \ {<<f.type, f.before>>}
                                 /\ Ended(Append(Lower(s), f)) = Ended(s) \cup {f.type}
  <1> DEFINE t == Append(Lower(s), f)
  <1>1. /\ DOMAIN t = DOMAIN s /\ Len(s) \in DOMAIN s /\ t[Len(s)] = f
        /\ \A i \in DOMAIN s : i # Len(s) => t[i] = s[i]
    BY Replaced
  <1> HIDE DEF t
  <1>2. \A i \in DOMAIN s : t[i].op = "bases" /\ i # Len(s) => t[i].type # f.type
    BY <1>1 DEF Distinct
  <1>3. ASSUME f.step # "finish"
        PROVE  Ongoing(t) = Ongoing(s) /\ Ended(t) = Ended(s)
    <2>1. \A i \in DOMAIN s : /\ t[i].op = "bases" <=> s[i].op = "bases"
                              /\ s[i].op = "bases" => t[i].type = s[i].type /\ t[i].before = s[i].before
                                   /\ (t[i].step = "finish" <=> s[i].step = "finish")
      BY <1>1, <1>3
    <2>2. Ongoing(t) = Ongoing(s)
      BY <1>1, <2>1 DEF Ongoing
    <2>3. Ended(t) = Ended(s)
      BY <1>1, <2>1 DEF Ended
    <2> QED BY <2>2, <2>3
  <1>4. ASSUME f.step = "finish"
        PROVE  Ongoing(t) = Ongoing(s) \ {<<f.type, f.before>>} /\ Ended(t) = Ended(s) \cup {f.type}
    <2>1. \A i \in DOMAIN s : i # Len(s) => t[i] = s[i] /\ (s[i].op = "bases" => s[i].type # f.type)
      BY <1>1, <1>2
    <2>2. Ongoing(t) \subseteq Ongoing(s) \ {<<f.type, f.before>>}
      BY <1>1, <1>4, <2>1 DEF Ongoing
    <2>3. Ongoing(s) \ {<<f.type, f.before>>} \subseteq Ongoing(t)
      BY <1>1, <1>4, <2>1 DEF Ongoing
    <2>4. Ended(t) = Ended(s) \cup {f.type}
      BY <1>1, <1>4, <2>1 DEF Ended
    <2> QED BY <2>2, <2>3, <2>4
  <1> QED BY <1>3, <1>4 DEF t

\* It ends.
LEMMA OngoingEnds ==
  ASSUME NEW s, Sequence(s), s # <<>>, Distinct(s), NEW f, f = s[Len(s)], f.op = "bases"
  PROVE  /\ f.step # "finish" => /\ Ongoing(Lower(s)) = Ongoing(s) \ {<<f.type, f.before>>}
                                 /\ Ended(Lower(s)) = Ended(s)
         /\ f.step = "finish" => /\ Ongoing(Lower(s)) = Ongoing(s)
                                 /\ Ended(Lower(s)) = Ended(s) \ {f.type}
  <1> DEFINE t == Lower(s)
  <1>1. /\ Len(s) \in Nat \ {0} /\ DOMAIN s = 1 .. Len(s)
        /\ DOMAIN t = 1 .. Len(s) - 1 /\ \A i \in 1 .. Len(s) - 1 : t[i] = s[i]
    BY Popped
  <1> HIDE DEF t
  <1>2. /\ \A i \in DOMAIN t : i \in DOMAIN s /\ i # Len(s) /\ t[i] = s[i]
        /\ \A i \in DOMAIN s : i # Len(s) => i \in DOMAIN t /\ t[i] = s[i]
        /\ Len(s) \in DOMAIN s
    BY <1>1
  <1>3. \A i \in DOMAIN s : s[i].op = "bases" /\ i # Len(s) => s[i].type # f.type
    BY <1>2 DEF Distinct
  <1>4. ASSUME f.step # "finish"
        PROVE  Ongoing(t) = Ongoing(s) \ {<<f.type, f.before>>} /\ Ended(t) = Ended(s)
    <2>1. Ongoing(t) \subseteq Ongoing(s) \ {<<f.type, f.before>>}
      BY <1>2, <1>3 DEF Ongoing
    <2>2. Ongoing(s) \ {<<f.type, f.before>>} \subseteq Ongoing(t)
      BY <1>2, <1>3 DEF Ongoing
    <2>3. Ended(t) = Ended(s)
      BY <1>2, <1>4 DEF Ended
    <2> QED BY <2>1, <2>2, <2>3
  <1>5. ASSUME f.step = "finish"
        PROVE  Ongoing(t) = Ongoing(s) /\ Ended(t) = Ended(s) \ {f.type}
    <2>1. Ongoing(t) = Ongoing(s)
      BY <1>2, <1>5 DEF Ongoing
    <2>2. Ended(t) = Ended(s) \ {f.type}
      BY <1>2, <1>3 DEF Ended
    <2> QED BY <2>1, <2>2
  <1> QED BY <1>4, <1>5 DEF t

\* It begins.
LEMMA OngoingBegins ==
  ASSUME NEW s, Sequence(s), NEW f, f.op = "bases", f.step # "finish"
  PROVE  /\ Ongoing(Append(s, f)) = Ongoing(s) \cup {<<f.type, f.before>>}
         /\ Ended(Append(s, f)) = Ended(s)
  <1> DEFINE t == Append(s, f)
  <1>1. /\ Len(s) \in Nat /\ DOMAIN s = 1 .. Len(s) /\ DOMAIN t = 1 .. Len(s) + 1
        /\ \A i \in 1 .. Len(s) : t[i] = s[i]
        /\ t[Len(s) + 1] = f
    BY Appended
  <1> HIDE DEF t
  <1>2. /\ \A i \in DOMAIN t : (i \in DOMAIN s /\ t[i] = s[i]) \/ t[i] = f
        /\ \A i \in DOMAIN s : i \in DOMAIN t /\ t[i] = s[i]
        /\ \E i \in DOMAIN t : t[i] = f
    BY <1>1
  <1>3. Ongoing(t) \subseteq Ongoing(s) \cup {<<f.type, f.before>>}
    BY <1>2 DEF Ongoing
  <1>4. Ongoing(s) \cup {<<f.type, f.before>>} \subseteq Ongoing(t)
    BY <1>2 DEF Ongoing
  <1>5. Ended(t) = Ended(s)
    BY <1>2 DEF Ended
  <1> QED BY <1>3, <1>4, <1>5 DEF t

\* The bases whose lists of subclasses have the types: during an assignment,
\* those it replaces.
KeptOf(o, bs) ==
    [t \in Types |-> IF \E p \in o : p[1] = t THEN (CHOOSE p \in o : p[1] = t)[2] ELSE bs[t]]
Kept == KeptOf(Ongoing(stack), bases)
Apart(o) == \A p, q \in o : p[1] = q[1] => p = q
Firsts(o) == {p[1] : p \in o}
Assigned == Firsts(Ongoing(stack))

LEMMA KeptValues ==
  ASSUME NEW o, Apart(o), NEW bs, NEW t \in Types
  PROVE  /\ \A p \in o : p[1] = t => KeptOf(o, bs)[t] = p[2]
         /\ (\A p \in o : p[1] # t) => KeptOf(o, bs)[t] = bs[t]
  BY DEF KeptOf, Apart

\* What is known of the assignments on the stack.
LEMMA OngoingFacts ==
  ASSUME LInv, TInv
  PROVE  /\ Sequence(stack) /\ Distinct(stack)
         /\ \A p \in Ongoing(stack) : /\ p[1] \in Heap /\ lock[p[1]] = p[1] /\ p[1] \in live
                                      /\ p[1] \notin Ended(stack)
                                      /\ p[2] \in Seq(live \cup Classic)
         /\ Apart(Ongoing(stack))
         /\ \A x \in Ended(stack) : x \in Heap /\ lock[x] = x
  <1>1. Sequence(stack) /\ Distinct(stack)
    BY DEF LInv, StackNamed, Memory, FramesOk, Distinct
  <1>2. \A i \in DOMAIN stack : stack[i].op = "bases" =>
           /\ stack[i].type \in Heap /\ lock[stack[i].type] = stack[i].type
           /\ stack[i].type \in live /\ stack[i].before \in Seq(live \cup Classic)
    BY DEF LInv, Memory, FramesOk, FrameOk, TInv, FramesTyped, FrameTyped
  <1>3. ASSUME NEW p \in Ongoing(stack)
        PROVE  \E i \in DOMAIN stack : /\ stack[i].op = "bases" /\ stack[i].step # "finish"
                                       /\ p = <<stack[i].type, stack[i].before>>
                                       /\ p[1] = stack[i].type /\ p[2] = stack[i].before
    BY DEF Ongoing
  <1>4. \A x \in Ended(stack) : \E i \in DOMAIN stack :
           stack[i].op = "bases" /\ stack[i].step = "finish" /\ x = stack[i].type
    BY DEF Ended
  <1>5. \A p \in Ongoing(stack) : p[1] \notin Ended(stack)
    BY <1>1, <1>3, <1>4 DEF Distinct
  <1>6. Apart(Ongoing(stack))
    BY <1>1, <1>3 DEF Distinct, Apart
  <1>7. \A p \in Ongoing(stack) : /\ p[1] \in Heap /\ lock[p[1]] = p[1] /\ p[1] \in live
                                  /\ p[2] \in Seq(live \cup Classic)
    BY <1>2, <1>3
  <1> QED BY <1>1, <1>2, <1>4, <1>5, <1>6, <1>7

LEMMA KeptFacts ==
  ASSUME LInv, TInv
  PROVE  /\ DOMAIN Kept = Types
         /\ \A t \in Types : t \notin Assigned => Kept[t] = bases[t]
         /\ \A t \in Types : Kept[t] \in Seq(live \cup Classic)
         /\ \A t \in Assigned : t \in Heap /\ lock[t] = t /\ t \in live /\ t \notin Ended(stack)
         /\ \A p \in Ongoing(stack) : p[1] \in Assigned /\ Kept[p[1]] = p[2]
         /\ \A x \in Ended(stack) : x \in Heap /\ lock[x] = x
  <1>1. DOMAIN Kept = Types
    BY DEF Kept, KeptOf
  <1>2. \A t \in Assigned : t \in Heap /\ lock[t] = t /\ t \in live /\ t \notin Ended(stack)
    BY OngoingFacts DEF Assigned, Firsts
  <1>3. \A t \in Types : t \notin Assigned => Kept[t] = bases[t]
    BY OngoingFacts, KeptValues DEF Kept, Assigned, Firsts
  <1>4. ASSUME NEW p \in Ongoing(stack)
        PROVE  p[1] \in Assigned /\ Kept[p[1]] = p[2]
    <2>1. p[1] \in Assigned /\ p[1] \in Types
      BY OngoingFacts, NoClassOutside DEF Assigned, Firsts
    <2>2. \A t \in Types : \A q \in Ongoing(stack) : q[1] = t => KeptOf(Ongoing(stack), bases)[t] = q[2]
      <3>1. Apart(Ongoing(stack))
        BY OngoingFacts
      <3> QED BY <3>1, KeptValues
    <2> QED BY <2>1, <2>2 DEF Kept
  <1>5. ASSUME NEW t \in Types PROVE Kept[t] \in Seq(live \cup Classic)
    <2>1. CASE t \notin Assigned
      BY <1>3, <2>1, BasesTyped
    <2>2. CASE t \in Assigned
      <3>1. PICK p \in Ongoing(stack) : p[1] = t
        BY <2>2 DEF Assigned, Firsts
      <3> QED BY <1>4, <3>1, OngoingFacts
    <2> QED BY <2>1, <2>2
  <1> QED BY <1>1, <1>2, <1>3, <1>4, <1>5, OngoingFacts

\* The steps that leave the assignments as they are.
LEMMA KeptSame ==
  ASSUME LInv, TInv, Ongoing(stack') = Ongoing(stack), Ended(stack') = Ended(stack),
         \A t \in Types : t \notin Assigned => bases'[t] = bases[t]
  PROVE  Kept' = Kept /\ Assigned' = Assigned
  <1>1. Assigned' = Assigned
    BY DEF Assigned, Firsts
  <1>2. ASSUME NEW t \in Types
        PROVE  KeptOf(Ongoing(stack), bases')[t] = KeptOf(Ongoing(stack), bases)[t]
    <2> DEFINE o == Ongoing(stack)
    <2>1. Apart(o)
      BY OngoingFacts
    <2>2. t \notin Assigned <=> \A p \in o : p[1] # t
      BY DEF Assigned, Firsts
    <2> HIDE DEF o
    <2>3. ASSUME NEW bs
          PROVE  /\ \A p \in o : p[1] = t => KeptOf(o, bs)[t] = p[2]
                 /\ (\A p \in o : p[1] # t) => KeptOf(o, bs)[t] = bs[t]
      BY <2>1, KeptValues
    <2>4. CASE t \in Assigned
      BY <2>2, <2>3, <2>4 DEF o
    <2>5. CASE t \notin Assigned
      BY <2>2, <2>3, <2>5 DEF o
    <2> QED BY <2>4, <2>5
  <1>3. KeptOf(Ongoing(stack), bases') = KeptOf(Ongoing(stack), bases)
    BY <1>2 DEF KeptOf
  <1> QED BY <1>1, <1>3 DEF Kept

\* What the steps do to them.
LEMMA KeptQuiet ==
  ASSUME LInv, TInv, Quiet(stack, stack'), bases' = bases
  PROVE  Kept' = Kept /\ Assigned' = Assigned /\ Ended(stack') = Ended(stack)
  BY OngoingQuiet, KeptSame

LEMMA KeptMoves ==
  ASSUME LInv, TInv, stack # <<>>, Top.op = "bases", Top.step # "finish",
         NEW f, f.op = "bases", f.type = Top.type, f.before = Top.before, f.step # "finish",
         stack' = Append(Below, f), \A t \in Types : t # Top.type => bases'[t] = bases[t]
  PROVE  Kept' = Kept /\ Assigned' = Assigned /\ Ended(stack') = Ended(stack)
  <1>1. /\ Sequence(stack) /\ Distinct(stack) /\ Top = stack[Len(stack)]
        /\ Len(stack) \in DOMAIN stack
    BY OngoingFacts, TopOk
  <1>2. stack' = Append(Lower(stack), f)
    BY DEF Lower, Below
  <1>3. Ongoing(stack') = Ongoing(stack) /\ Ended(stack') = Ended(stack)
    BY <1>1, <1>2, OngoingMoves
  <1>4. <<Top.type, Top.before>> \in Ongoing(stack)
    BY <1>1 DEF Ongoing
  <1>5. Top.type \in Assigned
    BY <1>4 DEF Assigned, Firsts
  <1> QED BY <1>3, <1>5, KeptSame

\* The assignment on top, before and after its type is listed.
LEMMA TopAssigns ==
  ASSUME LInv, TInv, stack # <<>>, Top.op = "bases"
  PROVE  /\ Top.type \in live \cap Heap /\ lock[Top.type] = Top.type /\ Top.type # NoClass
         /\ Top.step # "finish" => /\ Top.type \in Assigned /\ Kept[Top.type] = Top.before
                                   /\ <<Top.type, Top.before>> \in Ongoing(stack)
         /\ Top.step = "finish" => Top.type \in Ended(stack) /\ Top.type \notin Assigned
  <1>1. /\ Top.type \in Heap /\ lock[Top.type] = Top.type /\ Top.type # NoClass
        /\ Top = stack[Len(stack)] /\ Len(stack) \in DOMAIN stack /\ Top.type \in live
    BY TopOk, TopTyped DEF FrameTyped
  <1>2. Top.step # "finish" => <<Top.type, Top.before>> \in Ongoing(stack)
    BY <1>1 DEF Ongoing
  <1>3. Top.step = "finish" => Top.type \in Ended(stack)
    BY <1>1 DEF Ended
  <1>4. \A p \in Ongoing(stack) : p[1] \in Assigned /\ Kept[p[1]] = p[2]
    BY KeptFacts
  <1>5. \A t \in Assigned : t \notin Ended(stack)
    BY KeptFacts
  <1>6. Top.step # "finish" => Top.type \in Assigned /\ Kept[Top.type] = Top.before
    BY <1>2, <1>4
  <1> QED BY <1>1, <1>2, <1>3, <1>5, <1>6

\* One assignment less, or one more.
LEMMA FirstsLess ==
  ASSUME NEW o, Apart(o), NEW p0 \in o
  PROVE  Firsts(o \ {p0}) = Firsts(o) \ {p0[1]}
  BY DEF Firsts, Apart

LEMMA FirstsMore ==
  ASSUME NEW o, NEW t, NEW b
  PROVE  Firsts(o \cup {<<t, b>>}) = Firsts(o) \cup {t}
  <1> DEFINE p0 == <<t, b>>
  <1>1. p0[1] = t
    OBVIOUS
  <1> HIDE DEF p0
  <1>2. Firsts(o \cup {p0}) = Firsts(o) \cup {t}
    BY <1>1 DEF Firsts
  <1> QED BY <1>2 DEF p0

LEMMA KeptLess ==
  ASSUME NEW o, Apart(o), NEW p0 \in o, NEW bs, NEW x \in Types
  PROVE  KeptOf(o \ {p0}, bs)[x] = IF x = p0[1] THEN bs[x] ELSE KeptOf(o, bs)[x]
  <1>1. Apart(o \ {p0})
    BY DEF Apart
  <1>2. /\ \A p \in o : p[1] = x => KeptOf(o, bs)[x] = p[2]
        /\ (\A p \in o : p[1] # x) => KeptOf(o, bs)[x] = bs[x]
    BY KeptValues
  <1>3. /\ \A p \in o \ {p0} : p[1] = x => KeptOf(o \ {p0}, bs)[x] = p[2]
        /\ (\A p \in o \ {p0} : p[1] # x) => KeptOf(o \ {p0}, bs)[x] = bs[x]
    BY <1>1, KeptValues
  <1> QED BY <1>2, <1>3 DEF Apart

LEMMA KeptMore ==
  ASSUME NEW o, Apart(o), NEW t \in Types, \A p \in o : p[1] # t, NEW bs, NEW bs2,
         NEW x \in Types, x # t => bs2[x] = bs[x]
  PROVE  KeptOf(o \cup {<<t, bs[t]>>}, bs2)[x] = KeptOf(o, bs)[x]
  <1> DEFINE p0 == <<t, bs[t]>>
             o2 == o \cup {p0}
  <1>1. p0[1] = t /\ p0[2] = bs[t] /\ p0 \in o2 /\ o \subseteq o2 /\ \A p \in o2 : p \in o \/ p = p0
    OBVIOUS
  <1> HIDE DEF p0, o2
  <1>2. Apart(o2)
    BY <1>1 DEF Apart
  <1>3. /\ \A p \in o : p[1] = x => KeptOf(o, bs)[x] = p[2]
        /\ (\A p \in o : p[1] # x) => KeptOf(o, bs)[x] = bs[x]
    BY KeptValues
  <1>4. /\ \A p \in o2 : p[1] = x => KeptOf(o2, bs2)[x] = p[2]
        /\ (\A p \in o2 : p[1] # x) => KeptOf(o2, bs2)[x] = bs2[x]
    BY <1>2, KeptValues
  <1>5. KeptOf(o2, bs2)[x] = KeptOf(o, bs)[x]
    BY <1>1, <1>3, <1>4
  <1> QED BY <1>5 DEF o2, p0

LEMMA KeptPopped ==
  ASSUME LInv, TInv, stack # <<>>, Top.op = "bases", stack' = Below, bases' = bases,
         Top.step # "finish" => bases[Top.type] = Top.before
  PROVE  /\ Kept' = Kept
         /\ Top.step # "finish" => /\ Assigned' = Assigned \ {Top.type}
                                   /\ Ended(stack') = Ended(stack)
         /\ Top.step = "finish" => /\ Assigned' = Assigned
                                   /\ Ended(stack') = Ended(stack) \ {Top.type}
  <1>1. /\ Sequence(stack) /\ Distinct(stack) /\ Top = stack[Len(stack)]
        /\ stack' = Lower(stack)
        /\ Apart(Ongoing(stack))
    BY OngoingFacts, TopOk DEF Lower, Below
  <1>2. CASE Top.step = "finish"
    <2>1. Ongoing(stack') = Ongoing(stack) /\ Ended(stack') = Ended(stack) \ {Top.type}
      BY <1>1, <1>2, OngoingEnds
    <2> QED BY <1>2, <2>1 DEF Assigned, Firsts, Kept
  <1>3. CASE Top.step # "finish"
    <2> DEFINE t == Top.type
               p0 == <<t, Top.before>>
               o == Ongoing(stack)
    <2>1. Ongoing(stack') = o \ {p0} /\ Ended(stack') = Ended(stack)
      BY <1>1, <1>3, OngoingEnds
    <2>2. p0 \in o /\ p0[1] = t /\ t \in Types /\ Kept[t] = bases[t]
      BY <1>3, TopAssigns, NoClassOutside
    <2>3. Apart(o)
      BY <1>1
    <2>4. Kept' = KeptOf(o \ {p0}, bases) /\ Kept = KeptOf(o, bases)
          /\ Assigned' = Firsts(o \ {p0}) /\ Assigned = Firsts(o)
      BY <2>1 DEF Kept, Assigned, Firsts
    <2>5. DOMAIN Kept = Types /\ Kept = [x \in Types |-> Kept[x]]
      BY DEF Kept, KeptOf
    <2> HIDE DEF t, p0, o
    <2>6. p0 \in o /\ p0[1] \in Types
      BY <2>2
    <2>7. /\ \A x \in Types : KeptOf(o \ {p0}, bases)[x] = IF x = p0[1] THEN bases[x] ELSE KeptOf(o, bases)[x]
          /\ Firsts(o \ {p0}) = Firsts(o) \ {p0[1]}
      <3>1. Firsts(o \ {p0}) = Firsts(o) \ {p0[1]}
        BY <2>6, <2>3, FirstsLess
      <3>2. ASSUME NEW x \in Types, NEW b
            PROVE  KeptOf(o \ {p0}, b)[x] = IF x = p0[1] THEN b[x] ELSE KeptOf(o, b)[x]
        BY <2>6, <2>3, KeptLess
      <3> QED BY <3>1, <3>2
    <2>8. \A x \in Types : KeptOf(o \ {p0}, bases)[x] = KeptOf(o, bases)[x]
      BY <2>2, <2>4, <2>7
    <2>9. KeptOf(o \ {p0}, bases) = KeptOf(o, bases)
      BY <2>8 DEF KeptOf
    <2> QED BY <1>3, <2>1, <2>2, <2>4, <2>7, <2>9 DEF t
  <1> QED BY <1>2, <1>3

LEMMA KeptSetBases ==
  ASSUME LInv, TInv, NEW t \in Heap, NEW bs, NEW strange, SetBases(t, bs, strange)
  PROVE  Kept' = Kept /\ Assigned' = Assigned \cup {t} /\ Ended(stack') = Ended(stack)
  <1> DEFINE o == Ongoing(stack)
             f == Assigning(t)
  <1>1. /\ stack' = Append(stack, f) /\ lock[t] = NoClass
        /\ bases' = [bases EXCEPT ![t] = bs]
    BY DEF SetBases, Push, Assigning
  <1>2. f.op = "bases" /\ f.step # "finish" /\ f.type = t /\ f.before = bases[t]
    BY DEF Assigning
  <1> HIDE DEF f
  <1>3. Ongoing(stack') = o \cup {<<t, bases[t]>>} /\ Ended(stack') = Ended(stack)
    BY <1>1, <1>2, OngoingFacts, OngoingBegins
  <1>4. Apart(o) /\ \A p \in o : p[1] # t
    BY <1>1, OngoingFacts, NoClassOutside
  <1>5. t \in Types /\ \A x \in Types : x # t => bases'[x] = bases[x]
    BY <1>1, NoClassOutside DEF TInv, HierTyped
  <1>6. /\ Kept' = KeptOf(o \cup {<<t, bases[t]>>}, bases') /\ Kept = KeptOf(o, bases)
        /\ Assigned' = Firsts(o \cup {<<t, bases[t]>>}) /\ Assigned = Firsts(o)
    BY <1>3 DEF Kept, Assigned, Firsts
  <1> HIDE DEF o
  <1>7. /\ KeptOf(o \cup {<<t, bases[t]>>}, bases') = KeptOf(o, bases)
        /\ Firsts(o \cup {<<t, bases[t]>>}) = Firsts(o) \cup {t}
    <2>1. \A x \in Types : KeptOf(o \cup {<<t, bases[t]>>}, bases')[x] = KeptOf(o, bases)[x]
      BY <1>4, <1>5, KeptMore
    <2>2. KeptOf(o \cup {<<t, bases[t]>>}, bases') = KeptOf(o, bases)
      BY <2>1 DEF KeptOf
    <2> QED BY <2>2, FirstsMore
  <1> QED BY <1>3, <1>6, <1>7

LEMMA KeptRebase ==
  ASSUME LInv, TInv, Rebase
  PROVE  /\ Kept' = [Kept EXCEPT ![Top.type] = bases[Top.type]]
         /\ Assigned' = Assigned \ {Top.type} /\ Ended(stack') = Ended(stack) \cup {Top.type}
  <1> DEFINE o == Ongoing(stack)
             t == Top.type
             p0 == <<t, Top.before>>
             f == Finishing
  <1>1. stack # <<>> /\ Top.op = "bases" /\ Top.step = "scan" /\ bases' = bases
        /\ stack' = Append(Lower(stack), f)
    BY DEF Rebase, AtTop, Become, Finishing, Lower, Below
  <1>2. f.op = "bases" /\ f.step = "finish" /\ f.type = t /\ f.before = Top.before
    BY <1>1, BasesFields DEF Finishing, BaseFields
  <1> HIDE DEF f
  <1>3. /\ Sequence(stack) /\ Distinct(stack) /\ Top = stack[Len(stack)]
        /\ Apart(Ongoing(stack))
    BY <1>1, OngoingFacts, TopOk
  <1>4. Ongoing(stack') = o \ {p0} /\ Ended(stack') = Ended(stack) \cup {t}
    BY <1>1, <1>2, <1>3, OngoingMoves
  <1>5. p0 \in o /\ p0[1] = t /\ t \in Types
    BY <1>1, TopAssigns, NoClassOutside
  <1>6. Kept' = KeptOf(o \ {p0}, bases) /\ Kept = KeptOf(o, bases)
        /\ Assigned' = Firsts(o \ {p0}) /\ Assigned = Firsts(o)
    BY <1>1, <1>4 DEF Kept, Assigned, Firsts
  <1>7. Apart(o)
    BY <1>3
  <1> HIDE DEF t, p0, o
  <1>8. /\ \A x \in Types : KeptOf(o \ {p0}, bases)[x] = IF x = p0[1] THEN bases[x] ELSE KeptOf(o, bases)[x]
        /\ Firsts(o \ {p0}) = Firsts(o) \ {p0[1]}
    BY <1>5, <1>7, KeptLess, FirstsLess
  <1>9. KeptOf(o \ {p0}, bases) = [KeptOf(o, bases) EXCEPT ![t] = bases[t]]
    <2>1. KeptOf(o \ {p0}, bases) = [x \in Types |-> KeptOf(o \ {p0}, bases)[x]]
          /\ KeptOf(o, bases) = [x \in Types |-> KeptOf(o, bases)[x]]
      BY DEF KeptOf
    <2> QED BY <1>5, <1>8, <2>1
  <1> QED BY <1>4, <1>5, <1>6, <1>8, <1>9 DEF t

\* A class that is created or dies is in no assignment.
LEMMA KeptBorn ==
  ASSUME LInv, TInv, NEW t \in Heap, t \notin Assigned, NEW bs, bases' = [bases EXCEPT ![t] = bs],
         Quiet(stack, stack')
  PROVE  /\ Kept' = [Kept EXCEPT ![t] = bs]
         /\ Assigned' = Assigned /\ Ended(stack') = Ended(stack)
  <1> DEFINE o == Ongoing(stack)
  <1>1. Ongoing(stack') = o /\ Ended(stack') = Ended(stack)
    BY OngoingQuiet
  <1>2. Assigned' = Assigned
    BY <1>1 DEF Assigned, Firsts
  <1>3. /\ Kept' = KeptOf(o, bases') /\ Kept = KeptOf(o, bases)
        /\ \A p \in o : p[1] # t
    BY <1>1 DEF Kept, Assigned, Firsts
  <1>4. Apart(o)
    BY OngoingFacts
  <1>5. t \in Types /\ \A x \in Types : bases'[x] = IF x = t THEN bs ELSE bases[x]
    BY NoClassOutside DEF TInv, HierTyped
  <1> HIDE DEF o
  <1>6. ASSUME NEW x \in Types
        PROVE  KeptOf(o, bases')[x] = IF x = t THEN bs ELSE KeptOf(o, bases)[x]
    <2>1. ASSUME NEW b
          PROVE  /\ \A p \in o : p[1] = x => KeptOf(o, b)[x] = p[2]
                 /\ (\A p \in o : p[1] # x) => KeptOf(o, b)[x] = b[x]
      BY <1>4, KeptValues
    <2>2. /\ \A p \in o : p[1] = x => KeptOf(o, bases)[x] = p[2]
          /\ (\A p \in o : p[1] # x) => KeptOf(o, bases)[x] = bases[x]
      BY <2>1
    <2>3. /\ \A p \in o : p[1] = x => KeptOf(o, bases')[x] = p[2]
          /\ (\A p \in o : p[1] # x) => KeptOf(o, bases')[x] = bases'[x]
      BY <2>1
    <2> QED BY <1>3, <1>5, <2>2, <2>3
  <1>7. KeptOf(o, bases') = [KeptOf(o, bases) EXCEPT ![t] = bs]
    <2>1. KeptOf(o, bases') = [x \in Types |-> KeptOf(o, bases')[x]]
          /\ KeptOf(o, bases) = [x \in Types |-> KeptOf(o, bases)[x]]
      BY DEF KeptOf
    <2> QED BY <1>6, <2>1
  <1> QED BY <1>1, <1>2, <1>3, <1>7

(***************************************************************************)
(* The hierarchy that versions rely on                                     *)
(***************************************************************************)

\* Registration with the bases is refused only where no type has two of them.
Single(bs) == \A i, j \in DOMAIN bs : bs[i] \in Types /\ bs[j] \in Types => bs[i] = bs[j]
Registers ==
    "subclass" \in Refused => \A t \in Heap : \A bs \in NewBases[t] \cup {StartBases[t]} : Single(bs)

\* The built-in types stay as they are.
Statics(ms, bs) == \A s \in Static : ms[s] = Order(s) /\ bs[s] = Bases(s)

Chosen(lv, k, bs) ==
    "subclass" \in Refused => \A t \in lv \cap Heap : Single(k[t]) /\ Single(bs[t])

\* The bases list the type.
ListsIn(k, sb, t) == \A b \in Members(k[t]) \cap Types : t \in sb[b]

\* A type that some base does not list has no version, and is not in the
\* assignment of another type.
Listing(lv, k, sb, cs, lk, dn, od, as) ==
    /\ \A t \in lv \cap Heap :
          ListsIn(k, sb, t) \/ (IF t \in dn /\ t \in as THEN od[t].custom ELSE t \in cs)
    /\ \A t \in Heap : lk[t] \notin {t, NoClass} => ListsIn(k, sb, t)
    /\ \A b \in Types : \A t \in sb[b] : b \in Members(k[t])
    /\ "subclass" \notin Refused => \A t \in lv \cap Heap : ListsIn(k, sb, t)

\* The MRO that was there before the assignment.
OldMroIn(b, dn, od, ms) == IF b \in dn THEN od[b].mro ELSE ms[b]

\* An MRO that is trusted comes from the bases.
Following(lv, k, ms, cs, rb, dn, od) ==
    \A t \in lv \ (cs \cup rb) : \A i \in 2 .. Len(ms[t]) : ms[t][i] \in Types =>
        \E b \in Members(k[t]) \cap Types : ms[t][i] \in Members(OldMroIn(b, dn, od, ms))

Fresh(vs, dn, rb) == dn \subseteq rb /\ \A t \in dn : vs[t] = 0

\* A type with a version got it after its bases got theirs.
Ordered(vs, lv, k, ms, cs, rb, ls) ==
    \A t \in Types : vs[t] # 0 =>
        /\ t \in lv /\ t \notin cs /\ t \notin rb
        /\ \A b \in Members(k[t]) \cap Types : vs[b] # 0 /\ vs[b] < vs[t]
        /\ Members(ms[t]) \cap Classic # {} => t \in ls

\* When an assignment has its new MROs and its type is listed, only types whose
\* MRO is not trusted are derived from those it is about.
Settled(en, lk, dn, lv, k, cs, rb) ==
    \A x \in en : \A d \in Heap : lk[d] = x =>
        d \in dn /\ \A t \in lv \ (cs \cup rb) : d \notin Members(k[t])

RInv ==
    /\ Statics(mro, bases)
    /\ Chosen(live, Kept, bases)
    /\ Listing(live, Kept, subs, custom, lock, done, old, Assigned)
    /\ Following(live, Kept, mro, custom, rebasing, done, old)
    /\ Fresh(version, done, rebasing)
    /\ Ordered(version, live, Kept, mro, custom, rebasing, listed)
    /\ Settled(Ended(stack), lock, done, live, Kept, custom, rebasing)

LEMMA RInvSame ==
  ASSUME RInv, Kept' = Kept, Assigned' = Assigned, Ended(stack') = Ended(stack), bases' = bases,
         UNCHANGED <<live, mro, subs, custom, rebasing, lock, done, old, version, listed>>
  PROVE  RInv'
  BY DEF RInv

LEMMA RInvInit ==
  ASSUME Init, Registers, TInv
  PROVE  RInv
  <1>1. /\ live = Static \cup {t \in Heap : StartBases[t] # <<>>}
        /\ bases = [t \in Types |-> Bases(t)] /\ mro = [t \in Types |-> Order(t)]
        /\ subs = [t \in Types |-> {s \in Heap : t \in Members(StartBases[s])}]
        /\ custom = {} /\ rebasing = {} /\ done = {} /\ stack = <<>>
        /\ lock = [t \in Heap |-> NoClass] /\ version = [t \in Types |-> 0]
    BY DEF Init
  <1>2. Ongoing(stack) = {} /\ Ended(stack) = {}
    BY <1>1 DEF Ongoing, Ended
  <1>3. Kept = bases
    BY <1>1, <1>2 DEF Kept, KeptOf
  <1>4. Statics(mro, bases)
    BY <1>1, ClassFacts DEF Statics
  <1>5. \A t \in Heap : bases[t] = StartBases[t] /\ t \in Types /\ t \notin Static
    BY <1>1, ClassFacts DEF Bases
  <1>6. Chosen(live, Kept, bases)
    BY <1>3, <1>5 DEF Chosen, Registers
  <1>7. Listing(live, Kept, subs, custom, lock, done, old, Assigned)
    <2>1. \A t \in Heap : ListsIn(bases, subs, t)
      BY <1>1, <1>5 DEF ListsIn
    <2>2. \A b \in Types : \A t \in subs[b] : b \in Members(bases[t])
      BY <1>1, <1>5
    <2> QED BY <1>3, <2>1, <2>2 DEF Listing
  <1>8. Following(live, Kept, mro, custom, rebasing, done, old)
    <2> SUFFICES ASSUME NEW t \in live, NEW i \in 2 .. Len(mro[t]), mro[t][i] \in Types
                 PROVE  \E b \in Members(bases[t]) \cap Types : mro[t][i] \in Members(mro[b])
      BY <1>1, <1>3 DEF Following, OldMroIn
    <2>1. \A x \in live : x \in Members(mro[x])
      <3> SUFFICES ASSUME NEW x \in live PROVE x \in Members(mro[x])
        OBVIOUS
      <3>1. x \in Types /\ mro[x] # <<>> /\ mro[x][1] = x
        BY DEF TInv, HierTyped
      <3>2. DOMAIN mro[x] = 1 .. Len(mro[x]) /\ Len(mro[x]) \in Nat /\ mro[x] \in Seq(live \cup Classic)
        BY <3>1, BasesTyped
      <3>3. 1 \in DOMAIN mro[x]
        BY <3>1, <3>2
      <3> QED BY <3>1, <3>3 DEF Members
    <2>2. CASE t \in Static
      <3>1. t \in Types /\ Root \in Types /\ Root \in live /\ mro[t] = Order(t) /\ bases[t] = Bases(t)
        BY <1>1, <2>2, ClassFacts
      <3>2. t # Root
        <4>1. Len(<<Root>>) = 1
          OBVIOUS
        <4> QED BY <2>2, <3>1, <4>1 DEF Order
      <3>3. mro[t] = <<t, Root>> /\ bases[t] = <<Root>>
        BY <2>2, <3>1, <3>2 DEF Order, Bases
      <3>4. Len(<<t, Root>>) = 2 /\ <<t, Root>>[2] = Root /\ Members(<<Root>>) = {Root}
        BY DEF Members
      <3>5. i = 2
        BY <3>3, <3>4
      <3> QED BY <2>1, <3>1, <3>3, <3>4, <3>5
    <2>3. CASE t \in Heap
      <3>1. StartBases[t] # <<>> /\ mro[t] = StartMro[t] /\ bases[t] = StartBases[t]
        BY <1>1, <1>5, <2>3 DEF Order
      <3>2. \/ mro[t][i] \in Members(bases[t])
            \/ \E b \in Members(bases[t]) \ Classic : mro[t][i] \in Members(Order(b))
        BY <2>3, <3>1, StartTyped, ClassFacts
      <3>3. Members(bases[t]) \subseteq live \cup Classic /\ live \subseteq Types
        BY <1>5, <2>3, BasesTyped DEF TInv, HierTyped
      <3>4. CASE mro[t][i] \in Members(bases[t])
        <4>1. mro[t][i] \in live
          BY <3>3, <3>4, ClassFacts
        <4> QED BY <2>1, <3>4, <4>1
      <3>5. ASSUME NEW b \in Members(bases[t]) \ Classic, mro[t][i] \in Members(Order(b))
            PROVE  b \in Types /\ mro[t][i] \in Members(mro[b])
        BY <1>1, <3>3, <3>5
      <3> QED BY <3>2, <3>4, <3>5
    <2> QED BY <1>1, <2>2, <2>3
  <1>9. Fresh(version, done, rebasing) /\ Settled(Ended(stack), lock, done, live, Kept, custom, rebasing)
    BY <1>1, <1>2 DEF Fresh, Settled
  <1>10. Ordered(version, live, Kept, mro, custom, rebasing, listed)
    BY <1>1 DEF Ordered
  <1> QED BY <1>4, <1>6, <1>7, <1>8, <1>9, <1>10 DEF RInv

LEMMA RInvQuiet ==
  ASSUME LInv, TInv, RInv, Quiet(stack, stack'),
         UNCHANGED <<hierarchy, custom, rebasing, locks, versions>>
  PROVE  RInv'
  <1>1. bases' = bases
        /\ UNCHANGED <<live, mro, subs, custom, rebasing, lock, done, old, version, listed>>
    BY DEF hierarchy, locks, versions
  <1> QED BY <1>1, KeptQuiet, RInvSame

LEMMA RInvStartMerge ==
  ASSUME LInv, TInv, RInv, StartMerge
  PROVE  RInv'
  <1>1. PICK r : stack' = Append(Below, Computing(r))
    BY DEF StartMerge, Become, Computing
  <1>2. stack # <<>> /\ Top.op = "bases" /\ Top.step = "scan"
        /\ UNCHANGED <<hierarchy, custom, rebasing, locks, versions>>
    BY DEF StartMerge, AtTop
  <1>3. /\ Computing(r).op = "bases" /\ Computing(r).type = Top.type
        /\ Computing(r).before = Top.before /\ Computing(r).step # "finish"
    BY <1>2, BasesFields DEF Computing, BaseFields
  <1>4. bases' = bases
        /\ UNCHANGED <<live, mro, subs, custom, rebasing, lock, done, old, version, listed>>
    BY <1>2 DEF hierarchy, locks, versions
  <1>5. Kept' = Kept /\ Assigned' = Assigned /\ Ended(stack') = Ended(stack)
    BY <1>1, <1>2, <1>3, <1>4, KeptMoves
  <1> QED BY <1>4, <1>5, RInvSame

\* The steps of versions and lookups that change no version.
LEMMA RInvLooks ==
  ASSUME LInv, TInv, RInv, Looking, ~ DistrustMro, ~ GiveVersion,
         \A c \in Classes, k \in Keys : ~ ChangeDict(c, k)
  PROVE  RInv'
  <1>1. UNCHANGED <<hierarchy, custom, rebasing, locks, versions>>
    BY DEF Looking, AskBase, RefuseVersion, Lookup, AnswerAtOnce,
           StartWalk, ProbeMiss, EndUncached, EndCached, KeyReleased
  <1> QED BY <1>1, LookingQuiet, RInvQuiet

(***************************************************************************)
(* What a change withdraws                                                 *)
(***************************************************************************)

LEMMA WithdrawnDerived ==
  ASSUME NEW c, NEW x \in Withdrawn(c), NEW y \in Derived(x), y \in Versioned
  PROVE  y \in Withdrawn(c)
  BY DEF Withdrawn, Closed

LEMMA WithdrawnItself ==
  ASSUME NEW c, c \in Versioned
  PROVE  c \in Withdrawn(c)
  BY DEF Withdrawn

\* A type with a version is one a change to its bases reaches.
LEMMA DerivedFrom ==
  ASSUME LInv, TInv, RInv, NEW t \in Types, version[t] # 0, NEW b \in Members(Kept[t]) \cap Types
  PROVE  t \in Derived(b)
  <1>1. t \in live /\ t \notin custom /\ t \notin done
    BY DEF RInv, Ordered, Fresh
  <1>2. CASE t \in Heap
    <2>1. ListsIn(Kept, subs, t)
      BY <1>1, <1>2 DEF RInv, Listing
    <2> QED BY <2>1 DEF ListsIn, Derived
  <1>3. CASE t \in Static
    <2>1. t \notin Assigned
      BY <1>3, KeptFacts, ClassFacts
    <2>2. Kept[t] = bases[t]
      BY <2>1, KeptFacts
    <2>3. bases[t] = Bases(t) /\ mro[t] = Order(t)
      BY <1>3 DEF RInv, Statics
    <2>4. t # Root
      <3>1. Members(<<>>) = {}
        BY DEF Members
      <3> QED BY <1>3, <2>2, <2>3, <3>1 DEF Bases
    <2>5. bases[t] = <<Root>> /\ mro[t] = <<t, Root>>
      BY <1>3, <2>3, <2>4 DEF Bases, Order
    <2>6. Members(<<Root>>) = {Root} /\ Members(<<t, Root>>) = {t, Root}
      BY DEF Members
    <2>7. b = Root /\ Root \in Static /\ b \in Members(mro[t])
      BY <2>2, <2>5, <2>6, ClassFacts
    <2> QED BY <1>3, <2>7 DEF Derived
  <1> QED BY <1>2, <1>3, ClassFacts

\* A change leaves or withdraws the version of each type.
LEMMA ModifiedVersions ==
  ASSUME TInv, NEW c \in Classes, Modified(c)
  PROVE  /\ \A t \in Types : version'[t] = 0 \/ version'[t] = version[t]
         /\ c \in Types => version'[c] = 0
         /\ listed' = listed \/ (c \in Classic /\ listed' = {})
         /\ DOMAIN version' = Types
  <1>1. CASE c \in Classic
    <2>1. version' = Without(UNION {Withdrawn(t) : t \in listed}) /\ listed' = {}
      BY <1>1 DEF Modified
    <2> QED BY <1>1, <2>1, ClassFacts DEF Without
  <1>2. CASE c \notin Classic
    <2>1. version' = Without(Withdrawn(c)) /\ listed' = listed
      BY <1>2 DEF Modified
    <2>2. c \in Types /\ version'[c] = IF c \in Withdrawn(c) THEN 0 ELSE version[c]
      BY <1>2, <2>1, ClassFacts DEF Without
    <2>3. version[c] # 0 => c \in Withdrawn(c)
      BY <2>2, WithdrawnItself DEF Versioned
    <2> QED BY <2>1, <2>2, <2>3 DEF Without
  <1> QED BY <1>1, <1>2

LEMMA ModifiedOrdered ==
  ASSUME LInv, TInv, RInv, NEW c \in Classes, Modified(c)
  PROVE  Ordered(version', live, Kept, mro, custom, rebasing, listed')
  <1>1. Ordered(version, live, Kept, mro, custom, rebasing, listed)
    BY DEF RInv
  <1>2. ASSUME NEW w, version' = Without(w), w = Withdrawn(c) \/ w = UNION {Withdrawn(x) : x \in listed}
        PROVE  \A t \in Types : version'[t] # 0 =>
                  /\ version[t] # 0 /\ version'[t] = version[t] /\ t \notin w
                  /\ \A b \in Members(Kept[t]) \cap Types : version'[b] = version[b]
    <2> SUFFICES ASSUME NEW t \in Types, version'[t] # 0
                 PROVE  /\ version[t] # 0 /\ version'[t] = version[t] /\ t \notin w
                        /\ \A b \in Members(Kept[t]) \cap Types : version'[b] = version[b]
      OBVIOUS
    <2>1. version[t] # 0 /\ version'[t] = version[t] /\ t \notin w
      BY <1>2 DEF Without
    <2>2. ASSUME NEW b \in Members(Kept[t]) \cap Types PROVE b \notin w
      <3>1. t \in Derived(b) /\ t \in Versioned
        BY <2>1, DerivedFrom DEF Versioned
      <3> QED BY <1>2, <2>1, <3>1, WithdrawnDerived
    <2> QED BY <1>2, <2>1, <2>2 DEF Without
  <1>3. CASE c \in Classic
    <2>1. version' = Without(UNION {Withdrawn(t) : t \in listed}) /\ listed' = {}
      BY <1>3 DEF Modified
    <2>2. ASSUME NEW t \in Types, version'[t] # 0 PROVE t \notin listed
      <3>1. version[t] # 0 /\ t \notin UNION {Withdrawn(x) : x \in listed}
        BY <1>2, <2>1, <2>2
      <3>2. t \in Withdrawn(t)
        BY <3>1, WithdrawnItself DEF Versioned
      <3> QED BY <3>1, <3>2
    <2> QED BY <1>1, <1>2, <2>1, <2>2 DEF Ordered
  <1>4. CASE c \notin Classic
    <2>1. version' = Without(Withdrawn(c)) /\ listed' = listed
      BY <1>4 DEF Modified
    <2> QED BY <1>1, <1>2, <2>1 DEF Ordered
  <1> QED BY <1>3, <1>4

\* The type that changes has no version.
LEMMA OrderedElse ==
  ASSUME NEW r, NEW vs, NEW lv, NEW k, NEW ms, NEW cs, NEW rb, NEW ls,
         Ordered(vs, lv, k, ms, cs, rb, ls), vs[r] = 0,
         NEW k2, NEW ms2, NEW cs2, NEW rb2,
         \A x \in Types : x # r => /\ k2[x] = k[x] /\ ms2[x] = ms[x]
                                   /\ x \in cs2 => x \in cs
                                   /\ x \in rb2 => x \in rb
  PROVE  Ordered(vs, lv, k2, ms2, cs2, rb2, ls)
  BY DEF Ordered

(***************************************************************************)
(* Versions and changes                                                    *)
(***************************************************************************)

LEMMA RInvChangeDict ==
  ASSUME LInv, TInv, RInv, NEW c \in Classes, NEW k \in Keys, ChangeDict(c, k)
  PROVE  RInv'
  <1>1. Modified(c) /\ UNCHANGED <<live, bases, mro, subs, custom, rebasing, lock, done, old, stack>>
    BY DEF ChangeDict, hierarchy, locks
  <1>2. Quiet(stack, stack')
    BY <1>1, QuietSame DEF LInv
  <1>3. Kept' = Kept /\ Assigned' = Assigned /\ Ended(stack') = Ended(stack)
    BY <1>1, <1>2, KeptQuiet
  <1>4. Ordered(version', live, Kept, mro, custom, rebasing, listed')
    BY <1>1, ModifiedOrdered
  <1>5. Fresh(version', done, rebasing)
    <2>1. \A t \in Types : version[t] = 0 => version'[t] = 0
      BY <1>1, ModifiedVersions
    <2>2. done \subseteq Types
      BY NoClassOutside DEF TInv, LocksTyped
    <2> QED BY <2>1, <2>2 DEF RInv, Fresh
  <1> QED BY <1>1, <1>3, <1>4, <1>5 DEF RInv

\* The type on top, which asks for a version.
LEMMA ReadyFacts ==
  ASSUME LInv, TInv, RInv, AtTop("version", "ask"), Ready(Top.type)
  PROVE  /\ Top.type \in live /\ Top.type \in Types /\ version[Top.type] = 0
         /\ Top.type \notin custom /\ Top.type \notin done
         /\ Kept[Top.type] = bases[Top.type]
         /\ \A b \in Members(bases[Top.type]) \cap Types : version[b] # 0 /\ b \notin done
  <1> DEFINE t == Top.type
  <1>1. t \in live /\ t \in Types
    BY TopTyped DEF AtTop, FrameTyped, TInv, HierTyped
  <1>2. version[t] = 0 /\ t \notin custom /\ ~ Locked(t) /\ Unversioned(t) = {}
    BY DEF Ready, Eligible
  <1> HIDE DEF t
  <1>3. t \notin done
    BY <1>2 DEF Locked, TInv, LocksTyped
  <1>4. t \notin Assigned
    BY <1>2, KeptFacts, NoClassOutside DEF Locked
  <1>5. Kept[t] = bases[t]
    BY <1>1, <1>4, KeptFacts
  <1>6. \A b \in Members(bases[t]) \cap Types : version[b] # 0
    BY <1>2 DEF Unversioned, Members
  <1>7. \A b \in done : version[b] = 0
    BY DEF RInv, Fresh
  <1> QED BY <1>1, <1>2, <1>3, <1>5, <1>6, <1>7 DEF t

LEMMA RInvDistrust ==
  ASSUME LInv, TInv, RInv, DistrustMro
  PROVE  RInv'
  <1> DEFINE t == Top.type
  <1>1. /\ t \in rebasing /\ rebasing' = rebasing \ {t} /\ custom' = custom \cup {t}
        /\ UNCHANGED <<live, bases, mro, subs, version, listed, lock, done, old>>
        /\ AtTop("version", "ask") /\ Ready(t)
    BY DEF DistrustMro, hierarchy, locks, versions
  <1>2. Quiet(stack, stack')
    BY LookingQuiet DEF Looking
  <1>3. Kept' = Kept /\ Assigned' = Assigned /\ Ended(stack') = Ended(stack)
    BY <1>1, <1>2, KeptQuiet
  <1>4. version[t] = 0 /\ t \notin done
    BY <1>1, ReadyFacts
  <1> HIDE DEF t
  <1>5. custom' \cup rebasing' = custom \cup rebasing
    BY <1>1
  <1>6. Listing(live, Kept, subs, custom', lock, done, old, Assigned)
    BY <1>1 DEF RInv, Listing
  <1>7. Following(live, Kept, mro, custom', rebasing', done, old)
    BY <1>5 DEF RInv, Following
  <1>8. Fresh(version, done, rebasing')
    BY <1>1, <1>4 DEF RInv, Fresh
  <1>9. Ordered(version, live, Kept, mro, custom', rebasing', listed)
    BY <1>1, <1>4 DEF RInv, Ordered
  <1>10. Settled(Ended(stack), lock, done, live, Kept, custom', rebasing')
    BY <1>5 DEF RInv, Settled
  <1> QED BY <1>1, <1>3, <1>6, <1>7, <1>8, <1>9, <1>10 DEF RInv

LEMMA RInvGive ==
  ASSUME VInv, LInv, TInv, RInv, GiveVersion
  PROVE  RInv'
  <1> DEFINE t == Top.type
  <1>1. /\ AtTop("version", "ask") /\ Ready(t) /\ (t \in rebasing => Follows(t))
        /\ rebasing' = rebasing \ {t}
        /\ \/ /\ listed' = IF HasClassic(t) THEN listed \cup {t} ELSE listed
              /\ version' = [version EXCEPT ![t] = next]
           \/ version' = version /\ listed' = listed
        /\ UNCHANGED <<live, bases, mro, subs, custom, lock, done, old>>
    BY DEF GiveVersion, hierarchy, locks, versions
  <1>2. Quiet(stack, stack')
    BY LookingQuiet DEF Looking
  <1>3. Kept' = Kept /\ Assigned' = Assigned /\ Ended(stack') = Ended(stack)
    BY <1>1, <1>2, KeptQuiet
  <1>4. /\ t \in live /\ t \in Types /\ version[t] = 0 /\ t \notin custom /\ t \notin done
        /\ Kept[t] = bases[t]
        /\ \A b \in Members(bases[t]) \cap Types : version[b] # 0 /\ b \notin done
    BY <1>1, ReadyFacts
  <1>5. /\ DOMAIN version = Types
        /\ \A b \in Types : version[b] # 0 => next = 0 \/ version[b] < next
    BY DEF VInv, VersionsApart
  <1> HIDE DEF t
  <1>6. Following(live, Kept, mro, custom, rebasing', done, old)
    <2> SUFFICES ASSUME NEW x \in live \ (custom \cup rebasing'), NEW i \in 2 .. Len(mro[x]),
                        mro[x][i] \in Types
                 PROVE  \E b \in Members(Kept[x]) \cap Types :
                           mro[x][i] \in Members(OldMroIn(b, done, old, mro))
      BY DEF Following
    <2>1. CASE x \notin rebasing
      BY <2>1 DEF RInv, Following
    <2>2. CASE x \in rebasing
      <3>1. x = t
        BY <1>1, <2>2
      <3>2. PICK b \in Members(bases[t]) \cap Types : mro[t][i] \in Members(mro[b])
        BY <1>1, <2>2, <3>1 DEF Follows
      <3> QED BY <1>4, <3>1, <3>2 DEF OldMroIn
    <2> QED BY <2>1, <2>2
  <1>7. Fresh(version', done, rebasing')
    <2>1. done \subseteq rebasing'
      BY <1>1, <1>4 DEF RInv, Fresh
    <2>2. ASSUME NEW x \in done PROVE version'[x] = 0
      <3>1. x \in Types /\ x # t /\ version[x] = 0
        BY <1>4, NoClassOutside DEF RInv, Fresh, TInv, LocksTyped
      <3> QED BY <1>1, <1>5, <3>1
    <2> QED BY <2>1, <2>2 DEF Fresh
  <1>8. Ordered(version', live, Kept, mro, custom, rebasing', listed')
    <2>0. Ordered(version, live, Kept, mro, custom, rebasing, listed)
      BY DEF RInv
    <2>1. CASE version' = version /\ listed' = listed
      BY <1>1, <2>0, <2>1 DEF Ordered
    <2>2. CASE /\ listed' = IF HasClassic(t) THEN listed \cup {t} ELSE listed
               /\ version' = [version EXCEPT ![t] = next]
      <3> SUFFICES ASSUME NEW x \in Types, version'[x] # 0
                   PROVE  /\ x \in live /\ x \notin custom /\ x \notin rebasing'
                          /\ \A b \in Members(Kept[x]) \cap Types : version'[b] # 0 /\ version'[b] < version'[x]
                          /\ Members(mro[x]) \cap Classic # {} => x \in listed'
        BY DEF Ordered
      <3>1. CASE x = t
        <4>1. version'[t] = next /\ next # 0
          BY <1>4, <1>5, <2>2, <3>1
        <4>2. \A b \in Members(Kept[t]) \cap Types :
                 version'[b] = version[b] /\ version[b] # 0 /\ version[b] < next
          BY <1>4, <1>5, <2>2, <4>1
        <4>3. Members(mro[t]) \cap Classic # {} => t \in listed'
          BY <2>2 DEF HasClassic
        <4> QED BY <1>1, <1>4, <3>1, <4>1, <4>2, <4>3
      <3>2. CASE x # t
        <4>1. version'[x] = version[x]
          BY <1>5, <2>2, <3>2
        <4>2. /\ x \in live /\ x \notin custom /\ x \notin rebasing
              /\ \A b \in Members(Kept[x]) \cap Types : version[b] # 0 /\ version[b] < version[x]
              /\ Members(mro[x]) \cap Classic # {} => x \in listed
          BY <2>0, <4>1 DEF Ordered
        <4>3. \A b \in Members(Kept[x]) \cap Types : version'[b] = version[b]
          BY <1>4, <1>5, <2>2, <4>2
        <4>4. listed \subseteq listed'
          BY <2>2
        <4> QED BY <1>1, <4>1, <4>2, <4>3, <4>4
      <3> QED BY <3>1, <3>2
    <2> QED BY <1>1, <2>1, <2>2
  <1>9. Settled(Ended(stack), lock, done, live, Kept, custom, rebasing')
    <2>1. \A d \in done : d \notin Members(bases[t]) \cap Types
      BY <1>4
    <2>2. \A d \in Heap : d \in Types
      BY NoClassOutside
    <2> QED BY <1>1, <1>4, <2>1, <2>2 DEF RInv, Settled
  <1> QED BY <1>1, <1>3, <1>6, <1>7, <1>8, <1>9 DEF RInv

(***************************************************************************)
(* Creation and death                                                      *)
(***************************************************************************)

LEMMA RInvCreate ==
  ASSUME LInv, TInv, RInv, Registers, NEW t \in Heap, NEW bs \in NewBases[t], Create(t, bs)
  PROVE  RInv'
  <1>1. /\ t \notin live /\ Members(bs) \subseteq live \cup Classic
        /\ live' = live \cup {t} /\ bases' = [bases EXCEPT ![t] = bs]
        /\ subs' = [b \in Types |-> IF b \in Members(bs) THEN subs[b] \cup {t} ELSE subs[b]]
        /\ UNCHANGED <<lock, done, old, version, listed>>
        /\ stack' = stack \o <<Looks(t, "has", DelKey), Wants(t)>>
    BY DEF Create, locks, versions
  <1>2. PICK m \in C3(t, bs, Orders(bs)) :
           /\ mro' = [mro EXCEPT ![t] = m]
           /\ custom' = Flagged(custom, t, Custom(t, m, FALSE))
           /\ rebasing' = Flagged(rebasing, t, Rebasing(m, FALSE))
    BY DEF Create
  <1>3. bs \in Seq(live \cup Classic)
    <2>1. bs \in Seq(Classes)
      BY TypesAssumption
    <2> QED BY <1>1, <2>1, SeqOver
  <1>4. /\ \A x \in Members(bs) : x \in Members(m)
        /\ \A i \in 2 .. Len(m) : m[i] \in Members(bs) \/ m[i] \in Elements(Orders(bs))
    <2>1. Orders(bs) \in Seq(Seq(live \cup Classic))
      BY <1>3, OrdersTyped
    <2> QED BY <1>2, <1>3, <2>1, MergedFollows
  <1>5. Members(bs) \subseteq Members(m)
    BY <1>4
  <1>6. \A i \in 2 .. Len(m) : m[i] \in Types =>
           \E b \in Members(bs) \cap Types : m[i] \in Members(mro[b])
    BY <1>3, <1>4, OrdersTyped
  <1>7. t \in Types /\ t \notin Static /\ live \subseteq Types
        /\ DOMAIN mro = Types /\ DOMAIN bases = Types /\ DOMAIN subs = Types
    BY ClassFacts DEF TInv, HierTyped
  <1>8. Quiet(stack, stack')
    BY <1>1, <1>7, QuietLooks DEF LInv
  <1>9. t \notin Assigned /\ lock[t] = NoClass /\ t \notin done /\ version[t] = 0
    <2>1. lock[t] = NoClass
      BY <1>1 DEF LInv, Sound, LocksSound
    <2>2. t \notin done
      BY <2>1 DEF TInv, LocksTyped
    <2> QED BY <1>1, <1>7, <2>1, <2>2, KeptFacts DEF RInv, Ordered
  <1>10. /\ Kept' = [Kept EXCEPT ![t] = bs]
         /\ Assigned' = Assigned /\ Ended(stack') = Ended(stack)
    BY <1>1, <1>8, <1>9, KeptBorn
  <1>11. /\ \A x \in Types : Kept'[x] = IF x = t THEN bs ELSE Kept[x]
         /\ \A x \in Types : bases'[x] = IF x = t THEN bs ELSE bases[x]
         /\ \A x \in Types : mro'[x] = IF x = t THEN m ELSE mro[x]
         /\ \A x \in Types : x # t => (x \in custom' <=> x \in custom)
                                       /\ (x \in rebasing' <=> x \in rebasing)
    BY <1>1, <1>2, <1>7, <1>10, KeptFacts DEF Flagged
  <1>12. \A b \in Types : \A x \in subs[b] : x \in live /\ x # t
    BY <1>1 DEF TInv, HierTyped
  <1>13. \A x \in Types : Members(Kept[x]) \subseteq live \cup Classic
    <2>1. \A x \in Types : Kept[x] \in Seq(live \cup Classic)
      BY KeptFacts
    <2> QED BY <2>1, SeqElements
  <1>14. t \notin rebasing' => \A b \in Members(bs) : b \notin done /\ ~ Locked(b)
    <2>1. t \notin rebasing' => ~ Rebasing(m, FALSE)
      BY <1>2 DEF Flagged
    <2>2. \A b \in done : b \in Heap /\ lock[b] # NoClass
      BY DEF TInv, LocksTyped
    <2> QED BY <1>5, <2>1, <2>2 DEF Rebasing, Locked
  <1>a. Statics(mro', bases')
    BY <1>7, <1>11, ClassFacts DEF RInv, Statics
  <1>b. Chosen(live', Kept', bases')
    BY <1>1, <1>7, <1>11 DEF RInv, Chosen, Registers
  <1>c. Listing(live', Kept', subs', custom', lock, done, old, Assigned)
    <2>0. Listing(live, Kept, subs, custom, lock, done, old, Assigned)
      BY DEF RInv
    <2>1. ListsIn(Kept', subs', t)
      BY <1>1, <1>7, <1>11 DEF ListsIn
    <2>2. \A x \in Types : x # t /\ ListsIn(Kept, subs, x) => ListsIn(Kept', subs', x)
      BY <1>1, <1>7, <1>11 DEF ListsIn
    <2>3. \A x \in live' \cap Heap : x = t \/ x \in live
      BY <1>1
    <2>4. \A x \in Heap : x \in Types
      BY NoClassOutside
    <2>5. \A x \in live' \cap Heap :
             ListsIn(Kept', subs', x) \/ (IF x \in done /\ x \in Assigned THEN old[x].custom ELSE x \in custom')
      BY <1>11, <2>0, <2>1, <2>2, <2>3, <2>4 DEF Listing
    <2>6. \A x \in Heap : lock[x] \notin {x, NoClass} => ListsIn(Kept', subs', x)
      BY <1>9, <2>0, <2>2, <2>4 DEF Listing
    <2>7. \A b \in Types : \A x \in subs'[b] : b \in Members(Kept'[x])
      <3> SUFFICES ASSUME NEW b \in Types, NEW x \in subs'[b] PROVE b \in Members(Kept'[x])
        OBVIOUS
      <3>1. (x = t /\ b \in Members(bs)) \/ x \in subs[b]
        BY <1>1
      <3>2. CASE x = t /\ b \in Members(bs)
        BY <1>7, <1>11, <3>2
      <3>3. CASE x \in subs[b]
        BY <1>7, <1>11, <1>12, <2>0, <3>3 DEF Listing
      <3> QED BY <3>1, <3>2, <3>3
    <2>8. "subclass" \notin Refused => \A x \in live' \cap Heap : ListsIn(Kept', subs', x)
      BY <2>0, <2>1, <2>2, <2>3, <2>4 DEF Listing
    <2> QED BY <2>5, <2>6, <2>7, <2>8 DEF Listing
  <1>d. Following(live', Kept', mro', custom', rebasing', done, old)
    <2> SUFFICES ASSUME NEW x \in live' \ (custom' \cup rebasing'), NEW i \in 2 .. Len(mro'[x]),
                        mro'[x][i] \in Types
                 PROVE  \E b \in Members(Kept'[x]) \cap Types :
                           mro'[x][i] \in Members(OldMroIn(b, done, old, mro'))
      BY DEF Following
    <2>1. CASE x = t
      <3>1. PICK b \in Members(bs) \cap Types : m[i] \in Members(mro[b])
        BY <1>6, <1>7, <1>11, <2>1
      <3>2. b \notin done /\ b # t
        BY <1>1, <1>7, <1>14, <2>1, ClassFacts
      <3> QED BY <1>7, <1>11, <2>1, <3>1, <3>2 DEF OldMroIn
    <2>2. CASE x # t
      <3>1. x \in live \ (custom \cup rebasing) /\ x \in Types /\ mro'[x] = mro[x] /\ Kept'[x] = Kept[x]
        BY <1>1, <1>7, <1>11, <2>2
      <3>2. PICK b \in Members(Kept[x]) \cap Types : mro[x][i] \in Members(OldMroIn(b, done, old, mro))
        BY <3>1 DEF RInv, Following
      <3>3. b # t
        BY <1>1, <1>7, <1>13, <3>1, <3>2, ClassFacts
      <3> QED BY <1>11, <3>1, <3>2, <3>3 DEF OldMroIn
    <2> QED BY <2>1, <2>2
  <1>e. Fresh(version, done, rebasing')
    <2>1. done \subseteq Types
      BY NoClassOutside DEF TInv, LocksTyped
    <2> QED BY <1>9, <1>11, <2>1 DEF RInv, Fresh
  <1>f. Ordered(version, live', Kept', mro', custom', rebasing', listed)
    <2>1. Ordered(version, live, Kept, mro, custom, rebasing, listed)
      BY DEF RInv
    <2>2. Ordered(version, live, Kept', mro', custom', rebasing', listed)
      BY <1>9, <1>11, <2>1, OrderedElse
    <2> QED BY <1>1, <2>2 DEF Ordered
  <1>g. Settled(Ended(stack), lock, done, live', Kept', custom', rebasing')
    <2> SUFFICES ASSUME NEW x \in Ended(stack), NEW d \in Heap, lock[d] = x
                 PROVE  d \in done /\ \A y \in live' \ (custom' \cup rebasing') : d \notin Members(Kept'[y])
      BY DEF Settled
    <2>1. d \in done /\ \A y \in live \ (custom \cup rebasing) : d \notin Members(Kept[y])
      BY DEF RInv, Settled
    <2>2. ASSUME NEW y \in live' \ (custom' \cup rebasing') PROVE d \notin Members(Kept'[y])
      BY <1>1, <1>7, <1>11, <1>14, <2>1
    <2> QED BY <2>1, <2>2
  <1> QED BY <1>1, <1>10, <1>a, <1>b, <1>c, <1>d, <1>e, <1>f, <1>g DEF RInv

\* The bases of no other type mention a class that dies.
LEMMA DieFacts ==
  ASSUME LInv, TInv, NEW t \in Heap, ~ Referenced(t)
  PROVE  /\ lock[t] = NoClass /\ t \notin done /\ t \notin Assigned
         /\ \A x \in live : x # t => t \notin Members(Kept[x])
  <1>1. lock[t] = NoClass
    BY DEF Referenced
  <1>2. t \notin done /\ t \notin Assigned
    BY <1>1, KeptFacts, NoClassOutside DEF TInv, LocksTyped
  <1>3. ASSUME NEW x \in live, x # t
        PROVE  t \notin Members(Kept[x])
    <2>0. x \in Types
      BY DEF TInv, HierTyped
    <2>1. CASE x \notin Assigned
      <3>1. Kept[x] = bases[x]
        BY <2>0, <2>1, KeptFacts
      <3> QED BY <1>3, <3>1 DEF Referenced
    <2>2. CASE x \in Assigned
      <3>1. PICK p \in Ongoing(stack) : p[1] = x
        BY <2>2 DEF Assigned, Firsts
      <3>2. PICK i \in DOMAIN stack : stack[i].op = "bases" /\ p = <<stack[i].type, stack[i].before>>
        BY DEF Ongoing
      <3>3. Kept[x] = stack[i].before
        <4>1. Kept[p[1]] = p[2]
          BY KeptFacts
        <4> QED BY <3>1, <3>2, <4>1
      <3>4. Members(stack[i].before) \subseteq Mentioned(stack[i])
        BY <3>2 DEF Mentioned
      <3> QED BY <3>3, <3>4 DEF Referenced
    <2> QED BY <2>1, <2>2
  <1> QED BY <1>1, <1>2, <1>3

LEMMA RInvDie ==
  ASSUME LInv, TInv, RInv, NEW t \in Heap, Die(t)
  PROVE  RInv'
  <1>1. /\ t \in live /\ ~ Referenced(t) /\ live' = live \ {t}
        /\ bases' = [bases EXCEPT ![t] = <<>>] /\ mro' = [mro EXCEPT ![t] = <<>>]
        /\ subs' = [b \in Types |-> IF b = t THEN {} ELSE subs[b] \ {t}]
        /\ custom' = custom \ {t} /\ rebasing' = rebasing \ {t} /\ listed' = listed \ {t}
        /\ version' = [version EXCEPT ![t] = 0]
        /\ UNCHANGED <<lock, done, old, stack>>
    BY DEF Die, locks
  <1>2. /\ lock[t] = NoClass /\ t \notin done /\ t \notin Assigned
        /\ \A x \in live : x # t => t \notin Members(Kept[x])
    BY <1>1, DieFacts
  <1>3. /\ t \in Types /\ t \notin Static /\ live \subseteq Types
        /\ DOMAIN mro = Types /\ DOMAIN bases = Types /\ DOMAIN subs = Types /\ DOMAIN version = Types
        /\ \A b \in Types : subs[b] \subseteq live
    BY ClassFacts DEF TInv, HierTyped, DataTyped
  <1>4. Quiet(stack, stack')
    BY <1>1, QuietSame DEF LInv
  <1>5. Kept' = [Kept EXCEPT ![t] = <<>>] /\ Assigned' = Assigned /\ Ended(stack') = Ended(stack)
    BY <1>1, <1>2, <1>4, KeptBorn
  <1>6. /\ \A x \in Types : x # t => Kept'[x] = Kept[x] /\ bases'[x] = bases[x] /\ mro'[x] = mro[x]
                                     /\ version'[x] = version[x]
        /\ version'[t] = 0
    BY <1>1, <1>3, <1>5, KeptFacts
  <1>7. \A x \in live' : x \in live /\ x # t /\ x \in Types
    BY <1>1, <1>3
  <1>a. Statics(mro', bases')
    BY <1>3, <1>6, ClassFacts DEF RInv, Statics
  <1>b. Chosen(live', Kept', bases')
    BY <1>6, <1>7 DEF RInv, Chosen
  <1>c. Listing(live', Kept', subs', custom', lock, done, old, Assigned)
    <2>0. Listing(live, Kept, subs, custom, lock, done, old, Assigned)
      BY DEF RInv
    <2>1. ASSUME NEW x \in live', ListsIn(Kept, subs, x)
          PROVE  ListsIn(Kept', subs', x)
      <3> SUFFICES ASSUME NEW b \in Members(Kept'[x]) \cap Types PROVE x \in subs'[b]
        BY DEF ListsIn
      <3>1. b \in Members(Kept[x]) /\ b # t /\ x # t
        BY <1>2, <1>6, <1>7
      <3>2. x \in subs[b]
        BY <2>1, <3>1 DEF ListsIn
      <3> QED BY <1>1, <3>1, <3>2
    <2>2. \A x \in live' \cap Heap :
             ListsIn(Kept', subs', x) \/ (IF x \in done /\ x \in Assigned THEN old[x].custom ELSE x \in custom')
      BY <1>1, <1>7, <2>0, <2>1 DEF Listing
    <2>3. \A x \in Heap : lock[x] \notin {x, NoClass} => ListsIn(Kept', subs', x)
      <3> SUFFICES ASSUME NEW x \in Heap, lock[x] \notin {x, NoClass} PROVE ListsIn(Kept', subs', x)
        OBVIOUS
      <3>1. x \in live /\ x # t
        BY <1>2 DEF LInv, Sound, LocksSound
      <3>2. x \in live' /\ ListsIn(Kept, subs, x)
        BY <1>1, <2>0, <3>1 DEF Listing
      <3> QED BY <2>1, <3>2
    <2>4. \A b \in Types : \A x \in subs'[b] : b \in Members(Kept'[x])
      <3> SUFFICES ASSUME NEW b \in Types, NEW x \in subs'[b] PROVE b \in Members(Kept'[x])
        OBVIOUS
      <3>1. x \in subs[b] /\ x # t
        BY <1>1
      <3>2. x \in Types /\ b \in Members(Kept[x])
        BY <1>3, <2>0, <3>1 DEF Listing
      <3> QED BY <1>6, <3>1, <3>2
    <2>5. "subclass" \notin Refused => \A x \in live' \cap Heap : ListsIn(Kept', subs', x)
      BY <1>7, <2>0, <2>1 DEF Listing
    <2> QED BY <2>2, <2>3, <2>4, <2>5 DEF Listing
  <1>d. Following(live', Kept', mro', custom', rebasing', done, old)
    <2> SUFFICES ASSUME NEW x \in live' \ (custom' \cup rebasing'), NEW i \in 2 .. Len(mro'[x]),
                        mro'[x][i] \in Types
                 PROVE  \E b \in Members(Kept'[x]) \cap Types :
                           mro'[x][i] \in Members(OldMroIn(b, done, old, mro'))
      BY DEF Following
    <2>1. /\ x \in live \ (custom \cup rebasing) /\ x # t /\ x \in Types
          /\ mro'[x] = mro[x] /\ Kept'[x] = Kept[x]
      BY <1>1, <1>6, <1>7
    <2>2. PICK b \in Members(Kept[x]) \cap Types : mro[x][i] \in Members(OldMroIn(b, done, old, mro))
      BY <2>1 DEF RInv, Following
    <2>3. b # t
      BY <1>2, <2>1, <2>2
    <2> QED BY <1>6, <2>1, <2>2, <2>3 DEF OldMroIn
  <1>e. Fresh(version', done, rebasing')
    <2>1. done \subseteq Types
      BY NoClassOutside DEF TInv, LocksTyped
    <2> QED BY <1>1, <1>2, <1>6, <2>1 DEF RInv, Fresh
  <1>f. Ordered(version', live', Kept', mro', custom', rebasing', listed')
    <2>1. Ordered(version, live, Kept, mro, custom, rebasing, listed)
      BY DEF RInv
    <2> SUFFICES ASSUME NEW x \in Types, version'[x] # 0
                 PROVE  /\ x \in live' /\ x \notin custom' /\ x \notin rebasing'
                        /\ \A b \in Members(Kept'[x]) \cap Types : version'[b] # 0 /\ version'[b] < version'[x]
                        /\ Members(mro'[x]) \cap Classic # {} => x \in listed'
      BY DEF Ordered
    <2>2. x # t /\ version'[x] = version[x] /\ Kept'[x] = Kept[x] /\ mro'[x] = mro[x]
      BY <1>6
    <2>3. /\ x \in live /\ x \notin custom /\ x \notin rebasing
          /\ \A b \in Members(Kept[x]) \cap Types : version[b] # 0 /\ version[b] < version[x]
          /\ Members(mro[x]) \cap Classic # {} => x \in listed
      BY <2>1, <2>2 DEF Ordered
    <2>4. \A b \in Members(Kept[x]) \cap Types : version'[b] = version[b]
      BY <1>2, <1>6, <2>2, <2>3
    <2> QED BY <1>1, <2>2, <2>3, <2>4
  <1>g. Settled(Ended(stack), lock, done, live', Kept', custom', rebasing')
    <2>1. \A y \in live' \ (custom' \cup rebasing') :
             y \in live \ (custom \cup rebasing) /\ Kept'[y] = Kept[y]
      BY <1>1, <1>6, <1>7
    <2> QED BY <2>1 DEF RInv, Settled
  <1> QED BY <1>1, <1>5, <1>a, <1>b, <1>c, <1>d, <1>e, <1>f, <1>g DEF RInv

(***************************************************************************)
(* Assignments of __bases__                                                *)
(***************************************************************************)

\* A descendant is listed by some type.
LEMMA DescendantListed ==
  ASSUME TInv, NEW s, s \subseteq Types, NEW x \in Descendants(s), x \notin s
  PROVE  \E y \in Types : x \in subs[y]
  <1> SUFFICES ASSUME \A y \in Types : x \notin subs[y]
               PROVE  FALSE
    OBVIOUS
  <1> DEFINE closed == {c \in SUBSET Types : s \subseteq c /\ \A t \in c : subs[t] \subseteq c}
  <1>1. x \in Types /\ \A c \in closed : x \in c
    BY DEF Descendants
  <1>2. Types \ {x} \in closed
    <2>1. \A t \in Types : subs[t] \subseteq Types \ {x}
      BY NoClassOutside DEF TInv, HierTyped
    <2> QED BY <2>1
  <1> QED BY <1>1, <1>2

\* The records of an assignment that are not of its own type are listed by bases.
LEMMA RecordedListed ==
  ASSUME LInv, TInv, RInv, NEW x \in live \cap Heap, NEW y \in Types, x \in subs[y]
  PROVE  ListsIn(Kept, subs, x)
  <1>1. x \in Types /\ y \in Members(Kept[x])
    BY NoClassOutside DEF RInv, Listing
  <1>2. CASE "subclass" \notin Refused
    BY <1>2 DEF RInv, Listing
  <1>3. CASE "subclass" \in Refused
    <2>1. Single(Kept[x])
      BY <1>3 DEF RInv, Chosen
    <2>2. \A b \in Members(Kept[x]) \cap Types : b = y
      BY <1>1, <2>1 DEF Single, Members
    <2> QED BY <2>2 DEF ListsIn
  <1> QED BY <1>2, <1>3

\* What is recorded changes nothing that versions rely on.
LEMMA RInvRecorded ==
  ASSUME LInv, TInv, RInv, NEW s, s \subseteq live \cap Heap, \A d \in s : lock[d] = NoClass,
         NEW t \in Heap, Recorded(s, t), t \notin Ended(stack),
         \A x \in s : x # t => ListsIn(Kept, subs, x),
         NEW as, \A x \in done : x \in as <=> x \in Assigned
  PROVE  /\ Listing(live, Kept, subs, custom, lock', done, old', as)
         /\ Following(live, Kept, mro, custom, rebasing, done, old')
         /\ Settled(Ended(stack), lock', done, live, Kept, custom, rebasing)
  <1>1. /\ \A d \in Heap : lock'[d] = IF d \in s THEN t ELSE lock[d]
        /\ \A d \in Heap : d \notin s => old'[d] = old[d]
    BY DEF Recorded
  <1>2. \A d \in done : d \in Heap /\ d \notin s
    BY NoClassOutside DEF TInv, LocksTyped
  <1>3. \A d \in done : old'[d] = old[d]
    BY <1>1, <1>2
  <1>4. Listing(live, Kept, subs, custom, lock', done, old', as)
    <2>1. Listing(live, Kept, subs, custom, lock, done, old, Assigned)
      BY DEF RInv
    <2>2. \A x \in live \cap Heap :
             ListsIn(Kept, subs, x) \/ (IF x \in done /\ x \in as THEN old'[x].custom ELSE x \in custom)
      BY <1>3, <2>1 DEF Listing
    <2>3. \A x \in Heap : lock'[x] \notin {x, NoClass} => ListsIn(Kept, subs, x)
      BY <1>1, <2>1 DEF Listing
    <2> QED BY <2>1, <2>2, <2>3 DEF Listing
  <1>5. Following(live, Kept, mro, custom, rebasing, done, old')
    <2>1. \A b : OldMroIn(b, done, old', mro) = OldMroIn(b, done, old, mro)
      BY <1>3 DEF OldMroIn
    <2> QED BY <2>1 DEF RInv, Following
  <1>6. Settled(Ended(stack), lock', done, live, Kept, custom, rebasing)
    <2>1. \A x \in Ended(stack) : \A d \in Heap : lock'[d] = x => lock[d] = x
      BY <1>1
    <2> QED BY <2>1 DEF RInv, Settled
  <1> QED BY <1>4, <1>5, <1>6

LEMMA RInvSetBases ==
  ASSUME LInv, TInv, RInv, Registers, NEW t \in Heap, NEW bs \in NewBases[t], NEW strange,
         SetBases(t, bs, strange)
  PROVE  RInv'
  <1> DEFINE s == Descendants({t})
  <1>1. /\ t \in live /\ lock[t] = NoClass /\ Recorded(s, t) /\ bases' = [bases EXCEPT ![t] = bs]
        /\ \A d \in s : ~ Locked(d)
        /\ UNCHANGED <<live, mro, subs, custom, rebasing, done, version, listed>>
    BY DEF SetBases, versions
  <1>2. s \subseteq live \cap Heap
    BY <1>1, DescendantsLive DEF LInv
  <1>3. \A d \in s : lock[d] = NoClass
    BY <1>1, <1>2 DEF Locked
  <1>4. t \notin Ended(stack) /\ t \notin done
    BY <1>1, KeptFacts, NoClassOutside DEF TInv, LocksTyped
  <1>5. \A x \in s : x # t => ListsIn(Kept, subs, x)
    <2> SUFFICES ASSUME NEW x \in s, x # t PROVE ListsIn(Kept, subs, x)
      OBVIOUS
    <2>1. {t} \subseteq Types
      BY NoClassOutside
    <2>2. \E y \in Types : x \in subs[y]
      BY <2>1, DescendantListed
    <2> QED BY <1>2, <2>2, RecordedListed
  <1>6. Kept' = Kept /\ Assigned' = Assigned \cup {t} /\ Ended(stack') = Ended(stack)
    BY KeptSetBases
  <1>7. \A x \in done : x \in Assigned' <=> x \in Assigned
    BY <1>4, <1>6
  <1> HIDE DEF s
  <1>8. /\ Listing(live, Kept, subs, custom, lock', done, old', Assigned \cup {t})
        /\ Following(live, Kept, mro, custom, rebasing, done, old')
        /\ Settled(Ended(stack), lock', done, live, Kept, custom, rebasing)
    BY <1>1, <1>2, <1>3, <1>4, <1>5, <1>6, <1>7, RInvRecorded
  <1>9. t \in Types /\ t \notin Static /\ \A x \in Types : bases'[x] = IF x = t THEN bs ELSE bases[x]
    BY <1>1, ClassFacts DEF TInv, HierTyped
  <1>a. Statics(mro, bases')
    BY <1>9, ClassFacts DEF RInv, Statics
  <1>b. Chosen(live, Kept, bases')
    BY <1>9, ClassFacts DEF RInv, Chosen, Registers
  <1> QED BY <1>1, <1>6, <1>8, <1>a, <1>b DEF RInv

LEMMA RInvRecordLate ==
  ASSUME LInv, TInv, RInv, RecordLate
  PROVE  RInv'
  <1> DEFINE t == Top.type
             s == Late(t)
  <1>1. /\ stack # <<>> /\ Top.op = "bases" /\ Top.step = "scan"
        /\ Recorded(s, t) /\ \A d \in s : ~ Locked(d)
        /\ UNCHANGED <<live, bases, mro, subs, custom, rebasing, done, version, listed, stack>>
    BY DEF RecordLate, AtTop, hierarchy, versions
  <1>2. t \in Heap /\ t \in Assigned /\ t \notin Ended(stack) /\ t # NoClass
    BY <1>1, TopAssigns, KeptFacts
  <1>3. Records(t) \subseteq live \cap Heap
    BY <1>2 DEF Records, LInv, Sound, LocksSound
  <1>4. s \subseteq live \cap Heap /\ \A x \in s : x \in Descendants(Records(t)) /\ x \notin Records(t)
    <2>1. Descendants(Records(t)) \subseteq live \cap Heap
      BY <1>3, DescendantsLive DEF LInv
    <2> QED BY <2>1 DEF Late
  <1>5. \A d \in s : lock[d] = NoClass
    BY <1>1, <1>4 DEF Locked
  <1>6. \A x \in s : x # t => ListsIn(Kept, subs, x)
    <2> SUFFICES ASSUME NEW x \in s PROVE ListsIn(Kept, subs, x)
      OBVIOUS
    <2>1. Records(t) \subseteq Types
      BY <1>3, NoClassOutside
    <2>2. \E y \in Types : x \in subs[y]
      BY <1>4, <2>1, DescendantListed
    <2> QED BY <1>4, <2>2, RecordedListed
  <1>7. Kept' = Kept /\ Assigned' = Assigned /\ Ended(stack') = Ended(stack)
    BY <1>1, QuietSame, KeptQuiet DEF LInv
  <1> HIDE DEF s, t
  <1>8. /\ Listing(live, Kept, subs, custom, lock', done, old', Assigned)
        /\ Following(live, Kept, mro, custom, rebasing, done, old')
        /\ Settled(Ended(stack), lock', done, live, Kept, custom, rebasing)
    BY <1>1, <1>2, <1>4, <1>5, <1>6, RInvRecorded
  <1> QED BY <1>1, <1>7, <1>8 DEF RInv

LEMMA RInvFail ==
  ASSUME LInv, TInv, RInv, Fail
  PROVE  RInv'
  <1>1. /\ stack # <<>> /\ Top.op = "bases" /\ Top.step # "finish"
        /\ bases' = [bases EXCEPT ![Top.type] = Top.before] /\ stack' = Append(Below, Undoing)
        /\ UNCHANGED <<live, mro, subs, custom, rebasing, lock, done, old, version, listed>>
    BY DEF Fail, AtTop, Become, Undoing, locks, versions
  <1>2. /\ Undoing.op = "bases" /\ Undoing.type = Top.type
        /\ Undoing.before = Top.before /\ Undoing.step # "finish"
    BY <1>1, BasesFields DEF Undoing, BaseFields
  <1>3. /\ Top.type \in live \cap Heap /\ Kept[Top.type] = Top.before
    BY <1>1, TopAssigns
  <1>4. \A x \in Types : bases'[x] = IF x = Top.type THEN Kept[x] ELSE bases[x]
    BY <1>1, <1>3, NoClassOutside DEF TInv, HierTyped
  <1>5. Kept' = Kept /\ Assigned' = Assigned /\ Ended(stack') = Ended(stack)
    BY <1>1, <1>2, <1>4, KeptMoves
  <1>6. Statics(mro, bases')
    BY <1>3, <1>4, ClassFacts DEF RInv, Statics
  <1>7. Chosen(live, Kept, bases')
    BY <1>4, ClassFacts DEF RInv, Chosen
  <1> QED BY <1>1, <1>5, <1>6, <1>7 DEF RInv

\* What is withdrawn leaves types in an assignment without a version.
LEMMA ModifiedFresh ==
  ASSUME TInv, RInv, NEW r \in Types, Modified(r), NEW dn, dn \subseteq done \cup {r},
         NEW rb, dn \subseteq rb
  PROVE  Fresh(version', dn, rb)
  <1>1. /\ \A t \in Types : version'[t] = 0 \/ version'[t] = version[t]
        /\ version'[r] = 0
    BY ModifiedVersions, ClassFacts
  <1>2. \A t \in done : t \in Types /\ version[t] = 0
    BY NoClassOutside DEF RInv, Fresh, TInv, LocksTyped
  <1>3. \A t \in dn : version'[t] = 0
    BY <1>1, <1>2
  <1> QED BY <1>3 DEF Fresh

\* A record of an assignment that has not ended gets an MRO.
LEMMA RInvInstall ==
  ASSUME LInv, TInv, RInv, NEW r \in Heap, lock[r] \in Assigned, r \notin done,
         NEW m \in Seq(live \cup Classic), m # <<>>, m[1] = r, Install(r, m),
         Kept' = Kept, Assigned' = Assigned, Ended(stack') = Ended(stack),
         UNCHANGED <<live, bases, subs, lock>>
  PROVE  RInv'
  <1>1. /\ old' = [old EXCEPT ![r].custom = r \in custom] /\ mro' = [mro EXCEPT ![r] = m]
        /\ Modified(r) /\ done' = done \cup {r}
        /\ custom' = Flagged(custom, r, Custom(r, m, FALSE))
        /\ rebasing' = Flagged(rebasing, r, Rebasing(m, r \in odd))
    BY DEF Install
  <1>2. /\ r \in Types /\ r \notin Static /\ r \in Classes /\ lock[r] # NoClass /\ r \in live
        /\ old[r].mro = mro[r]
    <2>1. lock[r] # NoClass
      BY KeptFacts, NoClassOutside
    <2> QED BY <2>1, ClassFacts DEF LInv, Sound, LocksSound
  <1>3. r \in rebasing' /\ rebasing' = rebasing \cup {r}
    <2>1. 1 \in DOMAIN m
      BY SeqElements
    <2>2. r \in Members(m) /\ Locked(r)
      BY <1>2, <2>1 DEF Members, Locked
    <2>3. Rebasing(m, r \in odd)
      BY <2>2 DEF Rebasing
    <2> QED BY <1>1, <2>3 DEF Flagged
  <1>4. /\ \A x \in Types : x # r => mro'[x] = mro[x]
        /\ mro'[r] = m
        /\ \A x \in Heap : old'[x].mro = old[x].mro /\ (x # r => old'[x] = old[x])
        /\ old'[r].custom = (r \in custom)
        /\ \A x : x # r => (x \in custom' <=> x \in custom)
    <2>1. DOMAIN mro = Types /\ DOMAIN old = Heap /\ {"mro", "custom"} \subseteq DOMAIN old[r]
      BY DEF TInv, HierTyped, LocksTyped
    <2>2. \A x \in Heap : x # r => old'[x] = old[x]
      BY <1>1, <2>1
    <2>3. old'[r] = [old[r] EXCEPT !.custom = r \in custom]
      BY <1>1, <2>1
    <2>4. old'[r].mro = old[r].mro /\ old'[r].custom = (r \in custom)
      BY <2>1, <2>3
    <2>5. \A x \in Types : x # r => mro'[x] = mro[x]
      BY <1>1, <2>1
    <2>6. mro'[r] = m
      BY <1>1, <1>2, <2>1
    <2>7. \A x : x # r => (x \in custom' <=> x \in custom)
      BY <1>1 DEF Flagged
    <2> QED BY <2>2, <2>4, <2>5, <2>6, <2>7
  <1>a. Statics(mro', bases)
    BY <1>2, <1>4, ClassFacts DEF RInv, Statics
  <1>c. Listing(live, Kept, subs, custom', lock, done', old', Assigned)
    <2>0. Listing(live, Kept, subs, custom, lock, done, old, Assigned)
      BY DEF RInv
    <2>1. ListsIn(Kept, subs, r) \/ (IF r \in Assigned THEN old'[r].custom ELSE r \in custom')
      <3>1. CASE r \in Assigned
        BY <1>2, <1>4, <2>0, <3>1 DEF Listing
      <3>2. CASE r \notin Assigned
        <4>1. lock[r] # r
          BY <3>2
        <4> QED BY <1>2, <2>0, <4>1 DEF Listing
      <3> QED BY <3>1, <3>2
    <2>2. \A x \in live \cap Heap :
             ListsIn(Kept, subs, x) \/ (IF x \in done' /\ x \in Assigned THEN old'[x].custom ELSE x \in custom')
      <3> SUFFICES ASSUME NEW x \in live \cap Heap
                   PROVE  ListsIn(Kept, subs, x) \/ (IF x \in done' /\ x \in Assigned THEN old'[x].custom ELSE x \in custom')
        OBVIOUS
      <3>1. CASE x = r
        BY <1>1, <2>1, <3>1
      <3>2. CASE x # r
        BY <1>1, <1>4, <2>0, <3>2 DEF Listing
      <3> QED BY <3>1, <3>2
    <2> QED BY <2>0, <2>2 DEF Listing
  <1>d. Following(live, Kept, mro', custom', rebasing', done', old')
    <2>1. \A b \in Types : OldMroIn(b, done', old', mro') = OldMroIn(b, done, old, mro)
      <3> SUFFICES ASSUME NEW b \in Types
                   PROVE  OldMroIn(b, done', old', mro') = OldMroIn(b, done, old, mro)
        OBVIOUS
      <3>1. CASE b = r
        BY <1>1, <1>2, <1>4, <3>1 DEF OldMroIn
      <3>2. CASE b # r
        <4>1. b \in done => b \in Heap
          BY DEF TInv, LocksTyped
        <4> QED BY <1>1, <1>4, <3>2, <4>1 DEF OldMroIn
      <3> QED BY <3>1, <3>2
    <2>2. \A x \in live \ (custom' \cup rebasing') :
             x \in live \ (custom \cup rebasing) /\ mro'[x] = mro[x]
      <3>1. live \subseteq Types
        BY DEF TInv, HierTyped
      <3> QED BY <1>3, <1>4, <3>1
    <2> QED BY <2>1, <2>2 DEF RInv, Following
  <1>e. Fresh(version', done', rebasing')
    <2>1. done \subseteq rebasing
      BY DEF RInv, Fresh
    <2>2. \A dn, rb : dn \subseteq done \cup {r} /\ dn \subseteq rb => Fresh(version', dn, rb)
      BY <1>1, <1>2, ModifiedFresh
    <2> QED BY <1>1, <1>3, <2>1, <2>2
  <1>f. Ordered(version', live, Kept, mro', custom', rebasing', listed')
    <2>1. Ordered(version', live, Kept, mro, custom, rebasing, listed')
      BY <1>1, <1>2, ModifiedOrdered
    <2>2. version'[r] = 0
      BY <1>1, <1>2, ModifiedVersions
    <2>3. \A x \in Types : x # r => /\ mro'[x] = mro[x]
                                    /\ x \in custom' => x \in custom
                                    /\ x \in rebasing' => x \in rebasing
      BY <1>3, <1>4
    <2> QED BY <2>1, <2>2, <2>3 DEF Ordered
  <1>g. Settled(Ended(stack), lock, done', live, Kept, custom', rebasing')
    <2>1. \A x \in live \ (custom' \cup rebasing') : x \in live \ (custom \cup rebasing)
      BY <1>3, <1>4
    <2> QED BY <1>1, <2>1 DEF RInv, Settled
  <1> QED BY <1>a, <1>c, <1>d, <1>e, <1>f, <1>g DEF RInv

LEMMA RInvMerge ==
  ASSUME LInv, TInv, RInv, Merge
  PROVE  RInv'
  <1>1. stack # <<>> /\ Top.op = "bases" /\ Top.step = "scan"
    BY DEF Merge, AtTop
  <1>2. PICK r \in InTurn(Top.type) : \E m \in Merges(r) : Install(r, m)
    BY DEF Merge
  <1>3. PICK m \in C3(r, bases[r], Orders(bases[r])) : Install(r, m)
    BY <1>2 DEF Merges
  <1>4. r \in Heap /\ lock[r] = Top.type /\ r \notin done /\ r \in Types
    BY NoClassOutside DEF InTurn, Waiting, Records
  <1>5. lock[r] \in Assigned /\ lock[r] # NoClass
    BY <1>1, <1>4, TopAssigns
  <1>6. r \in live
    BY <1>4, <1>5 DEF LInv, Sound, LocksSound
  <1>7. m \in Seq(live \cup Classic) /\ m # <<>> /\ m[1] = r
    <2>1. bases[r] \in Seq(live \cup Classic)
      BY <1>4, BasesTyped
    <2>2. m \in Seq(live \cup Classic \cup {r}) /\ m # <<>> /\ m[1] = r
      BY <2>1, OrdersTyped, MergedTyped
    <2>3. live \cup Classic \cup {r} = live \cup Classic
      BY <1>6
    <2> QED BY <2>2, <2>3
  <1>8. UNCHANGED <<live, bases, subs, lock, stack>>
    BY DEF Merge
  <1>9. Kept' = Kept /\ Assigned' = Assigned /\ Ended(stack') = Ended(stack)
    BY <1>8, QuietSame, KeptQuiet DEF LInv
  <1> QED BY <1>3, <1>4, <1>5, <1>7, <1>8, <1>9, RInvInstall

LEMMA RInvEndMerge ==
  ASSUME LInv, TInv, RInv, EndMerge
  PROVE  RInv'
  <1> DEFINE r == Top.current
  <1>1. stack # <<>> /\ Top.op = "bases" /\ Top.step = "compute"
    BY DEF EndMerge, AtTop
  <1>2. PICK m \in C3(r, bases[r], Top.orders) : Install(r, m)
    BY DEF EndMerge
  <1>3. FrameOk(Top, lock, done, old, mro, bases) /\ FrameTyped(Top, live, lock)
    BY <1>1, TopOk, TopTyped
  <1>4. r \in Heap /\ lock[r] = Top.type /\ r \notin done /\ r \in Types
    BY <1>1, <1>3, NoClassOutside DEF FrameOk
  <1>5. lock[r] \in Assigned /\ lock[r] # NoClass
    BY <1>1, <1>4, TopAssigns
  <1>6. r \in live
    BY <1>4, <1>5 DEF LInv, Sound, LocksSound
  <1> HIDE DEF r
  <1>7. m \in Seq(live \cup Classic) /\ m # <<>> /\ m[1] = r
    <2>1. bases[r] \in Seq(live \cup Classic) /\ Top.orders \in Seq(Seq(live \cup Classic))
      BY <1>1, <1>3, <1>4, BasesTyped DEF FrameTyped
    <2>2. m \in Seq(live \cup Classic \cup {r}) /\ m # <<>> /\ m[1] = r
      BY <2>1, MergedTyped
    <2>3. live \cup Classic \cup {r} = live \cup Classic
      BY <1>6
    <2> QED BY <2>2, <2>3
  <1>8. /\ Scanning.op = "bases" /\ Scanning.type = Top.type
        /\ Scanning.before = Top.before /\ Scanning.step # "finish"
    BY <1>1, BasesFields DEF Scanning, BaseFields
  <1>9. UNCHANGED <<live, bases, subs, lock>> /\ stack' = Append(Below, Scanning)
    BY DEF EndMerge, Become, Scanning
  <1>10. Kept' = Kept /\ Assigned' = Assigned /\ Ended(stack') = Ended(stack)
    BY <1>1, <1>8, <1>9, KeptMoves
  <1> QED BY <1>2, <1>4, <1>5, <1>7, <1>9, <1>10, RInvInstall

LEMMA RInvUndo ==
  ASSUME LInv, TInv, RInv, Undo
  PROVE  RInv'
  <1> DEFINE T == Top.type
  <1>0. stack # <<>> /\ Top.op = "bases" /\ Top.step = "undo"
    BY DEF Undo, AtTop
  <1>1. PICK r \in Records(T) \cap done :
           /\ mro' = [mro EXCEPT ![r] = old[r].mro]
           /\ Modified(r)
           /\ custom' = Flagged(custom, r, Custom(r, old[r].mro, old[r].custom))
           /\ rebasing' = Flagged(rebasing, r, Rebasing(old[r].mro, r \in odd))
           /\ done' = done \ {r}
    BY DEF Undo
  <1>2. UNCHANGED <<live, bases, subs, lock, old, stack>>
    BY DEF Undo
  <1>3. Kept' = Kept /\ Assigned' = Assigned /\ Ended(stack') = Ended(stack)
    BY <1>2, QuietSame, KeptQuiet DEF LInv
  <1>4. T \in Assigned /\ T \notin Ended(stack) /\ T # NoClass
    BY <1>0, TopAssigns, KeptFacts
  <1>5. r \in Heap /\ r \in Types /\ r \notin Static /\ r \in Classes /\ lock[r] = T /\ r \in done
    BY ClassFacts DEF Records
  <1> HIDE DEF T
  <1>6. r \in live /\ lock[r] # NoClass
    BY <1>4, <1>5 DEF LInv, Sound, LocksSound
  <1>7. old[r].mro \in Seq(live \cup Classic) /\ old[r].mro # <<>> /\ old[r].mro[1] = r
    BY <1>5, <1>6 DEF TInv, LocksTyped
  <1>8. rebasing' = rebasing \cup {r}
    <2>1. 1 \in DOMAIN old[r].mro
      BY <1>7, SeqElements
    <2>2. r \in Members(old[r].mro) /\ Locked(r)
      BY <1>5, <1>6, <1>7, <2>1 DEF Members, Locked
    <2>3. Rebasing(old[r].mro, r \in odd)
      BY <2>2 DEF Rebasing
    <2> QED BY <1>1, <2>3 DEF Flagged
  <1>9. /\ \A x \in Types : x # r => mro'[x] = mro[x]
        /\ mro'[r] = old[r].mro
        /\ \A x : x # r => (x \in custom' <=> x \in custom)
        /\ old[r].custom => r \in custom'
    <2>1. DOMAIN mro = Types
      BY DEF TInv, HierTyped
    <2>2. old[r].custom => Custom(r, old[r].mro, old[r].custom)
      BY DEF Custom
    <2> QED BY <1>1, <1>5, <2>1, <2>2 DEF Flagged
  <1>a. Statics(mro', bases)
    BY <1>5, <1>9, ClassFacts DEF RInv, Statics
  <1>c. Listing(live, Kept, subs, custom', lock, done', old, Assigned)
    <2>0. Listing(live, Kept, subs, custom, lock, done, old, Assigned)
      BY DEF RInv
    <2>1. ListsIn(Kept, subs, r) \/ r \in custom'
      <3>1. CASE r \in Assigned
        BY <1>5, <1>6, <1>9, <2>0, <3>1 DEF Listing
      <3>2. CASE r \notin Assigned
        <4>1. lock[r] # r
          BY <1>4, <1>5, <3>2
        <4> QED BY <1>5, <1>6, <2>0, <4>1 DEF Listing
      <3> QED BY <3>1, <3>2
    <2>2. \A x \in live \cap Heap :
             ListsIn(Kept, subs, x) \/ (IF x \in done' /\ x \in Assigned THEN old[x].custom ELSE x \in custom')
      <3> SUFFICES ASSUME NEW x \in live \cap Heap
                   PROVE  ListsIn(Kept, subs, x) \/ (IF x \in done' /\ x \in Assigned THEN old[x].custom ELSE x \in custom')
        OBVIOUS
      <3>1. CASE x = r
        BY <1>1, <2>1, <3>1
      <3>2. CASE x # r
        BY <1>1, <1>9, <2>0, <3>2 DEF Listing
      <3> QED BY <3>1, <3>2
    <2> QED BY <2>0, <2>2 DEF Listing
  <1>d. Following(live, Kept, mro', custom', rebasing', done', old)
    <2>1. \A b \in Types : OldMroIn(b, done', old, mro') = OldMroIn(b, done, old, mro)
      BY <1>1, <1>5, <1>9 DEF OldMroIn
    <2>2. \A x \in live \ (custom' \cup rebasing') :
             x \in live \ (custom \cup rebasing) /\ mro'[x] = mro[x]
      <3>1. live \subseteq Types
        BY DEF TInv, HierTyped
      <3> QED BY <1>8, <1>9, <3>1
    <2> QED BY <2>1, <2>2 DEF RInv, Following
  <1>e. Fresh(version', done', rebasing')
    <2>1. done \subseteq rebasing
      BY DEF RInv, Fresh
    <2>2. \A dn, rb : dn \subseteq done \cup {r} /\ dn \subseteq rb => Fresh(version', dn, rb)
      BY <1>1, <1>5, ModifiedFresh
    <2> QED BY <1>1, <1>8, <2>1, <2>2
  <1>f. Ordered(version', live, Kept, mro', custom', rebasing', listed')
    <2>1. Ordered(version', live, Kept, mro, custom, rebasing, listed')
      BY <1>1, <1>5, ModifiedOrdered
    <2>2. version'[r] = 0
      BY <1>1, <1>5, ModifiedVersions
    <2>3. \A x \in Types : x # r => /\ mro'[x] = mro[x]
                                    /\ x \in custom' => x \in custom
                                    /\ x \in rebasing' => x \in rebasing
      BY <1>8, <1>9
    <2> QED BY <2>1, <2>2, <2>3 DEF Ordered
  <1>g. Settled(Ended(stack), lock, done', live, Kept, custom', rebasing')
    <2>1. \A x \in live \ (custom' \cup rebasing') : x \in live \ (custom \cup rebasing)
      BY <1>8, <1>9
    <2> QED BY <1>1, <1>4, <1>5, <2>1 DEF RInv, Settled
  <1> QED BY <1>2, <1>3, <1>a, <1>c, <1>d, <1>e, <1>f, <1>g DEF RInv

LEMMA RInvEndUndo ==
  ASSUME LInv, TInv, RInv, EndUndo
  PROVE  RInv'
  <1> DEFINE T == Top.type
  <1>1. /\ stack # <<>> /\ Top.op = "bases" /\ Top.step = "undo" /\ stack' = Below
        /\ Unlocked(T) /\ Records(T) \cap done = {}
        /\ UNCHANGED <<live, bases, mro, subs, custom, rebasing, version, listed>>
    BY DEF EndUndo, AtTop, Pop, hierarchy, versions
  <1>2. bases[T] = Top.before /\ T \in Heap /\ lock[T] = T /\ T # NoClass
    BY <1>1, TopOk DEF FrameOk
  <1>3. Kept' = Kept /\ Assigned' = Assigned \ {T} /\ Ended(stack') = Ended(stack)
    BY <1>1, <1>2, KeptPopped
  <1>4. /\ \A d \in Heap : lock'[d] = IF lock[d] = T THEN NoClass ELSE lock[d]
        /\ \A d \in Heap : lock[d] # T => old'[d] = old[d]
        /\ done' = done
    BY <1>1 DEF Unlocked
  <1>5. \A x \in done : x \in Heap /\ lock[x] # T /\ x # T /\ old'[x] = old[x]
    BY <1>1, <1>2, <1>4 DEF Records, TInv, LocksTyped
  <1> HIDE DEF T
  <1>c. Listing(live, Kept, subs, custom, lock', done, old', Assigned \ {T})
    <2>0. Listing(live, Kept, subs, custom, lock, done, old, Assigned)
      BY DEF RInv
    <2>1. \A x \in live \cap Heap :
             ListsIn(Kept, subs, x) \/ (IF x \in done /\ x \in Assigned \ {T} THEN old'[x].custom ELSE x \in custom)
      BY <1>5, <2>0 DEF Listing
    <2>2. \A x \in Heap : lock'[x] \notin {x, NoClass} => ListsIn(Kept, subs, x)
      BY <1>4, <2>0 DEF Listing
    <2> QED BY <2>0, <2>1, <2>2 DEF Listing
  <1>d. Following(live, Kept, mro, custom, rebasing, done, old')
    <2>1. \A b : OldMroIn(b, done, old', mro) = OldMroIn(b, done, old, mro)
      BY <1>5 DEF OldMroIn
    <2> QED BY <2>1 DEF RInv, Following
  <1>g. Settled(Ended(stack), lock', done, live, Kept, custom, rebasing)
    <2>1. \A x \in Ended(stack) : x # NoClass
      BY KeptFacts, NoClassOutside
    <2> QED BY <1>4, <2>1 DEF RInv, Settled
  <1> QED BY <1>1, <1>3, <1>4, <1>c, <1>d, <1>g DEF RInv

LEMMA RInvEndRebase ==
  ASSUME LInv, TInv, RInv, EndRebase
  PROVE  RInv'
  <1> DEFINE T == Top.type
  <1>1. /\ stack # <<>> /\ Top.op = "bases" /\ Top.step = "finish" /\ stack' = Below
        /\ Unlocked(T)
        /\ UNCHANGED <<live, bases, mro, subs, custom, rebasing, version, listed>>
    BY DEF EndRebase, AtTop, Pop, hierarchy, versions
  <1>2. T \in Heap /\ lock[T] = T /\ T # NoClass /\ T \in Ended(stack) /\ T \notin Assigned
    BY <1>1, TopAssigns
  <1>3. Kept' = Kept /\ Assigned' = Assigned /\ Ended(stack') = Ended(stack) \ {T}
    BY <1>1, KeptPopped
  <1>4. /\ \A d \in Heap : lock'[d] = IF lock[d] = T THEN NoClass ELSE lock[d]
        /\ \A d \in Heap : lock[d] # T => old'[d] = old[d]
        /\ done' = done \ Records(T)
    BY <1>1 DEF Unlocked
  <1>5. \A x \in done : x \in Heap /\ (x \in Records(T) <=> lock[x] = T)
    BY DEF Records, TInv, LocksTyped
  <1>6. \A x \in Records(T) : x \in Heap /\ lock[x] = T /\ x \notin Assigned
    BY <1>2, KeptFacts DEF Records
  <1> HIDE DEF T
  <1>c. Listing(live, Kept, subs, custom, lock', done', old', Assigned)
    <2>0. Listing(live, Kept, subs, custom, lock, done, old, Assigned)
      BY DEF RInv
    <2>1. \A x \in live \cap Heap :
             ListsIn(Kept, subs, x) \/ (IF x \in done' /\ x \in Assigned THEN old'[x].custom ELSE x \in custom)
      BY <1>4, <1>5, <1>6, <2>0 DEF Listing
    <2>2. \A x \in Heap : lock'[x] \notin {x, NoClass} => ListsIn(Kept, subs, x)
      BY <1>4, <2>0 DEF Listing
    <2> QED BY <2>0, <2>1, <2>2 DEF Listing
  <1>d. Following(live, Kept, mro, custom, rebasing, done', old')
    <2> SUFFICES ASSUME NEW x \in live \ (custom \cup rebasing), NEW i \in 2 .. Len(mro[x]),
                        mro[x][i] \in Types
                 PROVE  \E b \in Members(Kept[x]) \cap Types :
                           mro[x][i] \in Members(OldMroIn(b, done', old', mro))
      BY DEF Following
    <2>1. PICK b \in Members(Kept[x]) \cap Types : mro[x][i] \in Members(OldMroIn(b, done, old, mro))
      BY DEF RInv, Following
    <2>2. \A d \in Heap : lock[d] = T => d \notin Members(Kept[x])
      BY <1>2 DEF RInv, Settled
    <2>3. b \in done => lock[b] # T /\ b \in done' /\ old'[b] = old[b]
      BY <1>4, <1>5, <2>2
    <2>4. OldMroIn(b, done', old', mro) = OldMroIn(b, done, old, mro)
      BY <1>4, <2>3 DEF OldMroIn
    <2> QED BY <2>1, <2>4
  <1>e. Fresh(version, done', rebasing)
    BY <1>4 DEF RInv, Fresh
  <1>g. Settled(Ended(stack) \ {T}, lock', done', live, Kept, custom, rebasing)
    <2>1. \A x \in Ended(stack) \ {T} : \A d \in Heap : lock'[d] = x => lock[d] = x /\ lock[d] # T
      BY <1>4, KeptFacts, NoClassOutside
    <2>2. \A d \in Heap : lock[d] # T /\ d \in done => d \in done'
      BY <1>4, <1>5
    <2> QED BY <2>1, <2>2 DEF RInv, Settled
  <1> QED BY <1>1, <1>3, <1>c, <1>d, <1>e, <1>g DEF RInv

LEMMA RInvRebase ==
  ASSUME LInv, TInv, RInv, Rebase
  PROVE  RInv'
  <1> DEFINE T == Top.type
             bs == bases[T]
             new == Members(bs) \cap Types
             Full(n) == "subclass" \in Refused /\ bs[n + 1] \in Types /\ T \notin subs[bs[n + 1]]
  <1>1. /\ stack # <<>> /\ Top.op = "bases" /\ Top.step = "scan"
        /\ Waiting(T) = {} /\ Late(T) = {}
        /\ UNCHANGED <<live, bases, mro, rebasing, lock, done, old>>
    BY DEF Rebase, AtTop, locks
  <1>2. PICK n \in {m \in 0 .. Len(bs) : m < Len(bs) => Full(m)} :
           /\ subs' = [b \in Types |->
                         IF \E i \in 1 .. n : b = bs[i] THEN subs[b] \cup {T}
                         ELSE IF b \in Members(Top.before) \ new THEN subs[b] \ {T} ELSE subs[b]]
           /\ custom' = IF n < Len(bs) THEN custom \cup {T} ELSE custom
           /\ Modified(T)
    BY DEF Rebase
  <1>3. n < Len(bs) => "subclass" \in Refused
    OBVIOUS
  <1>4. /\ T \in live /\ T \in Heap /\ lock[T] = T /\ T # NoClass /\ T \in Assigned
        /\ Kept[T] = Top.before /\ T \notin Ended(stack)
        /\ T \in Types /\ T \in Classes /\ T \notin Static
    BY <1>1, TopAssigns, KeptFacts, ClassFacts
  <1>5. T \in done /\ T \in rebasing /\ \A d \in Heap : lock[d] = T => d \in done /\ d \in rebasing
    BY <1>1, <1>4 DEF Waiting, Records, RInv, Fresh
  <1>6. DOMAIN bs = 1 .. Len(bs) /\ Len(bs) \in Nat
    BY <1>4, BasesTyped
  <1>7. n = Len(bs) \/ n < Len(bs)
    BY <1>6
  <1>8. /\ Kept' = [Kept EXCEPT ![T] = bs]
        /\ Assigned' = Assigned \ {T} /\ Ended(stack') = Ended(stack) \cup {T}
    BY KeptRebase
  <1>9. \A x \in Types : Kept'[x] = IF x = T THEN bs ELSE Kept[x]
    BY <1>4, <1>8, KeptFacts
  <1>10. /\ \A b \in Types : \A x : x # T => (x \in subs'[b] <=> x \in subs[b])
         /\ \A b \in Types : T \in subs'[b] => b \in Members(bs) \/ (T \in subs[b] /\ b \notin Members(Top.before) \ new)
         /\ n = Len(bs) => \A b \in Members(bs) \cap Types : T \in subs'[b]
         /\ n < Len(bs) => T \in custom'
         /\ custom \subseteq custom' /\ \A x : x # T => (x \in custom' <=> x \in custom)
    <2>1. \A b \in Types : \A x : x # T => (x \in subs'[b] <=> x \in subs[b])
      BY <1>2
    <2>2. \A b \in Types : T \in subs'[b] => b \in Members(bs) \/ (T \in subs[b] /\ b \notin Members(Top.before) \ new)
      <3>1. \A i \in 1 .. n : bs[i] \in Members(bs)
        BY <1>6 DEF Members
      <3> QED BY <1>2, <3>1
    <2>3. n = Len(bs) => \A b \in Members(bs) \cap Types : T \in subs'[b]
      BY <1>2, <1>6 DEF Members
    <2> QED BY <1>2, <2>1, <2>2, <2>3
  <1>11. \A b \in new : b \in Members(bs)
    OBVIOUS
  <1>12. \A b \in Members(bs) \cap Types : b \in new
    OBVIOUS
  <1> HIDE DEF Full, new
  <1>a. Statics(mro, bases)
    BY DEF RInv
  <1>b. Chosen(live, Kept', bases)
    BY <1>9, ClassFacts DEF RInv, Chosen
  <1>c. Listing(live, Kept', subs', custom', lock, done, old, Assigned \ {T})
    <2>0. Listing(live, Kept, subs, custom, lock, done, old, Assigned)
      BY DEF RInv
    <2>1. n = Len(bs) => ListsIn(Kept', subs', T)
      BY <1>4, <1>9, <1>10 DEF ListsIn
    <2>2. \A x \in Types : x # T /\ ListsIn(Kept, subs, x) => ListsIn(Kept', subs', x)
      BY <1>9, <1>10 DEF ListsIn
    <2>3. \A x \in live \cap Heap :
             ListsIn(Kept', subs', x) \/ (IF x \in done /\ x \in Assigned \ {T} THEN old[x].custom ELSE x \in custom')
      <3> SUFFICES ASSUME NEW x \in live \cap Heap
                   PROVE  ListsIn(Kept', subs', x) \/ (IF x \in done /\ x \in Assigned \ {T} THEN old[x].custom ELSE x \in custom')
        OBVIOUS
      <3>1. CASE x = T
        BY <1>7, <1>10, <2>1, <3>1
      <3>2. CASE x # T
        BY <1>10, <2>0, <2>2, <3>2, NoClassOutside DEF Listing
      <3> QED BY <3>1, <3>2
    <2>4. \A x \in Heap : lock[x] \notin {x, NoClass} => ListsIn(Kept', subs', x)
      BY <1>4, <2>0, <2>2, NoClassOutside DEF Listing
    <2>5. \A b \in Types : \A x \in subs'[b] : b \in Members(Kept'[x])
      <3> SUFFICES ASSUME NEW b \in Types, NEW x \in subs'[b] PROVE b \in Members(Kept'[x])
        OBVIOUS
      <3>1. CASE x # T
        <4>1. x \in subs[b]
          BY <1>10, <3>1
        <4>2. x \in Types
          BY <4>1, NoClassOutside DEF TInv, HierTyped
        <4> QED BY <1>9, <2>0, <3>1, <4>1, <4>2 DEF Listing
      <3>2. CASE x = T
        <4>1. b \in Members(bs) \/ (T \in subs[b] /\ b \notin Members(Top.before) \ new)
          BY <1>10, <3>2
        <4>2. T \in subs[b] => b \in Members(Kept[T])
          BY <2>0 DEF Listing
        <4> QED BY <1>4, <1>9, <1>11, <3>2, <4>1, <4>2
      <3> QED BY <3>1, <3>2
    <2>6. "subclass" \notin Refused => \A x \in live \cap Heap : ListsIn(Kept', subs', x)
      <3>1. "subclass" \notin Refused => n = Len(bs)
        BY <1>3, <1>7
      <3> QED BY <2>0, <2>1, <2>2, <3>1, NoClassOutside DEF Listing
    <2> QED BY <2>3, <2>4, <2>5, <2>6 DEF Listing
  <1>d. Following(live, Kept', mro, custom', rebasing, done, old)
    <2>1. \A x \in live \ (custom' \cup rebasing) :
             x \in live \ (custom \cup rebasing) /\ Kept'[x] = Kept[x]
      <3>1. live \subseteq Types
        BY DEF TInv, HierTyped
      <3> QED BY <1>5, <1>9, <1>10, <3>1
    <2> QED BY <2>1 DEF RInv, Following
  <1>e. Fresh(version', done, rebasing)
    <2>1. done \subseteq rebasing
      BY DEF RInv, Fresh
    <2>2. \A dn, rb : dn \subseteq done \cup {T} /\ dn \subseteq rb => Fresh(version', dn, rb)
      BY <1>2, <1>4, ModifiedFresh
    <2> QED BY <2>1, <2>2
  <1>f. Ordered(version', live, Kept', mro, custom', rebasing, listed')
    <2>1. Ordered(version', live, Kept, mro, custom, rebasing, listed')
      BY <1>2, <1>4, ModifiedOrdered
    <2>2. version'[T] = 0
      BY <1>2, <1>4, ModifiedVersions
    <2> QED BY <1>9, <1>10, <2>1, <2>2 DEF Ordered
  <1>g. Settled(Ended(stack) \cup {T}, lock, done, live, Kept', custom', rebasing)
    <2>1. \A y \in live \ (custom' \cup rebasing) :
             y \in live \ (custom \cup rebasing) /\ Kept'[y] = Kept[y] /\ y \in Types
      <3>1. live \subseteq Types
        BY DEF TInv, HierTyped
      <3> QED BY <1>5, <1>9, <1>10, <3>1
    <2>2. ASSUME NEW d \in Heap, lock[d] = T, NEW y \in live \ (custom \cup rebasing), y \in Types
          PROVE  d \notin Members(Kept[y])
      <3> SUFFICES ASSUME d \in Members(Kept[y]) PROVE FALSE
        OBVIOUS
      <3>1. CASE y \in Static
        <4>1. Kept[y] = Bases(y)
          BY <3>1, KeptFacts, ClassFacts DEF RInv, Statics
        <4>2. Members(<<>>) = {} /\ Members(<<Root>>) = {Root}
          BY DEF Members
        <4> QED BY <3>1, <4>1, <4>2, ClassFacts DEF Bases
      <3>2. CASE y \in Heap
        <4>1. y \notin done
          BY DEF RInv, Fresh
        <4>2. ListsIn(Kept, subs, y)
          BY <3>2, <4>1 DEF RInv, Listing
        <4>3. y \in subs[d] /\ d \in Records(T)
          BY <2>2, <4>2, NoClassOutside DEF ListsIn, Records
        <4>4. y \in Descendants(Records(T))
          BY <2>2, <4>3, NoClassOutside DEF Descendants
        <4>5. y \in Records(T)
          BY <1>1, <4>4 DEF Late
        <4> QED BY <1>5, <4>5 DEF Records
      <3> QED BY <2>2, <3>1, <3>2, ClassFacts
    <2> QED BY <1>5, <2>1, <2>2 DEF RInv, Settled
  <1> QED BY <1>1, <1>8, <1>a, <1>b, <1>c, <1>d, <1>e, <1>f, <1>g DEF RInv

LEMMA RInvKept ==
  ASSUME Registers, VInv, LInv, TInv, RInv, [Next]_vars
  PROVE  RInv'
  <1>1. CASE UNCHANGED vars
    <2>1. UNCHANGED <<hierarchy, custom, rebasing, locks, versions>> /\ stack' = stack
      BY <1>1 DEF vars
    <2> QED BY <2>1, QuietSame, RInvQuiet DEF LInv
  <1>2. CASE Next
    <2>1. Step
      BY <1>2, NextSteps
    <2>2. CASE Looking
      <3>1. CASE DistrustMro
        BY <3>1, RInvDistrust
      <3>2. CASE GiveVersion
        BY <3>2, RInvGive
      <3>3. CASE \E c \in Classes, k \in Keys : ChangeDict(c, k)
        BY <3>3, RInvChangeDict
      <3>4. CASE ~ DistrustMro /\ ~ GiveVersion /\ \A c \in Classes, k \in Keys : ~ ChangeDict(c, k)
        BY <2>2, <3>4, RInvLooks
      <3> QED BY <3>1, <3>2, <3>3, <3>4
    <2>3. CASE RefreshRecord
      <3>1. UNCHANGED <<hierarchy, custom, rebasing, locks, versions>>
        BY <2>3 DEF RefreshRecord
      <3> QED BY <2>3, <3>1, RefreshQuiet, RInvQuiet
    <2> QED BY <2>1, <2>2, <2>3, RInvCreate, RInvSetBases, RInvDie, RInvMerge, RInvStartMerge,
               RInvEndMerge, RInvRecordLate, RInvFail, RInvUndo, RInvEndUndo, RInvRebase,
               RInvEndRebase DEF Step
  <1> QED BY <1>1, <1>2

\* By induction on versions: a type in an MRO is in the MRO of a base that lists
\* the type, or is the type itself.
LEMMA Reaches ==
  ASSUME VInv, LInv, TInv, RInv, NEW t \in Types, version[t] # 0, NEW c \in Members(mro[t]) \cap Types
  PROVE  t \in Withdrawn(c)
  <1> DEFINE Missed(x) == version[x] # 0 /\ \E d \in Members(mro[x]) \cap Types : x \notin Withdrawn(d)
             Late0 == {version[x] : x \in {y \in Types : Missed(y)}}
  <1> SUFFICES ASSUME t \notin Withdrawn(c) PROVE FALSE
    OBVIOUS
  <1>1. version[t] \in Late0
    OBVIOUS
  <1>2. Late0 \subseteq Nat
    BY DEF VInv, VersionsApart
  <1>3. PICK v \in Late0 : \A w \in Late0 : v <= w
    BY <1>1, <1>2, LeastElement
  <1>4. PICK x \in Types : Missed(x) /\ version[x] = v
    BY <1>3
  <1>5. \A y \in Types : Missed(y) => version[x] <= version[y]
    BY <1>3, <1>4
  <1> HIDE DEF Late0
  <1>6. PICK d \in Members(mro[x]) \cap Types : x \notin Withdrawn(d)
    BY <1>4
  <1>7. /\ x \in live /\ x \notin custom /\ x \notin rebasing /\ x \in Versioned
        /\ \A b \in Members(Kept[x]) \cap Types : version[b] # 0 /\ version[b] < version[x]
    BY <1>4 DEF RInv, Ordered, Versioned
  <1>8. DOMAIN mro[x] = 1 .. Len(mro[x]) /\ mro[x][1] = x /\ Len(mro[x]) \in Nat
    BY <1>7, BasesTyped DEF TInv, HierTyped
  <1>9. PICK i \in 1 .. Len(mro[x]) : d = mro[x][i]
    BY <1>6, <1>8 DEF Members
  <1>10. i # 1
    BY <1>6, <1>7, <1>8, <1>9, WithdrawnItself
  <1>11. i \in 2 .. Len(mro[x])
    BY <1>8, <1>9, <1>10
  <1>12. PICK b \in Members(Kept[x]) \cap Types : d \in Members(OldMroIn(b, done, old, mro))
    BY <1>6, <1>7, <1>9, <1>11 DEF RInv, Following
  <1>13. version[b] # 0 /\ version[b] < version[x] /\ b \notin done
    BY <1>7, <1>12 DEF RInv, Fresh
  <1>14. d \in Members(mro[b])
    BY <1>12, <1>13 DEF OldMroIn
  <1>15. version[x] \in Nat /\ version[b] \in Nat
    BY <1>12 DEF VInv, VersionsApart
  <1>16. ~ Missed(b)
    BY <1>5, <1>12, <1>13, <1>15
  <1>17. b \in Withdrawn(d)
    BY <1>6, <1>13, <1>14, <1>16
  <1>18. x \in Derived(b)
    BY <1>4, <1>12, DerivedFrom
  <1> QED BY <1>6, <1>7, <1>17, <1>18, WithdrawnDerived

LEMMA RInvReaches ==
  ASSUME VInv, LInv, TInv, RInv
  PROVE  ChangesReach
  <1> SUFFICES ASSUME NEW t \in live, version[t] # 0, NEW c \in Members(mro[t])
               PROVE  IF c \in Classic THEN t \in listed ELSE t \in Withdrawn(c)
    BY DEF ChangesReach
  <1>1. t \in Types /\ live \subseteq Types
    BY DEF TInv, HierTyped
  <1>2. CASE c \in Classic
    BY <1>1, <1>2 DEF RInv, Ordered
  <1>3. CASE c \notin Classic
    <2>1. c \in Types
      BY <1>1, <1>3, BasesTyped
    <2> QED BY <1>1, <1>3, <2>1, Reaches
  <1> QED BY <1>2, <1>3

LEMMA ReachInvariant ==
  ASSUME Registers
  PROVE  Spec => [](IInv /\ TInv /\ RInv)
  <1>1. Init => IInv /\ TInv /\ RInv
    BY TInvInit, InitSound, VInvInit, RInvInit DEF IInv
  <1>2. IInv /\ TInv /\ RInv /\ [Next]_vars => IInv' /\ TInv' /\ RInv'
    BY TInvKept, LInvKept, VInvKept, RInvKept DEF IInv
  <1> QED BY <1>1, <1>2, PTL DEF Spec

\* A change to any class in the MRO of a type with a version withdraws the
\* version, whatever code creates, rebases or drops types meanwhile and although
\* the walk stops at types without one, provided that registration with the bases
\* is refused only where no type has two of them (tinypy_internal_type_modified,
\* assign_version, refresh_classic_mro).
THEOREM ChangesAreSeen == Registers => (Spec => []ChangesReach)
  <1> SUFFICES ASSUME Registers PROVE Spec => []ChangesReach
    OBVIOUS
  <1>1. IInv /\ TInv /\ RInv => ChangesReach
    BY RInvReaches DEF IInv
  <1> QED BY <1>1, ReachInvariant, PTL

(***************************************************************************)
(* What caches answer                                                      *)
(***************************************************************************)

\* What a walk of the MRO m finds for the name k where classes define ds.
FoundIn(ds, m, k) ==
    LET at == {i \in DOMAIN m : k \in ds[m[i]]}
    IN  IF at = {} THEN NoClass ELSE m[CHOOSE i \in at : \A j \in at : i <= j]

LEMMA FoundNow ==
  ASSUME NEW m, NEW k
  PROVE  Find(m, k) = FoundIn(defs, m, k)
  BY DEF Find, FoundIn

LEMMA FoundSame ==
  ASSUME NEW ds, NEW es, NEW m, NEW k, \A c \in Members(m) : es[c] = ds[c]
  PROVE  FoundIn(es, m, k) = FoundIn(ds, m, k)
  <1> DEFINE a == {i \in DOMAIN m : k \in es[m[i]]}
             b == {i \in DOMAIN m : k \in ds[m[i]]}
             First(at) == IF at = {} THEN NoClass ELSE m[CHOOSE i \in at : \A j \in at : i <= j]
  <1>1. \A i \in DOMAIN m : es[m[i]] = ds[m[i]]
    BY DEF Members
  <1>2. a = b
    BY <1>1
  <1>3. FoundIn(es, m, k) = First(a) /\ FoundIn(ds, m, k) = First(b)
    BY DEF FoundIn
  <1> HIDE DEF a, b, First
  <1> QED BY <1>2, <1>3

LEMMA NatRange ==
  ASSUME NEW l \in Nat, NEW i \in 1 .. l
  PROVE  i \in Nat
  OBVIOUS

LEMMA NotBefore ==
  ASSUME NEW n \in Nat, NEW l \in Nat, NEW i \in 1 .. l, i \notin 1 .. n - 1
  PROVE  i \in Nat /\ n <= i
  OBVIOUS

LEMMA BothWays ==
  ASSUME NEW p \in Nat, NEW q \in Nat, p <= q, q <= p
  PROVE  p = q
  OBVIOUS

\* A walk that has met no class with the name before the n-th finds what there is.
LEMMA FoundFirst ==
  ASSUME NEW ds, NEW m, NEW k, DOMAIN m = 1 .. Len(m), Len(m) \in Nat, NEW n \in 1 .. Len(m),
         \A j \in 1 .. n - 1 : k \notin ds[m[j]],
         k \in ds[m[n]] \/ n = Len(m)
  PROVE  FoundIn(ds, m, k) = IF k \in ds[m[n]] THEN m[n] ELSE NoClass
  <1> DEFINE at == {i \in DOMAIN m : k \in ds[m[i]]}
             i0 == CHOOSE i \in at : \A j \in at : i <= j
  <1>0. n \in Nat
    BY NatRange
  <1>1. \A i \in at : i \in Nat /\ i \in 1 .. Len(m) /\ n <= i
    <2> SUFFICES ASSUME NEW i \in at PROVE i \in Nat /\ i \in 1 .. Len(m) /\ n <= i
      OBVIOUS
    <2>1. i \in 1 .. Len(m) /\ k \in ds[m[i]]
      OBVIOUS
    <2>2. i \notin 1 .. n - 1
      BY <2>1
    <2> HIDE DEF at
    <2> QED BY <1>0, <2>1, <2>2, NotBefore
  <1>2. CASE k \in ds[m[n]]
    <2>1. n \in at /\ \A j \in at : n <= j
      BY <1>1, <1>2
    <2>2. i0 \in at /\ \A j \in at : i0 <= j
      <3> HIDE DEF at
      <3> QED BY <2>1
    <2>3. i0 <= n /\ n <= i0 /\ i0 \in Nat /\ n \in Nat
      BY <1>1, <2>1, <2>2
    <2>4. i0 = n
      <3> HIDE DEF at, i0
      <3> QED BY <2>3, BothWays
    <2>5. at # {} /\ FoundIn(ds, m, k) = IF at = {} THEN NoClass ELSE m[i0]
      BY <2>1 DEF FoundIn
    <2> HIDE DEF at, i0
    <2> QED BY <1>2, <2>4, <2>5
  <1>3. CASE k \notin ds[m[n]]
    <2>1. n = Len(m)
      BY <1>3
    <2>2. at = {}
      <3> SUFFICES ASSUME NEW i \in at PROVE FALSE
        OBVIOUS
      <3>1. i = n
        BY <1>1, <2>1
      <3> QED BY <1>3, <3>1
    <2>3. FoundIn(ds, m, k) = IF at = {} THEN NoClass ELSE m[i0]
      BY DEF FoundIn
    <2> HIDE DEF at, i0
    <2> QED BY <1>3, <2>2, <2>3
  <1> QED BY <1>2, <1>3

\* Version v was given out before nx, or none is given out any more.
Earlier(v, nx) == nx # 0 => v < nx

\* A lookup under a version its type still has walks the MRO there is, has met
\* no class with the name before the one it is at, and has found what there is
\* when it releases the key of the cache entry.
WalkCurrent(f, vs, nx, ms, ds) ==
    f.op = "lookup" /\ f.step # "start" =>
        /\ Earlier(f.version, nx)
        /\ f.version # 0 /\ vs[f.type] = f.version =>
              /\ f.mro = ms[f.type]
              /\ f.step = "walk" => \A j \in 1 .. f.at - 1 : f.key \notin ds[f.mro[j]]
              /\ f.step = "release" => f.found = FoundIn(ds, f.mro, f.key)

WalksCurrent(s, vs, nx, ms, ds) == \A i \in DOMAIN s : WalkCurrent(s[i], vs, nx, ms, ds)

EntryCurrent(e, vs, ms, ds) ==
    \A t \in Types : vs[t] # 0 /\ e.type = t /\ e.version = vs[t] =>
        e.value = FoundIn(ds, ms[t], e.key)

MemosCurrent(it, vs, nx, ms, ds) ==
    \A t \in Types : /\ Earlier(it[t].version, nx)
                     /\ vs[t] # 0 /\ it[t].version = vs[t] =>
                           it[t].value = FoundIn(ds, ms[t], InitKey)

CInv ==
    /\ WalksCurrent(stack, version, next, mro, defs)
    /\ EntryCurrent(entry, version, mro, defs)
    /\ MemosCurrent(init, version, next, mro, defs)

\* A type that has a version after a step has a new one, or the version, the MRO
\* and the names of its classes it had before.
Holds(vs, nx, ms, ds, vs2, nx2, ms2, ds2) ==
    /\ nx \in Nat /\ nx2 \in Nat
    /\ nx2 # 0 => nx # 0 /\ nx <= nx2
    /\ \A t \in Types : vs2[t] # 0 =>
          \/ vs2[t] = nx
          \/ /\ vs2[t] = vs[t] /\ ms2[t] = ms[t]
             /\ \A c \in Members(ms[t]) : ds2[c] = ds[c]

LEMMA EarlierHeld ==
  ASSUME NEW vs, NEW nx, NEW ms, NEW ds, NEW vs2, NEW nx2, NEW ms2, NEW ds2,
         Holds(vs, nx, ms, ds, vs2, nx2, ms2, ds2), NEW v \in Nat, Earlier(v, nx)
  PROVE  Earlier(v, nx2)
  BY DEF Holds, Earlier

\* An earlier version that a type still has says that nothing has changed.
LEMMA VersionHeld ==
  ASSUME NEW vs, NEW nx, NEW ms, NEW ds, NEW vs2, NEW nx2, NEW ms2, NEW ds2,
         Holds(vs, nx, ms, ds, vs2, nx2, ms2, ds2), NEW t \in Types,
         NEW v \in Nat, v # 0, Earlier(v, nx), vs2[t] = v
  PROVE  /\ vs[t] = v /\ ms2[t] = ms[t]
         /\ \A c \in Members(ms[t]) : ds2[c] = ds[c]
         /\ \A k : FoundIn(ds2, ms2[t], k) = FoundIn(ds, ms[t], k)
  <1>1. vs2[t] # nx
    BY DEF Holds, Earlier
  <1>2. vs2[t] = vs[t] /\ ms2[t] = ms[t] /\ \A c \in Members(ms[t]) : ds2[c] = ds[c]
    BY <1>1 DEF Holds
  <1> QED BY <1>2, FoundSame

LEMMA WalkHeld ==
  ASSUME NEW vs, NEW nx, NEW ms, NEW ds, NEW vs2, NEW nx2, NEW ms2, NEW ds2,
         Holds(vs, nx, ms, ds, vs2, nx2, ms2, ds2), NEW lv, lv \subseteq Types, NEW lk,
         NEW f, FrameTyped(f, lv, lk), WalkCurrent(f, vs, nx, ms, ds)
  PROVE  WalkCurrent(f, vs2, nx2, ms2, ds2)
  <1> SUFFICES ASSUME f.op = "lookup", f.step # "start"
               PROVE  /\ Earlier(f.version, nx2)
                      /\ f.version # 0 /\ vs2[f.type] = f.version =>
                            /\ f.mro = ms2[f.type]
                            /\ f.step = "walk" => \A j \in 1 .. f.at - 1 : f.key \notin ds2[f.mro[j]]
                            /\ f.step = "release" => f.found = FoundIn(ds2, f.mro, f.key)
    BY DEF WalkCurrent
  <1>1. /\ f.type \in Types /\ f.version \in Nat /\ f.mro \in Seq(lv \cup Classic)
        /\ f.step = "walk" => f.at \in 1 .. Len(f.mro)
    BY DEF FrameTyped
  <1>2. Earlier(f.version, nx)
    BY DEF WalkCurrent
  <1>3. Earlier(f.version, nx2)
    BY <1>1, <1>2, EarlierHeld
  <1>4. ASSUME f.version # 0, vs2[f.type] = f.version
        PROVE  /\ f.mro = ms2[f.type]
               /\ f.step = "walk" => \A j \in 1 .. f.at - 1 : f.key \notin ds2[f.mro[j]]
               /\ f.step = "release" => f.found = FoundIn(ds2, f.mro, f.key)
    <2>1. /\ vs[f.type] = f.version /\ ms2[f.type] = ms[f.type]
          /\ \A c \in Members(ms[f.type]) : ds2[c] = ds[c]
          /\ FoundIn(ds2, ms2[f.type], f.key) = FoundIn(ds, ms[f.type], f.key)
      <3> DEFINE t == f.type
                 v == f.version
      <3>1. t \in Types /\ v \in Nat /\ v # 0 /\ Earlier(v, nx) /\ vs2[t] = v
        BY <1>1, <1>2, <1>4
      <3> HIDE DEF t, v
      <3>2. /\ vs[t] = v /\ ms2[t] = ms[t]
            /\ \A c \in Members(ms[t]) : ds2[c] = ds[c]
            /\ \A k : FoundIn(ds2, ms2[t], k) = FoundIn(ds, ms[t], k)
        BY <3>1, VersionHeld
      <3> QED BY <3>2 DEF t, v
    <2>2. /\ f.mro = ms[f.type]
          /\ f.step = "walk" => \A j \in 1 .. f.at - 1 : f.key \notin ds[f.mro[j]]
          /\ f.step = "release" => f.found = FoundIn(ds, f.mro, f.key)
      BY <1>4, <2>1 DEF WalkCurrent
    <2>3. ASSUME f.step = "walk", NEW j \in 1 .. f.at - 1
          PROVE  f.key \notin ds2[f.mro[j]]
      <3>1. DOMAIN f.mro = 1 .. Len(f.mro) /\ Len(f.mro) \in Nat /\ f.at \in 1 .. Len(f.mro)
        BY <1>1, <2>3
      <3>2. j \in DOMAIN f.mro
        BY <3>1
      <3>3. f.mro[j] \in Members(f.mro)
        BY <3>2 DEF Members
      <3> QED BY <2>1, <2>2, <2>3, <3>3
    <2> QED BY <2>1, <2>2, <2>3
  <1> QED BY <1>3, <1>4

\* What was current before a step is after it.
LEMMA CurrentHeld ==
  ASSUME NEW vs, NEW nx, NEW ms, NEW ds, NEW vs2, NEW nx2, NEW ms2, NEW ds2,
         Holds(vs, nx, ms, ds, vs2, nx2, ms2, ds2)
  PROVE  /\ \A s, lv, lk : lv \subseteq Types /\ FramesTyped(s, lv, lk) /\ WalksCurrent(s, vs, nx, ms, ds)
               => WalksCurrent(s, vs2, nx2, ms2, ds2)
         /\ \A e : e.version \in Nat /\ Earlier(e.version, nx) /\ EntryCurrent(e, vs, ms, ds)
               => EntryCurrent(e, vs2, ms2, ds2)
         /\ \A it : (\A t \in Types : it[t].version \in Nat) /\ MemosCurrent(it, vs, nx, ms, ds)
               => MemosCurrent(it, vs2, nx2, ms2, ds2)
  <1>1. ASSUME NEW s, NEW lv, NEW lk, lv \subseteq Types, FramesTyped(s, lv, lk),
               WalksCurrent(s, vs, nx, ms, ds)
        PROVE  WalksCurrent(s, vs2, nx2, ms2, ds2)
    <2> SUFFICES ASSUME NEW i \in DOMAIN s PROVE WalkCurrent(s[i], vs2, nx2, ms2, ds2)
      BY DEF WalksCurrent
    <2>1. FrameTyped(s[i], lv, lk) /\ WalkCurrent(s[i], vs, nx, ms, ds)
      BY <1>1 DEF FramesTyped, WalksCurrent
    <2> QED BY <1>1, <2>1, WalkHeld
  <1>2. ASSUME NEW e, e.version \in Nat, Earlier(e.version, nx), EntryCurrent(e, vs, ms, ds)
        PROVE  EntryCurrent(e, vs2, ms2, ds2)
    <2> SUFFICES ASSUME NEW t \in Types, vs2[t] # 0, e.type = t, e.version = vs2[t]
                 PROVE  e.value = FoundIn(ds2, ms2[t], e.key)
      BY DEF EntryCurrent
    <2>1. vs[t] = e.version /\ FoundIn(ds2, ms2[t], e.key) = FoundIn(ds, ms[t], e.key)
      BY <1>2, VersionHeld
    <2> QED BY <1>2, <2>1 DEF EntryCurrent
  <1>3. ASSUME NEW it, \A t \in Types : it[t].version \in Nat, MemosCurrent(it, vs, nx, ms, ds)
        PROVE  MemosCurrent(it, vs2, nx2, ms2, ds2)
    <2> SUFFICES ASSUME NEW t \in Types
                 PROVE  /\ Earlier(it[t].version, nx2)
                        /\ vs2[t] # 0 /\ it[t].version = vs2[t] =>
                              it[t].value = FoundIn(ds2, ms2[t], InitKey)
      BY DEF MemosCurrent
    <2>1. it[t].version \in Nat /\ Earlier(it[t].version, nx)
      BY <1>3 DEF MemosCurrent
    <2>2. Earlier(it[t].version, nx2)
      BY <2>1, EarlierHeld
    <2>3. ASSUME vs2[t] # 0, it[t].version = vs2[t]
          PROVE  it[t].value = FoundIn(ds2, ms2[t], InitKey)
      <3>1. vs[t] = it[t].version /\ FoundIn(ds2, ms2[t], InitKey) = FoundIn(ds, ms[t], InitKey)
        BY <2>1, <2>3, VersionHeld
      <3> QED BY <1>3, <2>3, <3>1 DEF MemosCurrent
    <2> QED BY <2>2, <2>3
  <1> QED BY <1>1, <1>2, <1>3

(***************************************************************************)
(* Steps leave what has a version alone                                    *)
(***************************************************************************)

LEMMA VersionFacts ==
  ASSUME VInv, TInv
  PROVE  /\ next \in Nat /\ Earlier(0, next) /\ entry.version \in Nat /\ Earlier(entry.version, next)
         /\ DOMAIN version = Types /\ DOMAIN mro = Types /\ DOMAIN defs = Classes
         /\ \A t \in Types : /\ version[t] \in Nat /\ Earlier(version[t], next)
                            /\ init[t].version \in Nat
         /\ DOMAIN init = Types
  <1>1. /\ next \in Nat /\ (next # 0 => 0 < next)
        /\ entry.version \in Nat /\ (next # 0 => entry.version < next)
    BY DEF VInv, VersionsApart
  <1>2. \A t \in Types : version[t] \in Nat /\ (version[t] # 0 /\ next # 0 => version[t] < next)
    BY DEF VInv, VersionsApart
  <1>3. DOMAIN version = Types /\ DOMAIN mro = Types /\ DOMAIN defs = Classes /\ DOMAIN init = Types
    BY DEF TInv, DataTyped, HierTyped
  <1>4. \A t \in Types : init[t].version \in Nat
    BY DEF TInv, DataTyped
  <1>5. \A t \in Types : Earlier(version[t], next)
    BY <1>1, <1>2 DEF Earlier
  <1>6. Earlier(0, next) /\ Earlier(entry.version, next)
    BY <1>1 DEF Earlier
  <1> QED BY <1>1, <1>2, <1>3, <1>4, <1>5, <1>6

LEMMA HoldsSame ==
  ASSUME VInv, TInv, version' = version, next' = next, mro' = mro, defs' = defs
  PROVE  Holds(version, next, mro, defs, version', next', mro', defs')
  BY VersionFacts DEF Holds

\* Type r, or no type, loses its version and gets another MRO.
LEMMA HoldsModified ==
  ASSUME VInv, TInv, NEW r \in Types, Modified(r), defs' = defs,
         mro' = mro \/ \E m : mro' = [mro EXCEPT ![r] = m]
  PROVE  Holds(version, next, mro, defs, version', next', mro', defs')
  <1>1. /\ \A t \in Types : version'[t] = 0 \/ version'[t] = version[t]
        /\ version'[r] = 0
    BY ModifiedVersions, ClassFacts
  <1>2. next' = next /\ next \in Nat /\ DOMAIN mro = Types
    BY VersionFacts DEF Modified
  <1>3. \A t \in Types : t # r => mro'[t] = mro[t]
    BY <1>2
  <1> QED BY <1>1, <1>2, <1>3 DEF Holds

LEMMA HoldsChangeDict ==
  ASSUME VInv, LInv, TInv, RInv, NEW c \in Classes, NEW k \in Keys, ChangeDict(c, k)
  PROVE  Holds(version, next, mro, defs, version', next', mro', defs')
  <1>1. Modified(c) /\ mro' = mro /\ \E n : defs' = [defs EXCEPT ![c] = n]
    BY DEF ChangeDict, hierarchy
  <1>2. \A t \in Types : version'[t] = 0 \/ version'[t] = version[t]
    BY <1>1, ModifiedVersions
  <1>3. next' = next /\ next \in Nat /\ DOMAIN defs = Classes
    BY <1>1, VersionFacts DEF Modified
  <1>4. ASSUME NEW t \in Types, version'[t] # 0
        PROVE  c \notin Members(mro[t])
    <2> SUFFICES ASSUME c \in Members(mro[t]) PROVE FALSE
      OBVIOUS
    <2>1. version[t] # 0 /\ t \in live /\ t \in Versioned
      BY <1>2, <1>4 DEF RInv, Ordered, Versioned
    <2>2. CASE c \in Classic
      <3>1. version' = Without(UNION {Withdrawn(x) : x \in listed})
        BY <1>1, <2>2 DEF Modified
      <3>2. t \in listed
        BY <2>1, <2>2, RInvReaches DEF ChangesReach
      <3>3. t \in Withdrawn(t)
        BY <2>1, WithdrawnItself
      <3>4. t \in UNION {Withdrawn(x) : x \in listed}
        BY <3>2, <3>3
      <3> QED BY <1>4, <3>1, <3>4 DEF Without
    <2>3. CASE c \notin Classic
      <3>1. version' = Without(Withdrawn(c)) /\ t \in Withdrawn(c)
        BY <1>1, <2>1, <2>3, RInvReaches DEF Modified, ChangesReach
      <3> QED BY <1>4, <3>1 DEF Without
    <2> QED BY <2>2, <2>3
  <1>5. \A t \in Types : Members(mro[t]) \subseteq Classes
    BY BasesTyped, ClassFacts DEF TInv, HierTyped
  <1>6. ASSUME NEW t \in Types, version'[t] # 0, NEW d \in Members(mro[t])
        PROVE  defs'[d] = defs[d]
    BY <1>1, <1>3, <1>4, <1>5, <1>6
  <1> QED BY <1>1, <1>2, <1>3, <1>6 DEF Holds

LEMMA HoldsGive ==
  ASSUME VInv, TInv, GiveVersion
  PROVE  Holds(version, next, mro, defs, version', next', mro', defs')
  <1>1. mro' = mro /\ defs' = defs
    BY DEF GiveVersion, hierarchy
  <1>2. CASE UNCHANGED versions
    BY <1>1, <1>2, HoldsSame DEF versions
  <1>3. CASE version' = [version EXCEPT ![Top.type] = next] /\ next' = Counted(next)
    <2>1. next \in 0 .. MaxVersion /\ MaxVersion \in Nat \ {0}
      BY TypesAssumption DEF VInv, VersionsApart
    <2>2. next' \in Nat /\ (next' # 0 => next # 0 /\ next <= next')
      <3>1. CASE next = 0
        BY <1>3, <3>1 DEF Counted
      <3>2. CASE next = MaxVersion
        BY <1>3, <2>1, <3>2 DEF Counted
      <3>3. CASE next # 0 /\ next # MaxVersion
        <4>1. next + 1 \in 0 .. MaxVersion /\ next \in Nat
          BY <2>1, <3>3
        <4>2. (next + 1) % (MaxVersion + 1) = next + 1
          BY <2>1, <4>1
        <4>3. next' = next + 1
          BY <1>3, <3>3, <4>2 DEF Counted
        <4> QED BY <3>3, <4>1, <4>3
      <3> QED BY <3>1, <3>2, <3>3
    <2>3. \A t \in Types : version'[t] = next \/ version'[t] = version[t]
      BY <1>3, VersionFacts
    <2>4. next \in Nat
      BY <2>1
    <2> QED BY <1>1, <2>2, <2>3, <2>4 DEF Holds
  <1> QED BY <1>2, <1>3 DEF GiveVersion

LEMMA HoldsCreate ==
  ASSUME VInv, TInv, RInv, NEW t \in Heap, NEW bs, Create(t, bs)
  PROVE  Holds(version, next, mro, defs, version', next', mro', defs')
  <1>1. /\ t \notin live /\ version' = version /\ next' = next /\ defs' = defs
        /\ \E m : mro' = [mro EXCEPT ![t] = m]
    BY DEF Create, versions
  <1>2. version[t] = 0
    BY <1>1, ClassFacts DEF RInv, Ordered
  <1>3. \A x \in Types : x # t => mro'[x] = mro[x]
    BY <1>1, VersionFacts
  <1> QED BY <1>1, <1>2, <1>3, VersionFacts DEF Holds

LEMMA HoldsDie ==
  ASSUME VInv, TInv, RInv, NEW t \in Heap, Die(t)
  PROVE  Holds(version, next, mro, defs, version', next', mro', defs')
  <1>1. /\ ~ Referenced(t) /\ next' = next /\ mro' = [mro EXCEPT ![t] = <<>>]
        /\ version' = [version EXCEPT ![t] = 0] /\ defs' = [defs EXCEPT ![t] = {}]
    BY DEF Die
  <1>2. t \in Types
    BY ClassFacts
  <1>3. version'[t] = 0 /\ \A x \in Types : x # t => version'[x] = version[x] /\ mro'[x] = mro[x]
    BY <1>1, <1>2, VersionFacts
  <1>4. ASSUME NEW x \in Types, x # t, version[x] # 0, NEW c \in Members(mro[x])
        PROVE  defs'[c] = defs[c]
    <2>1. x \in live \ {t}
      BY <1>4 DEF RInv, Ordered
    <2>2. c # t
      BY <1>1, <2>1, <1>4 DEF Referenced
    <2>3. c \in Classes
      BY <1>4, BasesTyped, ClassFacts DEF TInv, HierTyped
    <2> QED BY <1>1, <2>2, <2>3, VersionFacts
  <1> QED BY <1>1, <1>3, <1>4, VersionFacts DEF Holds

\* The steps of Next, by what they do to versions, MROs and names.
LEMMA StepHolds ==
  ASSUME VInv, LInv, TInv, RInv, Step
  PROVE  Holds(version, next, mro, defs, version', next', mro', defs')
  <1>1. CASE Looking
    <2>1. ASSUME NEW c \in Classes, NEW k \in Keys, ChangeDict(c, k)
          PROVE  Holds(version, next, mro, defs, version', next', mro', defs')
      BY <2>1, HoldsChangeDict
    <2>2. CASE GiveVersion
      BY <2>2, HoldsGive
    <2>3. CASE AskBase \/ RefuseVersion \/ DistrustMro \/ AnswerAtOnce \/ StartWalk \/ ProbeMiss
               \/ EndUncached \/ EndCached \/ KeyReleased
               \/ \E t \in Types, use \in {"plain", "init", "fin"}, k \in Keys : Lookup(t, use, k)
      <3>1. UNCHANGED <<hierarchy, defs, versions>>
        BY <2>3 DEF AskBase, RefuseVersion, DistrustMro, AnswerAtOnce, StartWalk, ProbeMiss,
                    EndUncached, EndCached, KeyReleased, Lookup
      <3> QED BY <3>1, HoldsSame DEF hierarchy, versions
    <2> QED BY <1>1, <2>1, <2>2, <2>3 DEF Looking
  <1>2. CASE StartMerge \/ RecordLate \/ Fail \/ EndUndo \/ RefreshRecord \/ EndRebase
             \/ \E t \in Heap : \E bs \in NewBases[t], strange \in BOOLEAN : SetBases(t, bs, strange)
    <2>1. mro' = mro /\ defs' = defs /\ UNCHANGED versions
      BY <1>2 DEF StartMerge, RecordLate, Fail, EndUndo, RefreshRecord, EndRebase, SetBases, hierarchy
    <2> QED BY <2>1, HoldsSame DEF versions
  <1>3. CASE Merge
    <2>1. PICK r \in InTurn(Top.type) \ odd : \E m \in Merges(r) : Install(r, m)
      BY <1>3 DEF Merge
    <2>2. r \in Types /\ Modified(r) /\ \E m : mro' = [mro EXCEPT ![r] = m]
      BY <2>1, ClassFacts DEF Install, InTurn, Waiting, Records
    <2>3. defs' = defs
      BY <1>3 DEF Merge
    <2> QED BY <2>2, <2>3, HoldsModified
  <1>4. CASE EndMerge
    <2>1. /\ stack # <<>> /\ Top.op = "bases" /\ Top.step = "compute"
          /\ defs' = defs /\ Modified(Top.current)
          /\ \E m : mro' = [mro EXCEPT ![Top.current] = m]
      BY <1>4 DEF EndMerge, Install, AtTop
    <2>2. Top.current \in Types
      BY <2>1, TopOk, ClassFacts DEF FrameOk
    <2> QED BY <2>1, <2>2, HoldsModified
  <1>5. CASE Undo
    <2>1. PICK r \in Records(Top.type) \cap done : Modified(r) /\ \E m : mro' = [mro EXCEPT ![r] = m]
      BY <1>5 DEF Undo
    <2>2. r \in Types /\ defs' = defs
      BY <1>5, ClassFacts DEF Undo, Records
    <2> QED BY <2>1, <2>2, HoldsModified
  <1>6. CASE Rebase
    <2>1. stack # <<>> /\ Modified(Top.type) /\ mro' = mro /\ defs' = defs
      BY <1>6 DEF Rebase, AtTop
    <2>2. Top.type \in Types
      BY <2>1, TopTyped DEF FrameTyped, TInv, HierTyped
    <2> QED BY <2>1, <2>2, HoldsModified
  <1> QED BY <1>1, <1>2, <1>3, <1>4, <1>5, <1>6, HoldsCreate, HoldsDie DEF Step

(***************************************************************************)
(* Steps leave lookups, the cache entry and memos current                  *)
(***************************************************************************)

\* An operation that has not begun to walk an MRO.
Idle(f) == f.op # "lookup" \/ f.step = "start"

LEMMA WalksOn ==
  ASSUME NEW s, NEW t, NEW F, NewOn(t, s, F), NEW vs, NEW nx, NEW ms, NEW ds,
         WalksCurrent(s, vs, nx, ms, ds), \A f \in F : Idle(f) \/ WalkCurrent(f, vs, nx, ms, ds)
  PROVE  WalksCurrent(t, vs, nx, ms, ds)
  <1>1. \A f \in F : WalkCurrent(f, vs, nx, ms, ds)
    BY DEF Idle, WalkCurrent
  <1> QED BY <1>1 DEF WalksCurrent, NewOn

\* What was current is so after a step, as far as it is still there.
LEMMA CInvHeld ==
  ASSUME VInv, TInv, CInv, Holds(version, next, mro, defs, version', next', mro', defs')
  PROVE  /\ WalksCurrent(stack, version', next', mro', defs')
         /\ EntryCurrent(entry, version', mro', defs')
         /\ MemosCurrent(init, version', next', mro', defs')
  <1>1. /\ live \subseteq Types /\ FramesTyped(stack, live, lock)
        /\ WalksCurrent(stack, version, next, mro, defs)
        /\ EntryCurrent(entry, version, mro, defs)
        /\ MemosCurrent(init, version, next, mro, defs)
    BY DEF TInv, HierTyped, CInv
  <1>2. /\ entry.version \in Nat /\ Earlier(entry.version, next)
        /\ \A t \in Types : init[t].version \in Nat
    BY VersionFacts
  <1> QED BY <1>1, <1>2, CurrentHeld

\* A step that begins no walk, and leaves the cache entry and the memos.
LEMMA CInvIdle ==
  ASSUME VInv, TInv, CInv, Holds(version, next, mro, defs, version', next', mro', defs'),
         NEW F, NewOn(stack', stack, F), \A f \in F : Idle(f),
         entry' = entry, init' = init
  PROVE  CInv'
  <1>1. /\ WalksCurrent(stack, version', next', mro', defs')
        /\ EntryCurrent(entry, version', mro', defs')
        /\ MemosCurrent(init, version', next', mro', defs')
    BY CInvHeld
  <1>2. WalksCurrent(stack', version', next', mro', defs')
    BY <1>1, WalksOn
  <1> QED BY <1>1, <1>2 DEF CInv

LEMMA IdleFrames ==
  /\ \A t : Idle(Wants(t))
  /\ \A t, use, k : Idle(Looks(t, use, k))
  BY DEF Idle, Wants, Looks

\* Assignments, and creation.
LEMMA CInvAssigning ==
  ASSUME VInv, LInv, TInv, RInv, CInv, Step, ~ Looking, ~ \E t \in Heap : Die(t)
  PROVE  CInv'
  <1>0. Sequence(stack)
    BY DEF LInv, StackNamed
  <1>1. entry' = entry /\ init' = init
    BY DEF Step, Create, SetBases, Merge, StartMerge, EndMerge, RecordLate, Fail, Undo,
           EndUndo, Rebase, RefreshRecord, EndRebase, cache, memos
  <1>2. \E F : NewOn(stack', stack, F) /\ \A f \in F : Idle(f)
    <2>1. ASSUME NEW t, NEW bs, Create(t, bs)
          PROVE  \E F : NewOn(stack', stack, F) /\ \A f \in F : Idle(f)
      <3>1. NewOn(stack', stack, {Looks(t, "has", DelKey), Wants(t)})
        BY <1>0, <2>1, AssigningFrames
      <3> QED BY <3>1, IdleFrames
    <2>2. ASSUME NEW t, NEW bs, NEW strange, SetBases(t, bs, strange)
          PROVE  \E F : NewOn(stack', stack, F) /\ \A f \in F : Idle(f)
      <3>1. Idle(Assigning(t))
        BY DEF Idle, Assigning
      <3>2. NewOn(stack', stack, {Assigning(t)})
        BY <1>0, <2>2, AssigningFrames
      <3> QED BY <3>1, <3>2
    <2>3. CASE Merge \/ RecordLate \/ Undo
      <3>1. stack' = stack
        BY <1>0, <2>3, AssigningFrames
      <3>2. NewOn(stack', stack, {})
        BY <3>1 DEF NewOn
      <3> QED BY <3>2
    <2>4. CASE StartMerge \/ EndMerge \/ Fail \/ Rebase
      <3>1. stack # <<>> /\ Top.op = "bases"
        BY <2>4 DEF StartMerge, EndMerge, Fail, Rebase, AtTop
      <3>2. BaseFields \subseteq DOMAIN Top
        BY <3>1, BasesFields
      <3>3. \A r : Computing(r).op = "bases"
        BY <3>1, <3>2 DEF Computing, BaseFields
      <3>4. Scanning.op = "bases" /\ Undoing.op = "bases" /\ Finishing.op = "bases"
        BY <3>1, <3>2 DEF Scanning, Undoing, Finishing, BaseFields
      <3>5. \E f : NewOn(stack', stack, {f}) /\ f.op = "bases"
        BY <1>0, <2>4, <3>3, <3>4, AssigningFrames
      <3> QED BY <3>5 DEF Idle
    <2>5. CASE RefreshRecord
      <3>1. stack # <<>> /\ Top.op = "bases"
        BY <2>5 DEF RefreshRecord, AtTop
      <3>2. BaseFields \subseteq DOMAIN Top
        BY <3>1, BasesFields
      <3>3. PICK r \in Top.todo :
               NewOn(stack', stack, {Refreshing(r), Looks(r, "has", DelKey), Wants(r)})
        BY <1>0, <2>5, AssigningFrames
      <3>4. Idle(Refreshing(r))
        BY <3>1, <3>2 DEF Refreshing, BaseFields, Idle
      <3> QED BY <3>3, <3>4, IdleFrames
    <2>6. CASE EndUndo \/ EndRebase
      <3>1. NewOn(stack', stack, {})
        BY <1>0, <2>6, AssigningFrames
      <3> QED BY <3>1
    <2> QED BY <2>1, <2>2, <2>3, <2>4, <2>5, <2>6 DEF Step
  <1>3. Holds(version, next, mro, defs, version', next', mro', defs')
    BY StepHolds
  <1> QED BY <1>1, <1>2, <1>3, CInvIdle

\* The memos of a class that dies are gone.
LEMMA CInvDie ==
  ASSUME VInv, LInv, TInv, RInv, CInv, NEW t \in Heap, Die(t)
  PROVE  CInv'
  <1>1. /\ stack' = stack /\ entry' = entry /\ init' = [init EXCEPT ![t] = None]
        /\ version' = [version EXCEPT ![t] = 0] /\ next' = next
    BY DEF Die, cache
  <1>2. Holds(version, next, mro, defs, version', next', mro', defs')
    BY HoldsDie
  <1>3. /\ WalksCurrent(stack, version', next', mro', defs')
        /\ EntryCurrent(entry, version', mro', defs')
        /\ MemosCurrent(init, version', next', mro', defs')
    BY <1>2, CInvHeld
  <1>4. t \in Types /\ DOMAIN init = Types /\ DOMAIN version = Types /\ Earlier(0, next)
    BY ClassFacts, VersionFacts
  <1>5. version'[t] = 0 /\ init'[t].version = 0 /\ \A x \in Types : x # t => init'[x] = init[x]
    BY <1>1, <1>4 DEF None
  <1>6. MemosCurrent(init', version', next', mro', defs')
    BY <1>1, <1>3, <1>4, <1>5 DEF MemosCurrent
  <1> QED BY <1>1, <1>3, <1>6 DEF CInv

\* A memo of the constructor is given what is found under an earlier version.
LEMMA PublishCurrent ==
  ASSUME VInv, TInv, CInv, NEW t \in Types, NEW use, NEW v \in Nat, NEW value,
         Publish(t, use, v, value), Earlier(v, next),
         use = "init" /\ v # 0 /\ version[t] = v => value = FoundIn(defs, mro[t], InitKey)
  PROVE  MemosCurrent(init', version, next, mro, defs)
  <1>1. MemosCurrent(init, version, next, mro, defs) /\ DOMAIN init = Types
    BY VersionFacts DEF CInv
  <1>2. CASE use = "init" /\ version[t] = v
    <2>1. init' = [init EXCEPT ![t] = [version |-> v, value |-> value]]
      BY <1>2 DEF Publish
    <2>2. init'[t].version = v /\ init'[t].value = value
          /\ \A x \in Types : x # t => init'[x] = init[x]
      BY <1>1, <2>1
    <2> QED BY <1>1, <1>2, <2>2 DEF MemosCurrent
  <1>3. CASE ~ (use = "init" /\ version[t] = v)
    <2>1. init' = init
      BY <1>3 DEF Publish
    <2> QED BY <1>1, <2>1
  <1> QED BY <1>2, <1>3

\* A walk that ends under a version its type still has found what there is.
LEMMA ProbedCurrent ==
  ASSUME LInv, TInv, CInv, AtTop("lookup", "walk"), Ends, Top.version # 0,
         version[Top.type] = Top.version
  PROVE  /\ Top.mro = mro[Top.type]
         /\ Probed = FoundIn(defs, mro[Top.type], Top.key)
  <1>1. /\ stack # <<>> /\ Top.op = "lookup" /\ Top.step = "walk"
    BY DEF AtTop
  <1>2. FrameTyped(Top, live, lock) /\ Len(stack) \in DOMAIN stack /\ Top = stack[Len(stack)]
    BY <1>1, TopTyped
  <1>3. WalkCurrent(Top, version, next, mro, defs)
    BY <1>2 DEF CInv, WalksCurrent
  <1>4. Top.mro = mro[Top.type] /\ \A j \in 1 .. Top.at - 1 : Top.key \notin defs[Top.mro[j]]
    BY <1>1, <1>3 DEF WalkCurrent
  <1>5. Top.mro \in Seq(live \cup Classic) /\ Top.at \in 1 .. Len(Top.mro)
    BY <1>1, <1>2 DEF FrameTyped
  <1>6. DOMAIN Top.mro = 1 .. Len(Top.mro) /\ Len(Top.mro) \in Nat
    BY <1>5
  <1>7. Top.key \in defs[Top.mro[Top.at]] \/ Top.at = Len(Top.mro)
    BY DEF Ends
  <1>8. FoundIn(defs, Top.mro, Top.key) =
           IF Top.key \in defs[Top.mro[Top.at]] THEN Top.mro[Top.at] ELSE NoClass
    BY <1>4, <1>5, <1>6, <1>7, FoundFirst
  <1> QED BY <1>4, <1>8 DEF Probed

\* The lookup on top.
LEMMA TopLooks ==
  ASSUME LInv, TInv, CInv, stack # <<>>, Top.op = "lookup"
  PROVE  /\ FrameTyped(Top, live, lock) /\ LookFields \subseteq DOMAIN Top
         /\ Top.type \in Types /\ Top.version \in Nat /\ Top.key \in Keys
         /\ Top.mro \in Seq(live \cup Classic)
         /\ Top.use = "init" => Top.key = InitKey
         /\ WalkCurrent(Top, version, next, mro, defs)
  <1>1. FrameTyped(Top, live, lock) /\ Len(stack) \in DOMAIN stack /\ Top = stack[Len(stack)]
    BY TopTyped
  <1>2. WalkCurrent(Top, version, next, mro, defs)
    BY <1>1 DEF CInv, WalksCurrent
  <1> QED BY <1>1, <1>2 DEF FrameTyped, TInv, HierTyped

LEMMA CInvAnswer ==
  ASSUME VInv, LInv, TInv, CInv, AnswerAtOnce
  PROVE  CInv'
  <1>1. /\ stack # <<>> /\ Top.op = "lookup"
        /\ UNCHANGED <<version, next, mro, defs, entry>>
    BY DEF AnswerAtOnce, AtTop, hierarchy, versions, cache
  <1>2. Sequence(stack) /\ NewOn(stack', stack, {})
    BY LookingFrames DEF LInv, StackNamed
  <1>3. WalksCurrent(stack', version, next, mro, defs)
    BY <1>2, WalksOn DEF CInv
  <1>4. MemosCurrent(init', version, next, mro, defs)
    <2>1. CASE UNCHANGED memos
      BY <2>1 DEF CInv, memos
    <2>2. CASE /\ Hit(Top.type, Top.key)
               /\ Publish(Top.type, Top.use, version[Top.type], entry.value)
      <3>1. /\ Top.type \in Types /\ version[Top.type] \in Nat /\ Earlier(version[Top.type], next)
            /\ Top.use = "init" => Top.key = InitKey
        BY <1>1, TopLooks, VersionFacts
      <3>2. entry.value = FoundIn(defs, mro[Top.type], Top.key)
        BY <2>2, <3>1 DEF Hit, CInv, EntryCurrent
      <3> QED BY <2>2, <3>1, <3>2, PublishCurrent
    <2> QED BY <2>1, <2>2 DEF AnswerAtOnce
  <1> QED BY <1>1, <1>3, <1>4 DEF CInv

LEMMA CInvStartWalk ==
  ASSUME VInv, LInv, TInv, CInv, StartWalk
  PROVE  CInv'
  <1>1. /\ stack # <<>> /\ Top.op = "lookup"
        /\ UNCHANGED <<version, next, mro, defs, entry, init>>
    BY DEF StartWalk, AtTop, hierarchy, versions, cache, memos
  <1>2. Sequence(stack) /\ NewOn(stack', stack, {Walking})
    BY LookingFrames DEF LInv, StackNamed
  <1>3. /\ Top.type \in Types /\ LookFields \subseteq DOMAIN Top
        /\ Earlier(version[Top.type], next)
    BY <1>1, TopLooks, VersionFacts
  <1>4. /\ Walking.type = Top.type /\ Walking.step = "walk" /\ Walking.version = version[Top.type]
        /\ Walking.mro = mro[Top.type] /\ Walking.at = 1
    BY <1>3 DEF Walking, LookFields
  <1>5. WalkCurrent(Walking, version, next, mro, defs)
    BY <1>3, <1>4 DEF WalkCurrent
  <1>6. WalksCurrent(stack', version, next, mro, defs)
    BY <1>2, <1>5, WalksOn DEF CInv
  <1> QED BY <1>1, <1>6 DEF CInv

LEMMA CInvProbeMiss ==
  ASSUME VInv, LInv, TInv, CInv, ProbeMiss
  PROVE  CInv'
  <1>1. /\ stack # <<>> /\ Top.op = "lookup" /\ Top.step = "walk"
        /\ Top.key \notin defs[Top.mro[Top.at]]
        /\ UNCHANGED <<version, next, mro, defs, entry, init>>
    BY DEF ProbeMiss, AtTop, hierarchy, versions, cache, memos
  <1>2. Sequence(stack) /\ NewOn(stack', stack, {Probing})
    BY LookingFrames DEF LInv, StackNamed
  <1>3. /\ FrameTyped(Top, live, lock) /\ LookFields \subseteq DOMAIN Top
        /\ WalkCurrent(Top, version, next, mro, defs)
    BY <1>1, TopLooks
  <1>4. /\ Probing.op = Top.op /\ Probing.type = Top.type /\ Probing.step = "walk"
        /\ Probing.version = Top.version /\ Probing.mro = Top.mro /\ Probing.key = Top.key
        /\ Probing.at = Top.at + 1
    BY <1>1, <1>3 DEF Probing, LookFields
  <1>5. Top.at \in Nat
    BY <1>1, <1>3 DEF FrameTyped
  <1>6. WalkCurrent(Probing, version, next, mro, defs)
    <2>1. \A j \in 1 .. (Top.at + 1) - 1 : j \in 1 .. Top.at - 1 \/ j = Top.at
      BY <1>5
    <2> QED BY <1>1, <1>3, <1>4, <2>1 DEF WalkCurrent
  <1>7. WalksCurrent(stack', version, next, mro, defs)
    BY <1>2, <1>6, WalksOn DEF CInv
  <1> QED BY <1>1, <1>7 DEF CInv

LEMMA CInvEnds ==
  ASSUME VInv, LInv, TInv, CInv, EndUncached \/ KeyReleased
  PROVE  CInv'
  <1>1. /\ stack # <<>> /\ Top.op = "lookup" /\ Top.step # "start"
        /\ UNCHANGED <<version, next, mro, defs, entry>>
    BY DEF EndUncached, KeyReleased, AtTop, hierarchy, versions, cache
  <1>2. Sequence(stack) /\ NewOn(stack', stack, {})
    BY LookingFrames DEF LInv, StackNamed
  <1>3. WalksCurrent(stack', version, next, mro, defs)
    BY <1>2, WalksOn DEF CInv
  <1>4. /\ Top.type \in Types /\ Top.version \in Nat
        /\ Top.use = "init" => Top.key = InitKey
        /\ WalkCurrent(Top, version, next, mro, defs)
    BY <1>1, TopLooks
  <1>5. Earlier(Top.version, next)
    BY <1>1, <1>4 DEF WalkCurrent
  <1>6. CASE EndUncached
    <2>1. /\ Publish(Top.type, Top.use, Top.version, Probed)
          /\ ~ (Top.version # 0 /\ version[Top.type] = Top.version)
      BY <1>6 DEF EndUncached, Cacheable
    <2>2. MemosCurrent(init', version, next, mro, defs)
      BY <1>4, <1>5, <2>1, PublishCurrent
    <2> QED BY <1>1, <1>3, <2>2 DEF CInv
  <1>7. CASE KeyReleased
    <2>1. /\ Publish(Top.type, Top.use, Top.version, Top.found) /\ Top.step = "release"
      BY <1>7 DEF KeyReleased, AtTop
    <2>2. Top.version # 0 /\ version[Top.type] = Top.version =>
             Top.found = FoundIn(defs, mro[Top.type], Top.key)
      BY <1>1, <1>4, <2>1 DEF WalkCurrent
    <2>3. MemosCurrent(init', version, next, mro, defs)
      BY <1>4, <1>5, <2>1, <2>2, PublishCurrent
    <2> QED BY <1>1, <1>3, <2>3 DEF CInv
  <1> QED BY <1>6, <1>7

LEMMA CInvEndCached ==
  ASSUME VInv, LInv, TInv, CInv, EndCached
  PROVE  CInv'
  <1>1. /\ stack # <<>> /\ Top.op = "lookup" /\ Top.step = "walk" /\ AtTop("lookup", "walk")
        /\ Ends /\ Top.version # 0 /\ version[Top.type] = Top.version
        /\ entry' = Filled(Top, Probed)
        /\ UNCHANGED <<version, next, mro, defs>>
    BY DEF EndCached, AtTop, Cacheable, hierarchy, versions
  <1>2. Sequence(stack) /\ NewOn(stack', stack, {Releasing})
    BY LookingFrames DEF LInv, StackNamed
  <1>3. /\ Top.type \in Types /\ Top.version \in Nat /\ LookFields \subseteq DOMAIN Top
        /\ Top.use = "init" => Top.key = InitKey
        /\ WalkCurrent(Top, version, next, mro, defs)
    BY <1>1, TopLooks
  <1>4. Earlier(Top.version, next)
    BY <1>1, <1>3 DEF WalkCurrent
  <1>5. Top.mro = mro[Top.type] /\ Probed = FoundIn(defs, mro[Top.type], Top.key)
    BY <1>1, ProbedCurrent
  <1>6. /\ Releasing.type = Top.type /\ Releasing.step = "release"
        /\ Releasing.version = Top.version /\ Releasing.mro = Top.mro /\ Releasing.key = Top.key
        /\ Releasing.found = Probed
    BY <1>3 DEF Releasing, LookFields
  <1>7. WalkCurrent(Releasing, version, next, mro, defs)
    BY <1>4, <1>5, <1>6 DEF WalkCurrent
  <1>8. WalksCurrent(stack', version, next, mro, defs)
    BY <1>2, <1>7, WalksOn DEF CInv
  <1>9. EntryCurrent(entry', version, mro, defs)
    BY <1>1, <1>5 DEF EntryCurrent, Filled
  <1>10. MemosCurrent(init', version, next, mro, defs)
    <2>1. CASE UNCHANGED memos
      BY <2>1 DEF CInv, memos
    <2>2. CASE Publish(Top.type, Top.use, Top.version, Probed)
      BY <1>3, <1>4, <1>5, <2>2, PublishCurrent
    <2> QED BY <2>1, <2>2 DEF EndCached
  <1> QED BY <1>1, <1>8, <1>9, <1>10 DEF CInv

LEMMA CInvLooking ==
  ASSUME VInv, LInv, TInv, RInv, CInv, Looking
  PROVE  CInv'
  <1>0. Sequence(stack)
    BY DEF LInv, StackNamed
  <1>1. CASE AnswerAtOnce \/ StartWalk \/ ProbeMiss \/ EndUncached \/ KeyReleased \/ EndCached
    BY <1>1, CInvAnswer, CInvStartWalk, CInvProbeMiss, CInvEnds, CInvEndCached
  <1>2. ASSUME \/ AskBase \/ RefuseVersion \/ DistrustMro \/ GiveVersion
               \/ \E t \in Types, use \in {"plain", "init", "fin"}, k \in Keys : Lookup(t, use, k)
               \/ \E c \in Classes, k \in Keys : ChangeDict(c, k)
        PROVE  CInv'
    <2>1. entry' = entry /\ init' = init
      BY <1>2 DEF AskBase, RefuseVersion, DistrustMro, GiveVersion, Lookup, ChangeDict, cache, memos
    <2>2. \E F : NewOn(stack', stack, F) /\ \A f \in F : Idle(f)
      <3>1. CASE AskBase
        <4>1. stack # <<>> /\ Top.op = "version"
          BY <3>1 DEF AskBase, AtTop
        <4>2. "op" \in DOMAIN Top
          BY <4>1, TopTyped DEF Named
        <4>3. Asked.op = "version"
          BY <4>1, <4>2 DEF Asked
        <4>4. NewOn(stack', stack, {Asked, Wants(FirstBase(Top.type))})
          BY <1>0, <3>1, LookingFrames
        <4>5. Idle(Asked)
          BY <4>3 DEF Idle
        <4> QED BY <4>4, <4>5, IdleFrames
      <3>2. CASE RefuseVersion \/ DistrustMro \/ GiveVersion
        <4>1. NewOn(stack', stack, {})
          BY <1>0, <3>2, LookingFrames
        <4> QED BY <4>1
      <3>3. ASSUME NEW t, NEW use, NEW k, Lookup(t, use, k)
            PROVE  \E F : NewOn(stack', stack, F) /\ \A f \in F : Idle(f)
        <4>1. NewOn(stack', stack, {Looks(t, use, k), Wants(t)})
          BY <1>0, <3>3, LookingFrames
        <4> QED BY <4>1, IdleFrames
      <3>4. ASSUME NEW c, NEW k, ChangeDict(c, k)
            PROVE  \E F : NewOn(stack', stack, F) /\ \A f \in F : Idle(f)
        <4>1. NewOn(stack', stack, {})
          BY <1>0, <3>4, LookingFrames
        <4> QED BY <4>1
      <3> QED BY <1>2, <3>1, <3>2, <3>3, <3>4
    <2>3. Step
      BY DEF Step
    <2>4. Holds(version, next, mro, defs, version', next', mro', defs')
      BY <2>3, StepHolds
    <2> QED BY <2>1, <2>2, <2>4, CInvIdle
  <1> QED BY <1>1, <1>2 DEF Looking

LEMMA CInvKept ==
  ASSUME VInv, LInv, TInv, RInv, CInv, [Next]_vars
  PROVE  CInv'
  <1>1. CASE UNCHANGED vars
    BY <1>1 DEF CInv, vars, hierarchy, versions, cache, memos
  <1>2. CASE Next
    <2>1. Step
      BY <1>2, NextSteps
    <2>2. CASE Looking
      BY <2>2, CInvLooking
    <2>3. CASE \E t \in Heap : Die(t)
      BY <2>3, CInvDie
    <2>4. CASE ~ Looking /\ ~ \E t \in Heap : Die(t)
      BY <2>1, <2>4, CInvAssigning
    <2> QED BY <2>2, <2>3, <2>4
  <1> QED BY <1>1, <1>2

LEMMA CInvInit == Init => CInv
  <1> SUFFICES ASSUME Init PROVE CInv
    OBVIOUS
  <1>1. /\ stack = <<>> /\ version = [t \in Types |-> 0] /\ next = 1
        /\ init = [t \in Types |-> None]
    BY DEF Init
  <1>2. WalksCurrent(stack, version, next, mro, defs)
    BY <1>1 DEF WalksCurrent
  <1>3. EntryCurrent(entry, version, mro, defs)
    BY <1>1 DEF EntryCurrent
  <1>4. MemosCurrent(init, version, next, mro, defs)
    BY <1>1 DEF MemosCurrent, Earlier, None
  <1> QED BY <1>2, <1>3, <1>4 DEF CInv

\* While a type has its version, the cache entry with that version and the memo
\* of the constructor answer what a walk of the MRO would find now, whatever code
\* the comparisons of the walk that filled them ran (type_lookup_key,
\* type_lookup_cache_store, constructor_init), provided as in ChangesAreSeen.
THEOREM AnswersAreCurrent == Registers => (Spec => []CachesCurrent)
  <1> SUFFICES ASSUME Registers PROVE Spec => []CachesCurrent
    OBVIOUS
  <1>1. CInv /\ TInv => CachesCurrent
    <2> SUFFICES ASSUME CInv, TInv, NEW t \in live, version[t] # 0
                 PROVE  /\ entry.type = t /\ entry.version = version[t] =>
                              entry.value = Find(mro[t], entry.key)
                        /\ init[t].version = version[t] => init[t].value = Find(mro[t], InitKey)
      BY DEF CachesCurrent
    <2>1. t \in Types
      BY DEF TInv, HierTyped
    <2> QED BY <2>1, FoundNow DEF CInv, EntryCurrent, MemosCurrent
  <1>2. Init => CInv
    BY CInvInit
  <1>3. IInv /\ TInv /\ RInv /\ CInv /\ [Next]_vars => CInv'
    BY CInvKept DEF IInv
  <1> QED BY <1>1, <1>2, <1>3, ReachInvariant, PTL DEF Spec

=============================================================================
