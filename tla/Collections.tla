---------------------------- MODULE Collections ----------------------------
(***************************************************************************)
(* Facts about induction, loops, sequences, finite sets, sums and stacks   *)
(* that the proofs of several modules rest on.                             *)
(***************************************************************************)
EXTENDS Integers, Sequences, FiniteSets, SequencesExt, Functions,
        FiniteSetTheorems, WellFoundedInduction, TLAPS

-----------------------------------------------------------------------------
(* Induction, and loops written as recursive functions.                    *)

\* A set of natural numbers has a least element.
LEMMA LeastElement ==
  ASSUME NEW T, T \subseteq Nat, T # {}
  PROVE  \E x \in T : \A y \in T : x <= y
  <1> DEFINE R == OpToRel(<, Nat)
  <1>1. IsWellFoundedOn(R, Nat)
    BY NatLessThanWellFounded
  <1>2. \E x \in T : \A y \in T : ~ (<<y, x>> \in R)
    <2> HIDE DEF R
    <2> QED BY <1>1, WFMin
  <1>3. \E x \in T : \A y \in T : ~ (y < x)
    BY <1>2, Zenon DEF OpToRel
  <1> QED BY <1>3

\* Induction over the numbers up to n, on a set.
LEMMA UpTo ==
  ASSUME NEW n \in Nat, NEW S, 0 \in S, \A i \in 1 .. n : i - 1 \in S => i \in S
  PROVE  0 .. n \subseteq S
  <1> DEFINE T == {i \in 0 .. n : i \notin S}
  <1>1. SUFFICES ASSUME T # {} PROVE FALSE
    OBVIOUS
  <1>2. T \subseteq Nat
    OBVIOUS
  <1>3. PICK x \in T : \A y \in T : x <= y
    <2> HIDE DEF T
    <2> QED BY <1>1, <1>2, LeastElement
  <1>4. x \in 1 .. n /\ x - 1 \notin T
    BY <1>3
  <1> QED BY <1>3, <1>4

\* G is a loop of n steps F from b, and its states are in J.
LoopRun(G, n, J, b, F) ==
    /\ G = [i \in 0 .. n |-> IF i = 0 THEN b ELSE F[<<G[i - 1], i>>]]
    /\ \A i \in 0 .. n : <<G[i], i>> \in J

\* A loop of n steps that keeps an invariant J of the state and of the number
\* of steps made has a run, and every state of the run satisfies J.
LEMMA LoopRuns ==
  ASSUME NEW n \in Nat, NEW J, NEW b, NEW F,
         <<b, 0>> \in J,
         \A i \in 1 .. n : \A s : <<s, i - 1>> \in J => <<F[<<s, i>>], i>> \in J
  PROVE  \E G : LoopRun(G, n, J, b, F)
  <1> DEFINE Run(G, m) == /\ G = [i \in 0 .. m |-> IF i = 0 THEN b ELSE F[<<G[i - 1], i>>]]
                          /\ \A i \in 0 .. m : <<G[i], i>> \in J
             S == {m \in 0 .. n : \E G : Run(G, m)}
  <1>1. 0 \in S
    <2> DEFINE G == [i \in 0 .. 0 |-> b]
    <2>1. G = [i \in 0 .. 0 |-> IF i = 0 THEN b ELSE F[<<G[i - 1], i>>]]
      OBVIOUS
    <2>2. \A i \in 0 .. 0 : G[i] = b /\ i = 0
      OBVIOUS
    <2> HIDE DEF G
    <2>3. Run(G, 0)
      BY <2>1, <2>2
    <2> HIDE DEF Run
    <2> QED BY <2>3
  <1>2. ASSUME NEW m \in 1 .. n, m - 1 \in S PROVE m \in S
    <2>1. PICK H : Run(H, m - 1)
      BY <1>2
    <2>2. H[m - 1] = H[m - 1] /\ <<H[m - 1], m - 1>> \in J
      BY <2>1
    <2> DEFINE v == F[<<H[m - 1], m>>]
               G == [i \in 0 .. m |-> IF i = m THEN v ELSE H[i]]
    <2>3. <<v, m>> \in J
      BY <2>2
    <2>4. \A i \in 0 .. m - 1 : H[i] = IF i = 0 THEN b ELSE F[<<H[i - 1], i>>]
      <3>1. H = [i \in 0 .. m - 1 |-> IF i = 0 THEN b ELSE F[<<H[i - 1], i>>]]
        BY <2>1
      <3> QED BY <3>1
    <2>5. \A i \in 0 .. m : G[i] = IF i = 0 THEN b ELSE F[<<G[i - 1], i>>]
      <3> SUFFICES ASSUME NEW i \in 0 .. m PROVE G[i] = IF i = 0 THEN b ELSE F[<<G[i - 1], i>>]
        OBVIOUS
      <3>1. CASE i = m
        <4>1. G[i] = v /\ G[i - 1] = H[m - 1] /\ i # 0
          BY <3>1
        <4> QED BY <4>1, <3>1
      <3>2. CASE i # m
        <4>1. G[i] = H[i] /\ i \in 0 .. m - 1
          BY <3>2
        <4>2. i # 0 => G[i - 1] = H[i - 1]
          BY <3>2
        <4> QED BY <4>1, <4>2, <2>4
      <3> QED BY <3>1, <3>2
    <2>6. G = [i \in 0 .. m |-> IF i = 0 THEN b ELSE F[<<G[i - 1], i>>]]
      <3>1. G = [i \in 0 .. m |-> G[i]]
        OBVIOUS
      <3> HIDE DEF G
      <3> QED BY <3>1, <2>5
    <2>7. \A i \in 0 .. m : <<G[i], i>> \in J
      <3> TAKE i \in 0 .. m
      <3>1. CASE i = m
        <4>1. G[i] = v
          BY <3>1
        <4> HIDE DEF G, v
        <4> QED BY <4>1, <3>1, <2>3
      <3>2. CASE i # m
        <4>1. G[i] = H[i] /\ i \in 0 .. m - 1
          BY <3>2
        <4>2. <<H[i], i>> \in J
          BY <4>1, <2>1
        <4> HIDE DEF G, v
        <4> QED BY <4>1, <4>2
      <3> QED BY <3>1, <3>2
    <2>8. Run(G, m)
      BY <2>6, <2>7
    <2> HIDE DEF Run, G
    <2> QED BY <2>8
  <1>3. n \in S
    <2> HIDE DEF S
    <2>1. 0 .. n \subseteq S
      BY <1>1, <1>2, UpTo
    <2> QED BY <2>1
  <1> QED BY <1>3 DEF LoopRun

-----------------------------------------------------------------------------
(* Sequences without repetition, as doubly linked lists are.               *)

\* The elements of a sequence are those at its places.
LEMMA RangeElements ==
  ASSUME NEW S, NEW s \in Seq(S)
  PROVE  /\ DOMAIN s = 1 .. Len(s) /\ Len(s) \in Nat /\ Range(s) \subseteq S
         /\ \A x : x \in Range(s) <=> \E i \in 1 .. Len(s) : s[i] = x
         /\ s = <<>> <=> Range(s) = {}
         /\ s = <<>> <=> Len(s) = 0
  <1>1. DOMAIN s = 1 .. Len(s) /\ Len(s) \in Nat /\ \A i \in 1 .. Len(s) : s[i] \in S
    OBVIOUS
  <1>2. \A x : x \in Range(s) <=> \E i \in 1 .. Len(s) : s[i] = x
    BY <1>1 DEF Range
  <1>3. s = <<>> <=> Len(s) = 0
    OBVIOUS
  <1>4. Range(s) = {} <=> Len(s) = 0
    <2>1. ASSUME Len(s) # 0 PROVE Range(s) # {}
      <3>1. 1 \in 1 .. Len(s)
        BY <1>1, <2>1
      <3> QED BY <3>1, <1>2
    <2>2. ASSUME Len(s) = 0 PROVE Range(s) = {}
      <3>1. 1 .. Len(s) = {}
        BY <2>2
      <3> QED BY <3>1, <1>2
    <2> QED BY <2>1, <2>2
  <1> QED BY <1>1, <1>2, <1>3, <1>4

\* One list behind another.
LEMMA Joined ==
  ASSUME NEW S, NEW s \in Seq(S), NEW t \in Seq(S)
  PROVE  /\ s \o t \in Seq(S) /\ Len(s \o t) = Len(s) + Len(t)
         /\ \A i \in 1 .. Len(s) : (s \o t)[i] = s[i]
         /\ \A i \in Len(s) + 1 .. Len(s) + Len(t) : (s \o t)[i] = t[i - Len(s)]
  <1>1. s \o t \in Seq(S)
    OBVIOUS
  <1>2. Len(s \o t) = Len(s) + Len(t)
    OBVIOUS
  <1>3. \A i \in 1 .. Len(s) : (s \o t)[i] = s[i]
    OBVIOUS
  <1>4. \A i \in Len(s) + 1 .. Len(s) + Len(t) : (s \o t)[i] = t[i - Len(s)]
    OBVIOUS
  <1> QED BY <1>1, <1>2, <1>3, <1>4

\* An element linked at the front.
LEMMA LinkedFront ==
  ASSUME NEW S, NEW s \in Seq(S), NEW e \in S
  PROVE  /\ <<e>> \o s \in Seq(S) /\ Len(<<e>> \o s) = Len(s) + 1
         /\ (<<e>> \o s)[1] = e
         /\ \A i \in 2 .. Len(s) + 1 : (<<e>> \o s)[i] = s[i - 1]
         /\ Range(<<e>> \o s) = Range(s) \cup {e}
         /\ IsInjective(s) /\ e \notin Range(s) => IsInjective(<<e>> \o s)
  <1> DEFINE t == <<e>> \o s
  <1>1. /\ t \in Seq(S) /\ Len(t) = Len(s) + 1 /\ t[1] = e
        /\ \A i \in 2 .. Len(s) + 1 : t[i] = s[i - 1]
    OBVIOUS
  <1> HIDE DEF t
  <1>2. /\ DOMAIN s = 1 .. Len(s) /\ Len(s) \in Nat /\ DOMAIN t = 1 .. Len(t)
        /\ \A x : x \in Range(s) <=> \E i \in 1 .. Len(s) : s[i] = x
        /\ \A x : x \in Range(t) <=> \E i \in 1 .. Len(t) : t[i] = x
    BY <1>1, RangeElements
  <1>3. \A x : x \in Range(t) <=> x \in Range(s) \cup {e}
    <2>1. \A i \in 1 .. Len(s) : t[i + 1] = s[i] /\ i + 1 \in 1 .. Len(t)
      BY <1>1, <1>2
    <2>2. \A i \in 1 .. Len(t) : i = 1 \/ (i - 1 \in 1 .. Len(s) /\ t[i] = s[i - 1])
      BY <1>1, <1>2
    <2>3. 1 \in 1 .. Len(t) /\ t[1] = e
      BY <1>1, <1>2
    <2> QED BY <1>2, <2>1, <2>2, <2>3
  <1>4. ASSUME IsInjective(s), e \notin Range(s) PROVE IsInjective(t)
    <2> SUFFICES ASSUME NEW i \in 1 .. Len(t), NEW j \in 1 .. Len(t), t[i] = t[j] PROVE i = j
      BY <1>2 DEF IsInjective
    <2>1. \A k \in 1 .. Len(t) : k = 1 \/ (k - 1 \in 1 .. Len(s) /\ t[k] = s[k - 1] /\ t[k] \in Range(s))
      BY <1>1, <1>2
    <2>2. i = 1 <=> j = 1
      BY <2>1, <1>4, <1>1
    <2>3. CASE i # 1
      <3>1. s[i - 1] = s[j - 1] /\ i - 1 \in 1 .. Len(s) /\ j - 1 \in 1 .. Len(s)
        BY <2>1, <2>2, <2>3
      <3>2. i - 1 = j - 1
        BY <3>1, <1>4, <1>2 DEF IsInjective
      <3> QED BY <3>2
    <2> QED BY <2>2, <2>3
  <1> QED BY <1>1, <1>3, <1>4 DEF t

\* What is left of a sequence without the element at a place.
LEMMA RemovedAt ==
  ASSUME NEW S, NEW s \in Seq(S), NEW k \in 1 .. Len(s)
  PROVE  /\ RemoveAt(s, k) \in Seq(S) /\ Len(RemoveAt(s, k)) = Len(s) - 1
         /\ \A i \in 1 .. Len(s) - 1 : RemoveAt(s, k)[i] = IF i < k THEN s[i] ELSE s[i + 1]
  <1> DEFINE b == SubSeq(s, 1, k - 1)
             e == SubSeq(s, k + 1, Len(s))
  <1>1. b \in Seq(S) /\ Len(b) = k - 1 /\ \A i \in 1 .. k - 1 : b[i] = s[i]
    OBVIOUS
  <1>2. e \in Seq(S) /\ Len(e) = Len(s) - k /\ \A i \in 1 .. Len(s) - k : e[i] = s[i + k]
    OBVIOUS
  <1> HIDE DEF b, e
  <1> DEFINE t == b \o e
  <1>3. /\ t \in Seq(S) /\ Len(t) = Len(b) + Len(e)
        /\ \A i \in 1 .. Len(b) : t[i] = b[i]
        /\ \A i \in 1 .. Len(e) : t[Len(b) + i] = e[i]
    <2>1. b \in Seq(S) /\ e \in Seq(S)
      BY <1>1, <1>2
    <2>2. t \in Seq(S) /\ Len(t) = Len(b) + Len(e)
      BY <2>1
    <2>3. \A i \in 1 .. Len(b) : t[i] = b[i]
      BY <2>1
    <2>4. \A i \in 1 .. Len(e) : t[Len(b) + i] = e[i]
      BY <2>1
    <2> QED BY <2>2, <2>3, <2>4
  <1>4. RemoveAt(s, k) = t
    BY DEF RemoveAt, b, e
  <1> HIDE DEF t
  <1>5. ASSUME NEW i \in 1 .. Len(s) - 1 PROVE t[i] = IF i < k THEN s[i] ELSE s[i + 1]
    <2>1. CASE i < k
      BY <2>1, <1>1, <1>3
    <2>2. CASE ~ (i < k)
      <3> DEFINE d == i - k + 1
      <3>1. d \in 1 .. Len(s) - k /\ i = Len(b) + d /\ d + k = i + 1
        BY <2>2, <1>1
      <3> HIDE DEF d
      <3>2. t[i] = e[d] /\ e[d] = s[d + k]
        BY <3>1, <1>2, <1>3
      <3> QED BY <3>1, <3>2, <2>2
    <2> QED BY <2>1, <2>2
  <1>6. Len(t) = Len(s) - 1
    BY <1>1, <1>2, <1>3
  <1> QED BY <1>3, <1>4, <1>5, <1>6

\* A node taken off a list.
LEMMA TakenOff ==
  ASSUME NEW S, NEW s \in Seq(S), IsInjective(s), NEW e \in Range(s)
  PROVE  LET k == CHOOSE i \in DOMAIN s : s[i] = e
             t == RemoveAt(s, k)
         IN  /\ k \in 1 .. Len(s) /\ s[k] = e
             /\ t \in Seq(S) /\ Len(t) = Len(s) - 1
             /\ \A i \in 1 .. Len(s) - 1 : t[i] = IF i < k THEN s[i] ELSE s[i + 1]
             /\ Range(t) = Range(s) \ {e}
             /\ IsInjective(t)
  <1> DEFINE k == CHOOSE i \in DOMAIN s : s[i] = e
             t == RemoveAt(s, k)
  <1>1. /\ DOMAIN s = 1 .. Len(s) /\ Len(s) \in Nat
        /\ \A x : x \in Range(s) <=> \E i \in 1 .. Len(s) : s[i] = x
    BY RangeElements
  <1>2. k \in 1 .. Len(s) /\ s[k] = e
    BY <1>1
  <1> HIDE DEF k
  <1>3. /\ t \in Seq(S) /\ Len(t) = Len(s) - 1
        /\ \A i \in 1 .. Len(s) - 1 : t[i] = IF i < k THEN s[i] ELSE s[i + 1]
    BY <1>2, RemovedAt
  <1> HIDE DEF t
  <1>4. DOMAIN t = 1 .. Len(t) /\ \A x : x \in Range(t) <=> \E i \in 1 .. Len(t) : t[i] = x
    BY <1>3, RangeElements
  <1>5. \A i, j \in 1 .. Len(s) : s[i] = s[j] => i = j
    BY <1>1 DEF IsInjective
  <1>6. \A x : x \in Range(t) <=> x \in Range(s) \ {e}
    <2> TAKE x
    <2>1. ASSUME x \in Range(t) PROVE x \in Range(s) \ {e}
      <3>1. PICK i \in 1 .. Len(t) : t[i] = x
        BY <2>1, <1>4
      <3>2. PICK j \in 1 .. Len(s) : j # k /\ s[j] = x
        BY <3>1, <1>1, <1>2, <1>3
      <3>3. x # e
        BY <3>2, <1>2, <1>5
      <3> QED BY <3>2, <3>3, <1>1
    <2>2. ASSUME x \in Range(s) \ {e} PROVE x \in Range(t)
      <3>1. PICK j \in 1 .. Len(s) : s[j] = x
        BY <2>2, <1>1
      <3>2. j # k
        BY <3>1, <2>2, <1>2
      <3> DEFINE i == IF j < k THEN j ELSE j - 1
      <3>3. i \in 1 .. Len(t) /\ t[i] = s[j]
        BY <3>2, <1>1, <1>2, <1>3
      <3> QED BY <3>1, <3>3, <1>4
    <2> QED BY <2>1, <2>2
  <1>7. IsInjective(t)
    <2> SUFFICES ASSUME NEW i \in 1 .. Len(t), NEW j \in 1 .. Len(t), t[i] = t[j] PROVE i = j
      BY <1>4 DEF IsInjective
    <2> DEFINE at(m) == IF m < k THEN m ELSE m + 1
    <2>1. at(i) \in 1 .. Len(s) /\ at(j) \in 1 .. Len(s) /\ s[at(i)] = t[i] /\ s[at(j)] = t[j]
      BY <1>1, <1>2, <1>3
    <2>2. at(i) = at(j)
      <3> HIDE DEF at
      <3> QED BY <2>1, <1>5
    <2> QED BY <2>2, <1>2
  <1> QED BY <1>2, <1>3, <1>6, <1>7 DEF k, t

\* The list behind its first node.
LEMMA BehindFirst ==
  ASSUME NEW S, NEW s \in Seq(S), s # <<>>
  PROVE  /\ Head(s) = s[1] /\ Head(s) \in Range(s) /\ Head(s) \in S
         /\ Tail(s) \in Seq(S) /\ Len(Tail(s)) = Len(s) - 1
         /\ \A i \in 1 .. Len(s) - 1 : Tail(s)[i] = s[i + 1]
         /\ IsInjective(s) => IsInjective(Tail(s)) /\ Range(Tail(s)) = Range(s) \ {Head(s)}
  <1> DEFINE t == Tail(s)
  <1>1. /\ Head(s) = s[1] /\ Head(s) \in S /\ Len(s) \in Nat \ {0} /\ DOMAIN s = 1 .. Len(s)
        /\ t \in Seq(S) /\ Len(t) = Len(s) - 1
        /\ \A i \in 1 .. Len(s) - 1 : t[i] = s[i + 1]
    OBVIOUS
  <1> HIDE DEF t
  <1>2. /\ \A x : x \in Range(s) <=> \E i \in 1 .. Len(s) : s[i] = x
        /\ DOMAIN t = 1 .. Len(t) /\ \A x : x \in Range(t) <=> \E i \in 1 .. Len(t) : t[i] = x
    BY <1>1, RangeElements
  <1>3. Head(s) \in Range(s)
    <2>1. 1 \in 1 .. Len(s)
      BY <1>1
    <2> QED BY <2>1, <1>1, <1>2
  <1>4. ASSUME IsInjective(s) PROVE IsInjective(t) /\ Range(t) = Range(s) \ {Head(s)}
    <2>1. \A i, j \in 1 .. Len(s) : s[i] = s[j] => i = j
      BY <1>1, <1>4 DEF IsInjective
    <2>2. \A i \in 1 .. Len(t) : i + 1 \in 1 .. Len(s) /\ i + 1 # 1 /\ t[i] = s[i + 1]
      BY <1>1
    <2>3. \A i \in 1 .. Len(s) : i # 1 => i - 1 \in 1 .. Len(t) /\ t[i - 1] = s[i]
      BY <1>1
    <2>4. IsInjective(t)
      <3> SUFFICES ASSUME NEW i \in 1 .. Len(t), NEW j \in 1 .. Len(t), t[i] = t[j] PROVE i = j
        BY <1>2 DEF IsInjective
      <3>1. s[i + 1] = s[j + 1]
        BY <2>2
      <3>2. i + 1 = j + 1
        BY <3>1, <2>1, <2>2
      <3> QED BY <3>2
    <2>5. \A x : x \in Range(t) => x \in Range(s) \ {Head(s)}
      <3> SUFFICES ASSUME NEW x, x \in Range(t) PROVE x \in Range(s) \ {Head(s)}
        OBVIOUS
      <3>1. PICK i \in 1 .. Len(t) : t[i] = x
        BY <1>2
      <3>2. s[i + 1] = x /\ i + 1 \in 1 .. Len(s) /\ i + 1 # 1 /\ 1 \in 1 .. Len(s)
        BY <3>1, <2>2, <1>1
      <3>3. x # s[1]
        BY <3>2, <2>1
      <3> QED BY <3>2, <3>3, <1>1, <1>2
    <2>6. \A x : x \in Range(s) \ {Head(s)} => x \in Range(t)
      BY <1>1, <1>2, <2>3
    <2> QED BY <2>4, <2>5, <2>6
  <1> QED BY <1>1, <1>3, <1>4 DEF t

\* A list without repetition is as long as the set of its elements.
LEMMA LengthCounts ==
  ASSUME NEW S, NEW s \in Seq(S), IsInjective(s)
  PROVE  IsFiniteSet(Range(s)) /\ Cardinality(Range(s)) = Len(s)
  <1>1. /\ DOMAIN s = 1 .. Len(s) /\ Len(s) \in Nat
        /\ \A x : x \in Range(s) <=> \E i \in 1 .. Len(s) : s[i] = x
    BY RangeElements
  <1>2. s \in Bijection(1 .. Len(s), Range(s))
    <2>1. s \in [1 .. Len(s) -> Range(s)]
      BY <1>1
    <2>2. \A i, j \in 1 .. Len(s) : s[i] = s[j] => i = j
      BY <1>1 DEF IsInjective
    <2> QED BY <1>1, <2>1, <2>2 DEF Bijection, Injection, Surjection
  <1>3. ExistsBijection(1 .. Len(s), Range(s))
    BY <1>2 DEF ExistsBijection
  <1>4. IsFiniteSet(1 .. Len(s)) /\ Cardinality(1 .. Len(s)) = Len(s)
    BY <1>1, FS_Interval
  <1> QED BY <1>3, <1>4, FS_Bijection

\* A node moved from place k behind the nodes up to place m.
LEMMA MovedBehind ==
  ASSUME NEW S, NEW s \in Seq(S), NEW k \in 1 .. Len(s), NEW m \in k .. Len(s)
  PROVE  LET t == SubSeq(s, 1, k - 1) \o SubSeq(s, k + 1, m) \o <<s[k]>> \o SubSeq(s, m + 1, Len(s))
         IN  /\ t \in Seq(S) /\ Len(t) = Len(s)
             /\ \A i \in 1 .. Len(s) :
                   t[i] = IF i < k \/ i > m THEN s[i] ELSE IF i = m THEN s[k] ELSE s[i + 1]
             /\ Range(t) = Range(s)
             /\ IsInjective(s) => IsInjective(t)
  <1> DEFINE b == SubSeq(s, 1, k - 1)
             c == SubSeq(s, k + 1, m)
             d == <<s[k]>>
             e == SubSeq(s, m + 1, Len(s))
             bc == b \o c
             bcd == bc \o d
             t == bcd \o e
  <1>1. /\ b \in Seq(S) /\ Len(b) = k - 1 /\ \A i \in 1 .. k - 1 : b[i] = s[i]
    OBVIOUS
  <1>2. /\ c \in Seq(S) /\ Len(c) = m - k /\ \A i \in 1 .. m - k : c[i] = s[i + k]
    OBVIOUS
  <1>3. /\ d \in Seq(S) /\ Len(d) = 1 /\ d[1] = s[k]
    OBVIOUS
  <1>4. /\ e \in Seq(S) /\ Len(e) = Len(s) - m /\ \A i \in 1 .. Len(s) - m : e[i] = s[i + m]
    OBVIOUS
  <1> HIDE DEF b, c, d, e
  <1>5. /\ bc \in Seq(S) /\ Len(bc) = m - 1
        /\ \A i \in 1 .. m - 1 : bc[i] = IF i < k THEN s[i] ELSE s[i + 1]
    <2>1. bc \in Seq(S) /\ Len(bc) = Len(b) + Len(c)
      BY <1>1, <1>2, Joined
    <2>2. \A i \in 1 .. Len(b) : bc[i] = b[i]
      BY <1>1, <1>2, Joined
    <2>3. \A i \in Len(b) + 1 .. Len(b) + Len(c) : bc[i] = c[i - Len(b)]
      BY <1>1, <1>2, Joined
    <2> HIDE DEF bc
    <2>4. ASSUME NEW i \in 1 .. m - 1 PROVE bc[i] = IF i < k THEN s[i] ELSE s[i + 1]
      <3>1. CASE i < k
        BY <3>1, <2>2, <1>1
      <3>2. CASE ~ (i < k)
        <4> DEFINE j == i - Len(b)
        <4>1. j \in 1 .. m - k /\ j + k = i + 1 /\ i \in Len(b) + 1 .. Len(b) + Len(c)
          BY <3>2, <1>1, <1>2, <2>1
        <4>2. bc[i] = c[j]
          BY <4>1, <2>3
        <4> HIDE DEF j
        <4>3. c[j] = s[i + 1]
          BY <4>1, <1>2
        <4> QED BY <4>2, <4>3, <3>2
      <3> QED BY <3>1, <3>2
    <2> QED BY <2>1, <2>4, <1>1, <1>2
  <1> HIDE DEF bc
  <1>6. /\ bcd \in Seq(S) /\ Len(bcd) = m /\ bcd[m] = s[k]
        /\ \A i \in 1 .. m - 1 : bcd[i] = IF i < k THEN s[i] ELSE s[i + 1]
    <2>1. bcd \in Seq(S) /\ Len(bcd) = Len(bc) + Len(d)
      BY <1>3, <1>5, Joined
    <2>2. \A i \in 1 .. Len(bc) : bcd[i] = bc[i]
      BY <1>3, <1>5, Joined
    <2>3. \A i \in Len(bc) + 1 .. Len(bc) + Len(d) : bcd[i] = d[i - Len(bc)]
      BY <1>3, <1>5, Joined
    <2> HIDE DEF bcd
    <2>4. bcd[m] = d[1]
      BY <2>3, <1>3, <1>5
    <2> QED BY <2>1, <2>2, <2>4, <1>3, <1>5
  <1> HIDE DEF bcd
  <1>7. /\ t \in Seq(S) /\ Len(t) = Len(s)
        /\ \A i \in 1 .. Len(s) :
              t[i] = IF i < k \/ i > m THEN s[i] ELSE IF i = m THEN s[k] ELSE s[i + 1]
    <2>1. t \in Seq(S) /\ Len(t) = Len(bcd) + Len(e)
      BY <1>4, <1>6, Joined
    <2>4. \A i \in 1 .. Len(bcd) : t[i] = bcd[i]
      BY <1>4, <1>6, Joined
    <2>2. \A i \in Len(bcd) + 1 .. Len(bcd) + Len(e) : t[i] = e[i - Len(bcd)]
      BY <1>4, <1>6, Joined
    <2> HIDE DEF t
    <2>3. ASSUME NEW i \in 1 .. Len(s)
          PROVE  t[i] = IF i < k \/ i > m THEN s[i] ELSE IF i = m THEN s[k] ELSE s[i + 1]
      <3>1. CASE i <= m
        BY <3>1, <2>4, <1>6
      <3>2. CASE i > m
        <4> DEFINE j == i - m
        <4>1. j \in 1 .. Len(s) - m /\ j + m = i /\ i \in Len(bcd) + 1 .. Len(bcd) + Len(e)
          BY <3>2, <1>4, <1>6, <2>1
        <4>2. t[i] = e[j]
          BY <4>1, <2>2, <1>6
        <4> HIDE DEF j
        <4>3. e[j] = s[i]
          BY <4>1, <1>4
        <4> QED BY <4>2, <4>3, <3>2
      <3> QED BY <3>1, <3>2
    <2> QED BY <2>1, <2>3, <1>4, <1>6
  <1> HIDE DEF t
  <1> DEFINE from(i) == IF i < k \/ i > m THEN i ELSE IF i = m THEN k ELSE i + 1
             to(j)   == IF j < k \/ j > m THEN j ELSE IF j = k THEN m ELSE j - 1
  <1>8. \A i \in 1 .. Len(s) : from(i) \in 1 .. Len(s) /\ t[i] = s[from(i)] /\ to(from(i)) = i
    BY <1>7
  <1>9. \A j \in 1 .. Len(s) : to(j) \in 1 .. Len(s) /\ from(to(j)) = j
    OBVIOUS
  <1> HIDE DEF from, to
  <1>10. /\ DOMAIN s = 1 .. Len(s) /\ DOMAIN t = 1 .. Len(s)
         /\ \A x : x \in Range(s) <=> \E i \in 1 .. Len(s) : s[i] = x
         /\ \A x : x \in Range(t) <=> \E i \in 1 .. Len(s) : t[i] = x
    BY <1>7, RangeElements
  <1>11. \A x : x \in Range(t) <=> x \in Range(s)
    BY <1>8, <1>9, <1>10
  <1>12. ASSUME IsInjective(s) PROVE IsInjective(t)
    <2> SUFFICES ASSUME NEW i \in 1 .. Len(s), NEW j \in 1 .. Len(s), t[i] = t[j] PROVE i = j
      BY <1>10 DEF IsInjective
    <2>1. from(i) = from(j)
      BY <1>8, <1>10, <1>12 DEF IsInjective
    <2> QED BY <2>1, <1>8
  <1> QED BY <1>7, <1>11, <1>12 DEF t, bcd, bc, b, c, d, e

-----------------------------------------------------------------------------
(* Sums over a finite set.                                                 *)

SumOf(f, S) == FoldFunctionOnSet(+, 0, f, S)

Least(s) == CHOOSE x \in s : TRUE

\* g gives the sum of the terms of every subset.
Sums(g, f, S) ==
    /\ SumOf(f, S) = g[S] /\ g \in [SUBSET S -> Int] /\ g[{}] = 0
    /\ \A s \in SUBSET S : s # {} => g[s] = f[Least(s)] + g[s \ {Least(s)}]

\* The recursion a fold over a finite set stands for.
LEMMA SumRecursion ==
  ASSUME NEW S, IsFiniteSet(S), NEW f \in [S -> Int]
  PROVE  \E g : Sums(g, f, S)
  <1> DEFINE Step(g, s) == IF s = {} THEN 0 ELSE f[Least(s)] + g[s \ {Least(s)}]
             Upto(n)    == {s \in SUBSET S : Cardinality(s) <= n}
             Part(g, n) == g \in [Upto(n) -> Int] /\ \A s \in Upto(n) : g[s] = Step(g, s)
             N          == Cardinality(S)
             T          == {n \in 0 .. N : \E g : Part(g, n)}
  <1>1. N \in Nat /\ \A s \in SUBSET S : IsFiniteSet(s) /\ Cardinality(s) \in 0 .. N
    <2>1. N \in Nat
      BY FS_CardinalityType
    <2>2. ASSUME NEW s \in SUBSET S PROVE IsFiniteSet(s) /\ Cardinality(s) \in 0 .. N
      <3>1. IsFiniteSet(s) /\ Cardinality(s) <= N
        BY FS_Subset
      <3>2. Cardinality(s) \in Nat
        BY <3>1, FS_CardinalityType
      <3> QED BY <3>1, <3>2, <2>1
    <2> QED BY <2>1, <2>2
  <1>2. ASSUME NEW s \in SUBSET S, s # {}
        PROVE  /\ Least(s) \in s /\ s \ {Least(s)} \in SUBSET S
               /\ Cardinality(s \ {Least(s)}) = Cardinality(s) - 1
    <2>1. Least(s) \in s
      BY <1>2 DEF Least
    <2>2. IsFiniteSet(s)
      BY <1>1
    <2>3. Cardinality(s \ {Least(s)}) = Cardinality(s) - 1
      BY <2>1, <2>2, FS_RemoveElement
    <2> QED BY <2>1, <2>3
  <1>11. ASSUME NEW n \in 1 .. N, NEW s \in Upto(n), s # {}
         PROVE  s \ {Least(s)} \in Upto(n - 1) /\ Least(s) \in S
    <2>1. s \in SUBSET S /\ Cardinality(s) <= n /\ Cardinality(s) \in Nat
      BY <1>1
    <2>2. /\ Least(s) \in s /\ s \ {Least(s)} \in SUBSET S
          /\ Cardinality(s \ {Least(s)}) = Cardinality(s) - 1
      BY <2>1, <1>2, <1>11
    <2> HIDE DEF Least
    <2>3. Cardinality(s \ {Least(s)}) <= n - 1
      BY <2>1, <2>2
    <2> QED BY <2>1, <2>2, <2>3
  <1>3. 0 \in T
    <2> DEFINE g == [s \in Upto(0) |-> 0]
    <2>1. \A s \in Upto(0) : s = {}
      <3> SUFFICES ASSUME NEW s \in SUBSET S, Cardinality(s) <= 0 PROVE s = {}
        OBVIOUS
      <3> QED BY <1>1, FS_EmptySet
    <2>2. Part(g, 0)
      BY <2>1
    <2> HIDE DEF Part, g
    <2> QED BY <2>2, <1>1
  <1>4. ASSUME NEW n \in 1 .. N, n - 1 \in T PROVE n \in T
    <2>1. PICK h : Part(h, n - 1)
      BY <1>4
    <2> DEFINE g == [s \in Upto(n) |-> Step(h, s)]
    <2>2. \A s \in Upto(n) : s # {} => s \ {Least(s)} \in Upto(n - 1) /\ Least(s) \in S
      BY <1>11
    <2>3. \A s \in Upto(n) : Step(h, s) \in Int
      BY <2>1, <2>2
    <2>4. \A s \in Upto(n - 1) : s \in Upto(n) /\ g[s] = h[s]
      BY <2>1, <1>1
    <2>5. \A s \in Upto(n) : g[s] = Step(h, s)
      OBVIOUS
    <2>6. g \in [Upto(n) -> Int]
      BY <2>3
    <2> HIDE DEF g
    <2>7. \A s \in Upto(n) : Step(g, s) = Step(h, s)
      BY <2>2, <2>4
    <2>8. Part(g, n)
      BY <2>5, <2>6, <2>7
    <2> HIDE DEF Part
    <2> QED BY <2>8
  <1>5. N \in T
    <2> HIDE DEF T
    <2>1. 0 .. N \subseteq T
      BY <1>1, <1>3, <1>4, UpTo
    <2> QED BY <2>1, <1>1
  <1>6. Upto(N) = SUBSET S
    BY <1>1
  <1>7. \E g : g = [s \in SUBSET S |-> Step(g, s)]
    <2>1. PICK g : Part(g, N)
      BY <1>5
    <2>2. g = [s \in SUBSET S |-> Step(g, s)]
      BY <2>1, <1>6
    <2> QED BY <2>2
  <1> DEFINE iter == CHOOSE g : g = [s \in SUBSET S |-> Step(g, s)]
  <1>8. iter = [s \in SUBSET S |-> Step(iter, s)]
    BY <1>7, Zenon
  <1>9. SumOf(f, S) = iter[S]
    BY Zenon DEF SumOf, FoldFunctionOnSet, MapThenFoldSet, Least
  <1> HIDE DEF iter
  <1>10. iter \in [SUBSET S -> Int]
    <2> DEFINE U == {n \in 0 .. N : \A s \in Upto(n) : iter[s] \in Int}
    <2>1. \A s \in SUBSET S : iter[s] = Step(iter, s)
      BY <1>8
    <2>2. 0 \in U
      <3>1. \A s \in Upto(0) : s = {}
        BY <1>1, FS_EmptySet
      <3> QED BY <3>1, <2>1, <1>1
    <2>3. ASSUME NEW n \in 1 .. N, n - 1 \in U PROVE n \in U
      <3> SUFFICES ASSUME NEW s \in Upto(n) PROVE iter[s] \in Int
        OBVIOUS
      <3>1. CASE s = {}
        <4>1. iter[s] = 0
          BY <2>1, <3>1
        <4> HIDE DEF Step, Upto, U
        <4> QED BY <4>1
      <3>2. CASE s # {}
        <4>1. s \ {Least(s)} \in Upto(n - 1) /\ Least(s) \in S
          BY <1>11, <3>2
        <4>2. iter[s \ {Least(s)}] \in Int /\ f[Least(s)] \in Int
          BY <4>1, <2>3
        <4>3. iter[s] = f[Least(s)] + iter[s \ {Least(s)}]
          BY <2>1, <3>2
        <4> HIDE DEF Step, Upto, U
        <4> QED BY <4>2, <4>3
      <3> QED BY <3>1, <3>2
    <2>4. N \in U
      <3> HIDE DEF U
      <3>1. 0 .. N \subseteq U
        BY <1>1, <2>2, <2>3, UpTo
      <3> QED BY <3>1, <1>1
    <2> QED BY <2>4, <1>6, <1>8
  <1>12. Sums(iter, f, S)
    BY <1>8, <1>9, <1>10 DEF Sums
  <1> QED BY <1>12

\* Induction over the subsets of a finite set, the chosen element taken away.
LEMMA OverSubsets ==
  ASSUME NEW S, IsFiniteSet(S), NEW Q, {} \in Q,
         \A s \in SUBSET S : s # {} /\ s \ {Least(s)} \in Q => s \in Q
  PROVE  SUBSET S \subseteq Q
  <1> DEFINE N == Cardinality(S)
             U == {n \in 0 .. N : \A s \in SUBSET S : Cardinality(s) <= n => s \in Q}
  <1>1. N \in Nat
    BY FS_CardinalityType
  <1>2. ASSUME NEW s \in SUBSET S PROVE IsFiniteSet(s) /\ Cardinality(s) \in 0 .. N
    <2>1. IsFiniteSet(s) /\ Cardinality(s) <= N
      BY FS_Subset
    <2>2. Cardinality(s) \in Nat
      BY <2>1, FS_CardinalityType
    <2> QED BY <2>1, <2>2, <1>1
  <1>3. 0 \in U
    <2> SUFFICES ASSUME NEW s \in SUBSET S, Cardinality(s) <= 0 PROVE s \in Q
      BY <1>1
    <2>1. s = {}
      BY <1>2, FS_EmptySet
    <2> QED BY <2>1
  <1>4. ASSUME NEW n \in 1 .. N, n - 1 \in U PROVE n \in U
    <2> SUFFICES ASSUME NEW s \in SUBSET S, Cardinality(s) <= n, s # {} PROVE s \in Q
      OBVIOUS
    <2> DEFINE r == s \ {Least(s)}
    <2>1. Least(s) \in s
      BY DEF Least
    <2>2. IsFiniteSet(s) /\ Cardinality(s) \in Nat
      BY <1>2
    <2>3. Cardinality(r) = Cardinality(s) - 1
      BY <2>1, <2>2, FS_RemoveElement
    <2>4. r \in SUBSET S /\ Cardinality(r) <= n - 1
      BY <2>2, <2>3
    <2> HIDE DEF r
    <2>5. r \in Q
      BY <1>4, <2>4
    <2> QED BY <2>5 DEF r
  <1>5. N \in U
    <2> HIDE DEF U
    <2>1. 0 .. N \subseteq U
      BY <1>1, <1>3, <1>4, UpTo
    <2> QED BY <2>1, <1>1
  <1> QED BY <1>2, <1>5

\* A sum changes by what one of its terms does.
LEMMA SumChanges ==
  ASSUME NEW S, IsFiniteSet(S), NEW f \in [S -> Int], NEW g \in [S -> Int],
         NEW x \in S, \A y \in S : y # x => g[y] = f[y]
  PROVE  SumOf(g, S) = SumOf(f, S) + (g[x] - f[x]) /\ SumOf(f, S) \in Int
  <1>11. PICK F : Sums(F, f, S)
    BY SumRecursion
  <1>1. /\ SumOf(f, S) = F[S] /\ F \in [SUBSET S -> Int] /\ F[{}] = 0
       /\ \A s \in SUBSET S : s # {} => F[s] = f[Least(s)] + F[s \ {Least(s)}]
    BY <1>11 DEF Sums
  <1>12. PICK G : Sums(G, g, S)
    BY SumRecursion
  <1>2. /\ SumOf(g, S) = G[S] /\ G \in [SUBSET S -> Int] /\ G[{}] = 0
       /\ \A s \in SUBSET S : s # {} => G[s] = g[Least(s)] + G[s \ {Least(s)}]
    BY <1>12 DEF Sums
  <1> DEFINE d == g[x] - f[x]
             Q == {s \in SUBSET S : G[s] = IF x \in s THEN F[s] + d ELSE F[s]}
  <1>3. {} \in Q
    BY <1>1, <1>2
  <1>4. ASSUME NEW s \in SUBSET S, s # {}, s \ {Least(s)} \in Q PROVE s \in Q
    <2> DEFINE l == Least(s)
               r == s \ {l}
    <2>1. l \in s
      BY <1>4 DEF Least
    <2>2. F[s] = f[l] + F[r] /\ G[s] = g[l] + G[r]
      BY <1>1, <1>2, <1>4
    <2>3. r \in SUBSET S /\ G[r] = IF x \in r THEN F[r] + d ELSE F[r]
      BY <1>4
    <2> HIDE DEF l
    <2>4. x \in s <=> x \in r \/ x = l
      BY <2>1
    <2>5. x \in r => x # l
      OBVIOUS
    <2> HIDE DEF r
    <2>6. F[r] \in Int /\ G[r] \in Int /\ f[l] \in Int /\ g[l] \in Int /\ l \in S
      BY <1>1, <1>2, <2>1, <2>3
    <2>7. CASE x = l
      <3>1. G[r] = F[r] /\ x \in s
        BY <2>3, <2>4, <2>5, <2>7
      <3>2. G[s] = F[s] + (g[l] - f[l])
        BY <3>1, <2>2, <2>6
      <3> QED BY <3>1, <3>2, <2>7
    <2>8. CASE x # l
      <3>1. g[l] = f[l] /\ (x \in s <=> x \in r)
        BY <2>4, <2>6, <2>8
      <3>2. d \in Int
        OBVIOUS
      <3> HIDE DEF d
      <3>3. G[s] = IF x \in s THEN F[s] + d ELSE F[s]
        BY <3>1, <3>2, <2>2, <2>3, <2>6
      <3> QED BY <3>3
    <2> QED BY <2>7, <2>8
  <1>5. S \in Q
    <2> HIDE DEF Q
    <2>1. SUBSET S \subseteq Q
      BY <1>3, <1>4, OverSubsets
    <2> QED BY <2>1
  <1> QED BY <1>1, <1>2, <1>5

\* A sum of natural numbers is one, and 0 when every term is.
LEMMA SumNatural ==
  ASSUME NEW S, IsFiniteSet(S), NEW f \in [S -> Nat]
  PROVE  SumOf(f, S) \in Nat /\ ((\A x \in S : f[x] = 0) => SumOf(f, S) = 0)
  <1>1. f \in [S -> Int]
    OBVIOUS
  <1>12. PICK F : Sums(F, f, S)
    BY <1>1, SumRecursion
  <1>2. /\ SumOf(f, S) = F[S] /\ F \in [SUBSET S -> Int] /\ F[{}] = 0
       /\ \A s \in SUBSET S : s # {} => F[s] = f[Least(s)] + F[s \ {Least(s)}]
    BY <1>12 DEF Sums
  <1> DEFINE Q == {s \in SUBSET S : F[s] \in Nat /\ ((\A x \in S : f[x] = 0) => F[s] = 0)}
  <1>3. {} \in Q
    BY <1>2
  <1>4. ASSUME NEW s \in SUBSET S, s # {}, s \ {Least(s)} \in Q PROVE s \in Q
    <2>1. Least(s) \in S
      BY <1>4 DEF Least
    <2>2. F[s] = f[Least(s)] + F[s \ {Least(s)}]
      BY <1>2, <1>4
    <2>3. f[Least(s)] \in Nat
      BY <2>1
    <2> QED BY <2>1, <2>2, <2>3, <1>4
  <1>5. S \in Q
    <2> HIDE DEF Q
    <2>1. SUBSET S \subseteq Q
      BY <1>3, <1>4, OverSubsets
    <2> QED BY <2>1
  <1> QED BY <1>2, <1>5

(***************************************************************************)
(* Stacks of operations: sequences whose last element is the innermost.    *)
(***************************************************************************)

Sequence(s) == \E S : s \in Seq(S)

LEMMA Appended ==
  ASSUME NEW s, Sequence(s), NEW f
  PROVE  /\ Sequence(Append(s, f))
         /\ Len(s) \in Nat /\ DOMAIN s = 1 .. Len(s)
         /\ DOMAIN Append(s, f) = 1 .. Len(s) + 1
         /\ Len(Append(s, f)) = Len(s) + 1
         /\ \A i \in 1 .. Len(s) : Append(s, f)[i] = s[i]
         /\ Append(s, f)[Len(s) + 1] = f
  <1>1. PICK S : s \in Seq(S)
    BY DEF Sequence
  <1> DEFINE T == S \cup {f}
  <1>2. s \in Seq(T) /\ f \in T
    BY <1>1
  <1> HIDE DEF T
  <1>3. Append(s, f) \in Seq(T)
    BY <1>2
  <1> QED BY <1>2, <1>3 DEF Sequence

\* What is below the top of a stack.
Lower(s) == SubSeq(s, 1, Len(s) - 1)

LEMMA Popped ==
  ASSUME NEW s, Sequence(s), s # <<>>
  PROVE  /\ Sequence(Lower(s))
         /\ Len(s) \in Nat \ {0} /\ DOMAIN s = 1 .. Len(s)
         /\ DOMAIN Lower(s) = 1 .. Len(s) - 1 /\ Len(Lower(s)) = Len(s) - 1
         /\ \A i \in 1 .. Len(s) - 1 : Lower(s)[i] = s[i]
  <1>1. PICK S : s \in Seq(S)
    BY DEF Sequence
  <1>2. Len(s) \in Nat \ {0} /\ DOMAIN s = 1 .. Len(s)
    BY <1>1
  <1>3. /\ Lower(s) \in Seq(S) /\ Len(Lower(s)) = Len(s) - 1
        /\ \A i \in 1 .. Len(s) - 1 : Lower(s)[i] = s[i]
    BY <1>1, <1>2 DEF Lower
  <1> QED BY <1>2, <1>3 DEF Sequence

\* A concatenation of one or two frames is appending them.
LEMMA Concatenated ==
  ASSUME NEW s, Sequence(s), NEW f, NEW g
  PROVE  s \o <<f>> = Append(s, f) /\ s \o <<f, g>> = Append(Append(s, f), g)
  <1>1. PICK S : s \in Seq(S)
    BY DEF Sequence
  <1> DEFINE T == S \cup {f, g}
  <1>2. s \in Seq(T) /\ f \in T /\ g \in T
    BY <1>1
  <1> HIDE DEF T
  <1>3. s \o <<f>> = Append(s, f)
    BY <1>2
  <1>4. s \o <<f, g>> = Append(Append(s, f), g)
    BY <1>2
  <1> QED BY <1>3, <1>4

\* Putting another frame in the place of the top one.
LEMMA Replaced ==
  ASSUME NEW s, Sequence(s), s # <<>>, NEW f
  PROVE  /\ Sequence(Append(Lower(s), f))
         /\ Len(s) \in Nat \ {0} /\ DOMAIN s = 1 .. Len(s)
         /\ DOMAIN Append(Lower(s), f) = DOMAIN s /\ Len(s) \in DOMAIN s
         /\ Append(Lower(s), f)[Len(s)] = f
         /\ \A i \in DOMAIN s : i # Len(s) => Append(Lower(s), f)[i] = s[i]
  <1> DEFINE b == Lower(s)
  <1>1. /\ Sequence(b) /\ Len(s) \in Nat \ {0} /\ DOMAIN s = 1 .. Len(s)
        /\ Len(b) = Len(s) - 1 /\ \A i \in 1 .. Len(s) - 1 : b[i] = s[i]
    BY Popped
  <1> HIDE DEF b
  <1> DEFINE t == Append(b, f)
  <1>2. /\ Sequence(t) /\ DOMAIN t = 1 .. Len(b) + 1
        /\ \A i \in 1 .. Len(b) : t[i] = b[i]
        /\ t[Len(b) + 1] = f
    <2>1. Sequence(b)
      BY <1>1
    <2> QED BY <2>1, Appended
  <1> HIDE DEF t
  <1>3. DOMAIN t = DOMAIN s /\ Len(s) \in DOMAIN s /\ t[Len(s)] = f
    BY <1>1, <1>2
  <1>4. \A i \in DOMAIN s : i # Len(s) => t[i] = s[i]
    BY <1>1, <1>2
  <1> QED BY <1>1, <1>2, <1>3, <1>4 DEF b, t
=============================================================================
