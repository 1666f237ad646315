----------------------------- MODULE MCLifetime -----------------------------
(***************************************************************************)
(* Lifetime on small heaps: every program over two objects of different    *)
(* kinds, references and weak references.  Objects, references and weak    *)
(* references are interchangeable.                                         *)
(***************************************************************************)
EXTENDS Lifetime, TLC

\* A bound: the objects of a program are of different kinds.
DifferentKinds ==
    \A o, p \in Obj :
        o # p /\ life[o] # "unborn" /\ life[p] # "unborn" => kind[o] # kind[p]

Symmetry == Permutations(Obj) \cup Permutations(Var) \cup Permutations(Weak)
=============================================================================
