------------------------------- MODULE MCDict -------------------------------
(***************************************************************************)
(* Dict for TLC: keys whose probes start at the same slot or cross, two of *)
(* them equal.                                                             *)
(***************************************************************************)
EXTENDS Dict, TLC

CONSTANTS a, b, c, d

\* b and c are equal; the probe of d joins the probe of the others.
MapKeys  == {a, b, c, d}
MapHash  == a :> 0 @@ b :> 0 @@ c :> 0 @@ d :> 1
MapClass == a :> 1 @@ b :> 2 @@ c :> 2 @@ d :> 3

\* All different, two and two of the same hash.
AnyKeys  == {a, b, d}
AnyHash  == a :> 0 @@ b :> 0 @@ d :> 1
AnyClass == a :> 1 @@ b :> 2 @@ d :> 3

\* Two of one hash and two of another, all different.
FullKeys  == {a, b, c, d}
FullHash  == a :> 0 @@ b :> 0 @@ c :> 1 @@ d :> 1
FullClass == a :> 1 @@ b :> 2 @@ c :> 3 @@ d :> 4

\* The probe of a and b visits slots 0, 1, 0 again and 2 of a table of four.
AgainHash == a :> 1088 @@ b :> 1088 @@ d :> 1

Addresses == Permutations(Addr)

\* No step depends on the answer.
TableView == <<table, mask, fill, used, home, finger, old, next, stack>>
=============================================================================
