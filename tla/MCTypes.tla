------------------------------ MODULE MCTypes ------------------------------
(***************************************************************************)
(* Types on small hierarchies.  A is derived from the exception E and from *)
(* the old-style X, and C from A; A may be given the exception F as its    *)
(* base, whose instances have the same layout.                             *)
(***************************************************************************)
EXTENDS Types, TLC

CONSTANTS O, E, F, A, C, D, P, X, Ini, Del

StartChain  == A :> <<E, X>> @@ C :> <<A>>
OrdersChain == A :> <<A, E, O, X>> @@ C :> <<C, A, E, O, X>>
Rebases == A :> {<<F>>} @@ C :> {<<A>>}

Names(os, fs) == [c \in Classes |-> IF c = O THEN os ELSE IF c = F THEN fs ELSE {}]
ChainDefs == {Names({}, {}), Names({Ini}, {Ini})}
ChainSites == {<<A, Ini>>, <<X, Ini>>}
ChainUses == {<<A, "fin">>, <<C, "init">>}

\* A bound, in two parts: where object has __init__, programs create classes
\* and assign bases, and look __init__ up; where it has not, they change
\* classes and look up __init__ and __del__.
Finalizes(s) == \E i \in DOMAIN s : s[i].op = "lookup" /\ s[i].use = "fin"
Programs == IF Ini \in defs[O] THEN defs' = defs /\ ~Finalizes(stack')
                               ELSE hierarchy' = hierarchy

\* A and D, both derived from P.
StartPair  == P :> <<O>> @@ A :> <<P>> @@ D :> <<P>>
OrdersPair == P :> <<P, O>> @@ A :> <<A, P, O>> @@ D :> <<D, P, O>>
NoDefs == {[c \in Classes |-> {}]}

\* A defines and deletes __del__ and is looked up by dying instances.
NoRebases == [t \in Heap |-> {}]
DelSites == {<<A, Del>>}
DelUses == {<<A, "fin">>}

\* Each may be given the other as its base.
EachOther == P :> {} @@ A :> {<<D>>} @@ D :> {<<A>>}
=============================================================================
