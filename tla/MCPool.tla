------------------------------- MODULE MCPool -------------------------------
(***************************************************************************)
(* Pool on a small geometry: pools of three 8-byte or two 12-byte blocks,  *)
(* arenas of three pools (two when misaligned) and an arena table of one   *)
(* entry that doubles.                                                     *)
(***************************************************************************)
EXTENDS Pool

NoBudget    == {0}
OneClass    == [b \in NoBudget |-> {12}]

\* Two size classes without a budget; a size class and direct blocks with one,
\* or before the VM has its budget, when the host may refuse memory too.
SomeBudgets == {0, 116, 200}
AllSizes    == [b \in SomeBudgets |-> IF b = 0 THEN {8, 12, 40} ELSE {12, 20, 40}]
=============================================================================
