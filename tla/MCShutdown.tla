----------------------------- MODULE MCShutdown -----------------------------
(* An instance of Shutdown for TLC. *)
EXTENDS Shutdown

\* Finalizers of functions, and of the instances with __del__, which may resurrect
\* themselves, do two things and the other code one.
Activity == [step \in {"str", "drop"} |-> 1]
WorkOf == [v \in Values |-> IF v \in WithDel \cup Functions THEN 2 ELSE 1]
=============================================================================
