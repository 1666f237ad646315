--------------------------- MODULE MCLifetimeChain ---------------------------
(***************************************************************************)
(* Lifetime on one long chain of objects of every mix of kinds.  Running   *)
(* code drops the head of the chain; the code a finalizer runs may drop    *)
(* the next object (`self.next = None`) and returns.                       *)
(***************************************************************************)
EXTENDS Lifetime

CONSTANT Length

ChainObj == 1 .. Length

ChainInit ==
    /\ life = [o \in Obj |-> "alive"]
    /\ kind \in [Obj -> Kinds]
    /\ ref = [o \in Obj |-> 1]
    /\ fields = [o \in Obj |-> IF o = Length THEN {} ELSE {o + 1}]
    /\ env = [v \in Var |-> 1]
    /\ spent = [o \in Obj |-> FALSE]
    /\ weakrefs = [o \in Obj |-> <<>>]
    /\ shape = [w \in Weak |-> None]
    /\ stack = <<>>
    /\ releaseDepth = 0 /\ finalizerDepth = 0
    /\ pendingReleases = <<>> /\ pendingFinalizations = <<>>

ChainCode ==
    \/ \E v \in Var : Drop(v)
    \/ InFinalizer /\ \E o \in Obj : Delete(Top.obj, o)
    \/ Return

ChainNext == ChainCode \/ Native

\* The native code of a release goes on, and the code it calls returns.
ChainSpec == ChainInit /\ [][ChainNext]_vars /\ WF_vars(Native) /\ WF_vars(Return) /\ WF_vars(ChainCode)

\* The whole chain is destroyed, whatever its kinds.
ChainReclaimed == <>(\A o \in Obj : life[o] = "dead")
=============================================================================
