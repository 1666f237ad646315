------------------------------ MODULE Shutdown ------------------------------
(***************************************************************************)
(* tinypy_vm_destroy (src/core/vm.c) and the finalizers of the host's      *)
(* native values (native.c, value.c): instances of native types and native *)
(* functions.  Passes over the values the VM reaches finalize instances    *)
(* first and functions once no instance needs them; then a sweep frees     *)
(* everything and runs nothing.                                            *)
(*                                                                         *)
(* Every finalizer, __del__ and str() runs code, which may drop and take   *)
(* values, make new ones, and raise, read and release errors.  A value is  *)
(* `referenced` while anything but a pass, or its own finalizer, refers to *)
(* it: its reference count is 1 when a pass alone holds it.                *)
(***************************************************************************)
EXTENDS Diagnostics

CONSTANTS
    Instances,  \* of the host's native types, with finalizers
    Functions,  \* native functions with finalizers
    WithDel,    \* the instances of classes with __del__
    Initial,    \* the values there are at the start
    Passes,     \* TINYPY_SHUTDOWN_FINALIZE_PASSES
    Work        \* bound: how much the finalizer and the __del__ of each do

Values == Instances \cup Functions

ASSUME ValuesAssumption ==
    /\ Instances \cap Functions = {} /\ IsFiniteSet(Values)
    /\ WithDel \subseteq Instances /\ Initial \subseteq Values
    /\ Passes \in Nat \ {0} /\ Work \in [Values -> Nat]

VARIABLES
    born,       \* the values ever created
    alive,      \* those that are not freed
    referenced,
    fin,        \* finalization of each: "none", "running", "done"
    runs,       \* how often the finalizer of each ran, up to 2
    phase, pass,
    graph,      \* the values the pass found
    hold,       \* those it still holds a reference to
    todo,       \* those the loop of the phase has not reached
    made,       \* native_finalizable_created changed since the pass began
    unfinalized \* an instance was taken again before its finalizer

values == <<born, alive, referenced, fin, runs>>
passes == <<phase, pass, graph, hold, todo, unfinalized>>
vars == <<errors, stack, values, passes, made>>

(***************************************************************************)
(* Finalizers                                                              *)
(***************************************************************************)

\* native_instance_finalize and native_function_finalize, which a function
\* cannot begin again: it forgets its finalizer first.
Finalize(v, op, base) ==
    /\ fin' = [fin EXCEPT ![v] = IF v \in Functions THEN "done" ELSE "running"]
    /\ runs' = [runs EXCEPT ![v] = IF @ = 2 THEN 2 ELSE @ + 1]
    /\ stack' = Append(base, [op |-> op, step |-> "fin", value |-> v, fuel |-> Work[v]])

\* mutant: whether the finalizer ran is not asked.
Dies_Again(v, base) ==
    \/ /\ v \in WithDel
       /\ stack' = Append(base, [op |-> "die", step |-> "del", value |-> v, fuel |-> Work[v]])
       /\ UNCHANGED <<alive, fin, runs>>
    \/ /\ v \notin WithDel
       /\ Finalize(v, "die", base)
       /\ UNCHANGED alive

\* The last reference to v is gone: __del__ runs, unless the finalizer ran, then
\* the finalizer, once.
Dies(v, base) ==
    \/ /\ fin[v] # "none"
       /\ alive' = alive \ {v}
       /\ stack' = base
       /\ UNCHANGED <<fin, runs>>
    \/ /\ fin[v] = "none" /\ v \in WithDel
       /\ stack' = Append(base, [op |-> "die", step |-> "del", value |-> v, fuel |-> Work[v]])
       /\ UNCHANGED <<alive, fin, runs>>
    \/ /\ fin[v] = "none" /\ v \notin WithDel
       /\ Finalize(v, "die", base)
       /\ UNCHANGED alive

\* mutant: a resurrection does not count as a new value.
EndDel_Uncounted ==
    /\ AtTop("die", "del")
    /\ IF Top.value \in referenced
       THEN stack' = Below /\ UNCHANGED <<fin, runs>>
       ELSE Finalize(Top.value, "die", Below)
    /\ UNCHANGED <<errors, passes, born, alive, referenced, made>>

\* __del__ is done: the instance is resurrected, which counts as a new one, or
\* its finalizer runs.
EndDel ==
    /\ AtTop("die", "del")
    /\ IF Top.value \in referenced
       THEN stack' = Below /\ made' = TRUE /\ UNCHANGED <<fin, runs>>
       ELSE Finalize(Top.value, "die", Below) /\ UNCHANGED made
    /\ UNCHANGED <<errors, passes, born, alive, referenced>>

\* mutant: a dying value is freed even if its finalizer handed it out.
EndFinalize_Frees ==
    /\ stack # <<>> /\ Top.step = "fin"
    /\ fin' = [fin EXCEPT ![Top.value] = "done"]
    /\ alive' = IF Top.op = "die" THEN alive \ {Top.value} ELSE alive
    /\ stack' = Below
    /\ UNCHANGED <<errors, passes, born, referenced, runs, made>>

\* The finalizer is done: a dying value that it did not resurrect is freed.
EndFinalize ==
    /\ stack # <<>> /\ Top.step = "fin"
    /\ fin' = [fin EXCEPT ![Top.value] = "done"]
    /\ alive' = IF Top.op = "die" /\ Top.value \notin referenced THEN alive \ {Top.value} ELSE alive
    /\ stack' = Below
    /\ UNCHANGED <<errors, passes, born, referenced, runs, made>>

(***************************************************************************)
(* What code does                                                          *)
(***************************************************************************)

\* A native value with a finalizer is created, and counted.  It may be a new one
\* where one was freed.
Create(v) ==
    /\ Acts /\ v \notin alive
    /\ born' = born \cup {v}
    /\ alive' = alive \cup {v}
    /\ referenced' = referenced \cup {v}
    /\ fin' = [fin EXCEPT ![v] = "none"]
    /\ runs' = [runs EXCEPT ![v] = 0]
    /\ made' = TRUE
    /\ stack' = Spent
    /\ UNCHANGED <<errors, passes>>

\* A value whose finalizers are running has a reference of its own.
Busy == {stack[i].value : i \in {j \in DOMAIN stack : stack[j].op \in {"die", "finalize"}}}

\* The program drops its last reference to v.
Drop(v) ==
    /\ Calls /\ v \in referenced
    /\ referenced' = referenced \ {v}
    /\ IF v \in hold \cup Busy
       THEN stack' = Spent /\ UNCHANGED <<alive, fin, runs>>
       ELSE Dies(v, Spent)
    /\ UNCHANGED <<errors, passes, born, made>>

\* Code takes a value without other references: the one it finalizes, or one a
\* pass holds, through a weak reference.
Take(v) ==
    /\ Acts /\ v \notin referenced
    /\ v \in hold \/ (Top.op \in {"die", "finalize"} /\ v = Top.value)
    /\ referenced' = referenced \cup {v}
    /\ stack' = Spent
    /\ UNCHANGED <<errors, passes, born, alive, fin, runs, made>>

(***************************************************************************)
(* tinypy_vm_destroy                                                       *)
(***************************************************************************)

Idle(p) == stack = <<>> /\ phase = p
MoveTo(p, t) == phase' = p /\ todo' = t

Settled == ~unfinalized /\ ~made

\* render_pending: the diagnostic at the head is rendered until there is none.
RenderPending ==
    /\ Idle("render") /\ links.head["pending"] # NoError
    /\ StartRender(links.head["pending"], <<>>)
    /\ UNCHANGED <<values, passes, made>>

\* mutant: no pass is the last one.
BeginPass_Endless ==
    /\ Idle("render") /\ links.head["pending"] = NoError
    /\ pass = 0 \/ ~Settled
    /\ pass' = 1
    /\ graph' = alive /\ hold' = alive
    /\ made' = FALSE /\ unfinalized' = FALSE
    /\ MoveTo("instances", alive \cap Instances)
    /\ UNCHANGED <<errors, stack, values>>

\* A pass begins: it collects the values and holds them.
BeginPass ==
    /\ Idle("render") /\ links.head["pending"] = NoError
    /\ pass = 0 \/ (pass < Passes /\ ~Settled)
    /\ pass' = pass + 1
    /\ graph' = alive /\ hold' = alive
    /\ made' = FALSE /\ unfinalized' = FALSE
    /\ MoveTo("instances", alive \cap Instances)
    /\ UNCHANGED <<errors, stack, values>>

\* An instance is finalized, unless the pass alone still holds it: that one is
\* released as usual.
PassInstance(v) ==
    /\ Idle("instances") /\ v \in todo
    /\ todo' = todo \ {v}
    /\ IF v \in referenced /\ fin[v] = "none"
       THEN Finalize(v, "finalize", <<>>)
       ELSE UNCHANGED <<stack, fin, runs>>
    /\ UNCHANGED <<errors, born, alive, referenced, phase, pass, graph, hold, unfinalized, made>>

InstancesPassed ==
    /\ Idle("instances") /\ todo = {}
    /\ MoveTo("release", graph \cap Instances)
    /\ UNCHANGED <<errors, stack, values, pass, graph, hold, unfinalized, made>>

\* mutant: an instance that was taken again is forgotten.
ReleaseInstance_Forgets(v) ==
    /\ Idle("release") /\ v \in todo
    /\ todo' = todo \ {v}
    /\ hold' = hold \ {v}
    /\ IF v \in referenced THEN UNCHANGED <<stack, alive, fin, runs>> ELSE Dies(v, <<>>)
    /\ UNCHANGED <<errors, born, referenced, phase, pass, graph, unfinalized, made>>

\* The pass lets go of an instance, which dies unless it was taken again.
ReleaseInstance(v) ==
    /\ Idle("release") /\ v \in todo
    /\ todo' = todo \ {v}
    /\ hold' = hold \ {v}
    /\ unfinalized' = (unfinalized \/ (v \in referenced /\ fin[v] = "none"))
    /\ IF v \in referenced THEN UNCHANGED <<stack, alive, fin, runs>> ELSE Dies(v, <<>>)
    /\ UNCHANGED <<errors, born, referenced, phase, pass, graph, made>>

\* The functions are finalized now, or left to a later pass.
InstancesReleased ==
    /\ Idle("release") /\ todo = {}
    /\ IF Settled \/ pass = Passes
       THEN MoveTo("functions", graph \cap Functions)
       ELSE MoveTo("unhold", graph \cap Functions)
    /\ UNCHANGED <<errors, stack, values, pass, graph, hold, unfinalized, made>>

PassFunction(f) ==
    /\ Idle("functions") /\ f \in todo
    /\ todo' = todo \ {f}
    /\ IF fin[f] = "none" THEN Finalize(f, "finalize", <<>>) ELSE UNCHANGED <<stack, fin, runs>>
    /\ UNCHANGED <<errors, born, alive, referenced, phase, pass, graph, hold, unfinalized, made>>

FunctionsPassed ==
    /\ Idle("functions") /\ todo = {}
    /\ MoveTo("unhold", graph \cap Functions)
    /\ UNCHANGED <<errors, stack, values, pass, graph, hold, unfinalized, made>>

ReleaseFunction(f) ==
    /\ Idle("unhold") /\ f \in todo
    /\ todo' = todo \ {f}
    /\ hold' = hold \ {f}
    /\ IF f \in referenced THEN UNCHANGED <<stack, alive, fin, runs>> ELSE Dies(f, <<>>)
    /\ UNCHANGED <<errors, born, referenced, phase, pass, graph, unfinalized, made>>

\* mutant: what the last functions raise is not rendered.
EndPass_Unrendered ==
    /\ Idle("unhold") /\ todo = {}
    /\ IF pass = Passes THEN MoveTo("sweep", {}) ELSE MoveTo("render", {})
    /\ UNCHANGED <<errors, stack, values, pass, graph, hold, unfinalized, made>>

\* The diagnostics the pass raised are rendered.
EndPass ==
    /\ Idle("unhold") /\ todo = {}
    /\ MoveTo("render", {})
    /\ UNCHANGED <<errors, stack, values, pass, graph, hold, unfinalized, made>>

\* No pass is left to do: the VM stops running code.
BeginSweep ==
    /\ Idle("render") /\ links.head["pending"] = NoError
    /\ pass > 0 /\ (pass = Passes \/ Settled)
    /\ MoveTo("sweep", {})
    /\ UNCHANGED <<errors, stack, values, pass, graph, hold, unfinalized, made>>

\* The sweep frees the values, and the errors leave the VM, which is freed.
Sweep ==
    /\ Idle("sweep")
    /\ alive' = {} /\ referenced' = {}
    /\ DetachAll /\ bytes' = 0
    /\ MoveTo("gone", {})
    /\ UNCHANGED <<raised, records, held, exception, rendering, released, message,
                   stack, born, fin, runs, pass, graph, hold, unfinalized, made>>

HostReleases(e) ==
    /\ Idle("gone")
    /\ ReleaseDetached(e)
    /\ UNCHANGED <<values, passes, made>>

(***************************************************************************)
(* Specification                                                           *)
(***************************************************************************)

Init ==
    /\ \E e \in Unread : HoldsDiagnostic(e)
    /\ born = Initial /\ alive = Initial /\ referenced = Initial
    /\ fin = [v \in Values |-> "none"]
    /\ runs = [v \in Values |-> 0]
    /\ phase = "render" /\ pass = 0
    /\ graph = {} /\ hold = {} /\ todo = {}
    /\ made = FALSE /\ unfinalized = FALSE
    /\ stack = <<>>

Code ==
    \/ (CodeRaises \/ Renders) /\ UNCHANGED <<values, passes, made>>
    \/ \E v \in Values : Create(v) \/ Drop(v) \/ Take(v)
    \/ EndDel \/ EndFinalize

Destroy ==
    \/ RenderPending \/ BeginPass
    \/ InstancesPassed \/ InstancesReleased \/ FunctionsPassed \/ EndPass
    \/ \E v \in Values : PassInstance(v) \/ ReleaseInstance(v) \/ PassFunction(v) \/ ReleaseFunction(v)
    \/ BeginSweep \/ Sweep

Next == Code \/ Destroy \/ \E e \in Errors : HostReleases(e)

Spec == Init /\ [][Next]_vars /\ WF_vars(Code \/ Destroy)

(***************************************************************************)
(* Properties                                                              *)
(***************************************************************************)

TypeOk ==
    /\ ErrorsTypeOk
    /\ born \subseteq Values /\ alive \subseteq born /\ referenced \subseteq alive
    /\ fin \in [Values -> {"none", "running", "done"}]
    /\ runs \in [Values -> 0 .. 2]
    /\ phase \in {"render", "instances", "release", "functions", "unhold", "sweep", "gone"}
    /\ pass \in 0 .. Passes
    /\ hold \subseteq graph /\ todo \subseteq graph /\ graph \subseteq Values
    /\ made \in BOOLEAN /\ unfinalized \in BOOLEAN

\* "Finalizers run exactly once": never twice, whether a value dies, is
\* resurrected by its finalizer or is finalized by a pass; and a value that is
\* freed before the sweep had its finalizer.
FinalizedOnce ==
    \A v \in Values :
        /\ runs[v] <= 1
        /\ phase # "gone" /\ v \in born \ alive => runs[v] = 1

\* The sweep frees a value whose finalizer never ran only after the last pass,
\* and only when that pass created values or had an instance taken again.
SweptFinalized ==
    phase = "sweep" /\ (\E v \in alive : fin[v] = "none") => pass = Passes /\ ~Settled

\* No function is finalized by a pass, the last one excepted, as long as an
\* instance still has its finalizer or its __del__ to run, which may call it.
InstancesFirst ==
    [][phase # "functions" /\ phase' = "functions" /\ pass < Passes =>
          \A v \in alive \cap Instances : fin[v] = "done"]_vars

\* When the VM is freed, the errors the host still has refer neither to it nor
\* to an exception it had, and no finalizer is left half-way.
NothingRefersToVm ==
    phase = "gone" =>
        /\ attached = {} /\ exception = {} /\ rendering = {}
        /\ \A v \in Values : fin[v] # "running"

\* However often finalizers create values and resurrect instances, tinypy_vm_destroy
\* returns once the code it runs does.
Destroyed == <>(phase = "gone")
=============================================================================
