---------------------------- MODULE Diagnostics ----------------------------
(***************************************************************************)
(* Error records (src/core/error.c).  An error that keeps its exception is *)
(* a diagnostic to be rendered and is on the VM's pending list; any other  *)
(* is on its list of errors.  Rendering runs str() of the exception and    *)
(* then releases it: code that may raise, read and release errors, the     *)
(* one being rendered included.                                            *)
(*                                                                         *)
(* The activations of that code are the frames of `stack`, the innermost   *)
(* last; what else they do is for the module that extends this one.        *)
(***************************************************************************)
EXTENDS Naturals, Sequences, FiniteSets

CONSTANTS
    Errors,     \* the records code raises
    Unread,     \* those the host may hold unread at the start, or NULL
    NoError,    \* NULL
    Fuel,       \* bound: how much str() of an exception, and its release, do
    MaxDepth    \* bound: activations inside one another

ASSUME ErrorsAssumption ==
    NoError \notin Errors /\ IsFiniteSet(Errors) /\ Unread \subseteq Errors \cup {NoError}
ASSUME BoundsAssumption == Fuel \in [{"str", "drop"} -> Nat] /\ MaxDepth \in Nat

VARIABLES
    raised,     \* the records ever made
    records,    \* those that are allocated
    held,       \* those the host has not released
    exception,  \* those that keep their exception
    rendering, released, message,   \* flags, and a rendered message, of records
    attached,   \* those whose vm is not NULL
    links,      \* the two lists: heads, and next and previous of each record
    bytes,      \* allocated_bytes: records and messages
    stack

errors == <<raised, records, held, exception, rendering, released, message,
            attached, links, bytes>>

Top == stack[Len(stack)]
Below == SubSeq(stack, 1, Len(stack) - 1)
AtTop(op, step) == stack # <<>> /\ Top.op = op /\ Top.step = step

\* The code on top does one more thing.
Acts == stack # <<>> /\ Top.fuel > 0
Calls == Acts /\ Len(stack) < MaxDepth
Spent == Append(Below, [Top EXCEPT !.fuel = @ - 1])

\* error_list: the list a record is on.
ListOf(e) == IF e \in exception THEN "pending" ELSE "errors"

\* error_link and error_unlink, on the list `list` of l.
Linked(l, e, list) ==
    [head |-> [l.head EXCEPT ![list] = e],
     nxt  |-> [l.nxt EXCEPT ![e] = l.head[list]],
     prv  |-> [x \in Errors |-> CASE x = e -> NoError
                                  [] x # e /\ x = l.head[list] -> e
                                  [] OTHER -> l.prv[x]]]

Unlinked(l, e, list) ==
    LET p == l.prv[e]
        n == l.nxt[e]
    IN  [head |-> [l.head EXCEPT ![list] = IF p = NoError THEN n ELSE @],
         nxt  |-> [x \in Errors |-> IF x = p THEN n ELSE l.nxt[x]],
         prv  |-> [x \in Errors |-> IF x = n THEN p ELSE l.prv[x]]]

\* A record is made; `keeps` says that it is a diagnostic of an exception.
Raise(e, keeps) ==
    /\ Acts /\ e \notin raised
    /\ raised' = raised \cup {e}
    /\ records' = records \cup {e}
    /\ held' = held \cup {e}
    /\ attached' = attached \cup {e}
    /\ exception' = IF keeps THEN exception \cup {e} ELSE exception
    /\ links' = Linked(links, e, IF keeps THEN "pending" ELSE "errors")
    /\ bytes' = bytes + 1
    /\ stack' = Spent
    /\ UNCHANGED <<rendering, released, message>>

\* mutant: the exception is set aside before the record leaves its list.
StartRender_ClearsFirst(e, base) ==
    /\ exception' = exception \ {e}
    /\ links' = Linked(Unlinked(links, e, "errors"), e, "errors")
    /\ rendering' = rendering \cup {e}
    /\ stack' = Append(base, [op |-> "render", step |-> "str", error |-> e, fuel |-> Fuel["str"]])
    /\ UNCHANGED <<raised, records, held, released, message, attached, bytes>>

\* error_render, up to the call of str().
StartRender(e, base) ==
    /\ exception' = exception \ {e}
    /\ links' = Linked(Unlinked(links, e, ListOf(e)), e, "errors")
    /\ rendering' = rendering \cup {e}
    /\ stack' = Append(base, [op |-> "render", step |-> "str", error |-> e, fuel |-> Fuel["str"]])
    /\ UNCHANGED <<raised, records, held, released, message, attached, bytes>>

\* tinypy_error_message of a diagnostic renders it.
Read(e) ==
    /\ Calls /\ e \in held /\ e \in exception
    /\ StartRender(e, Spent)

\* mutant: a message is stored for a record that was released.
StoreMessage_Uncounted ==
    /\ AtTop("render", "str")
    /\ message' = message \cup {Top.error}
    /\ bytes' = IF Top.error \in released THEN bytes ELSE bytes + 1
    /\ stack' = Append(Below, [Top EXCEPT !.step = "drop", !.fuel = Fuel["drop"]])
    /\ UNCHANGED <<raised, records, held, exception, rendering, released, attached, links>>

\* str() is done: the message is kept, unless the record was released meanwhile.
\* The exception and its class are released.
StoreMessage ==
    /\ AtTop("render", "str")
    /\ IF Top.error \in released
       THEN UNCHANGED <<message, bytes>>
       ELSE message' = message \cup {Top.error} /\ bytes' = bytes + 1
    /\ stack' = Append(Below, [Top EXCEPT !.step = "drop", !.fuel = Fuel["drop"]])
    /\ UNCHANGED <<raised, records, held, exception, rendering, released, attached, links>>

\* error_free.
Free(e) ==
    /\ records' = records \ {e}
    /\ message' = message \ {e}
    /\ attached' = attached \ {e}
    /\ exception' = exception \ {e}
    /\ IF e \in attached
       THEN /\ links' = [Unlinked(links, e, ListOf(e)) EXCEPT !.nxt[e] = NoError, !.prv[e] = NoError]
            /\ bytes' = bytes - (IF e \in message THEN 2 ELSE 1)
       ELSE UNCHANGED <<links, bytes>>

EndRender ==
    /\ AtTop("render", "drop")
    /\ rendering' = rendering \ {Top.error}
    /\ released' = released \ {Top.error}
    /\ IF Top.error \in released
       THEN Free(Top.error)
       ELSE UNCHANGED <<records, exception, message, attached, links, bytes>>
    /\ stack' = Below
    /\ UNCHANGED <<raised, held>>

\* mutant: a record that is being rendered is freed at once.
Release_AtOnce(e) ==
    /\ Calls /\ e \in held
    /\ held' = held \ {e}
    /\ Free(e)
    /\ stack' = Spent
    /\ UNCHANGED <<raised, rendering, released>>

\* tinypy_error_release.  The exception of a record that was never rendered is
\* released once the record is freed.
Release(e) ==
    /\ Calls /\ e \in held
    /\ held' = held \ {e}
    /\ IF e \in rendering
       THEN /\ released' = released \cup {e}
            /\ stack' = Spent
            /\ UNCHANGED <<records, exception, message, attached, links, bytes>>
       ELSE /\ Free(e)
            /\ stack' = IF e \in exception
                        THEN Append(Spent, [op |-> "release", step |-> "drop", fuel |-> Fuel["drop"]])
                        ELSE Spent
            /\ UNCHANGED released
    /\ UNCHANGED <<raised, rendering>>

EndRelease ==
    /\ AtTop("release", "drop")
    /\ stack' = Below
    /\ UNCHANGED errors

\* error_detach_all, and what the host does with the records it still has once
\* the VM is freed.
DetachAll ==
    LET reached == {r \in SUBSET Errors : links.head["errors"] \in r \cup {NoError}
                                        /\ \A e \in r : links.nxt[e] \in r \cup {NoError}}
    IN  /\ attached' = {e \in attached : \E r \in reached : e \notin r}
        /\ links' = [links EXCEPT !.head["errors"] = NoError]

ReleaseDetached(e) ==
    /\ e \in held
    /\ held' = held \ {e}
    /\ Free(e)
    /\ UNCHANGED <<raised, rendering, released, stack>>

\* The host holds the diagnostic e, or no error if e is NULL.
HoldsDiagnostic(e) ==
    LET s == {e} \ {NoError} IN
    /\ raised = s /\ records = s /\ held = s /\ exception = s /\ attached = s
    /\ rendering = {} /\ released = {} /\ message = {} /\ bytes = Cardinality(s)
    /\ links = [head |-> [l \in {"pending", "errors"} |-> IF l = "pending" THEN e ELSE NoError],
                nxt  |-> [x \in Errors |-> NoError],
                prv  |-> [x \in Errors |-> NoError]]

CodeRaises == \E e \in Errors : (\E keeps \in BOOLEAN : Raise(e, keeps)) \/ Read(e) \/ Release(e)
Renders == StoreMessage \/ EndRender \/ EndRelease

(***************************************************************************)
(* Properties                                                              *)
(***************************************************************************)

ErrorsTypeOk ==
    /\ records \subseteq raised /\ held \subseteq records /\ raised \subseteq Errors
    /\ exception \subseteq records /\ message \subseteq records /\ attached \subseteq records
    /\ rendering \subseteq Errors /\ released \subseteq rendering
    /\ links.head \in [{"pending", "errors"} -> Errors \cup {NoError}]
    /\ links.nxt \in [Errors -> Errors \cup {NoError}]
    /\ links.prv \in [Errors -> Errors \cup {NoError}]
    /\ bytes \in Nat

\* Both lists of the VM are sound whatever code did to the record at hand: a
\* record is on the pending list exactly as long as it keeps its exception, on
\* the other list until it is freed or the VM is, and the lists have no others.
ListsSound ==
    LET On(l) == {e \in attached : ListOf(e) = l} IN
    /\ \A e \in attached :
          /\ IF links.prv[e] = NoError THEN links.head[ListOf(e)] = e
             ELSE links.prv[e] \in On(ListOf(e)) /\ links.nxt[links.prv[e]] = e
          /\ links.nxt[e] # NoError =>
                links.nxt[e] \in On(ListOf(e)) /\ links.prv[links.nxt[e]] = e
    /\ \A l \in {"pending", "errors"} :
          IF links.head[l] = NoError THEN On(l) = {}
          ELSE links.head[l] \in On(l) /\ links.prv[links.head[l]] = NoError

\* The VM counts each record it still lists, and the message rendered into it.
BytesCounted == bytes = Cardinality(attached) + Cardinality(message \cap attached)

\* A record is allocated as long as its rendering is under way, and its
\* rendering runs at most once.
RenderingKept ==
    \A i \in DOMAIN stack : stack[i].op = "render" =>
        /\ stack[i].error \in records \cap rendering
        /\ \A j \in DOMAIN stack : j # i /\ stack[j].op = "render" => stack[j].error # stack[i].error
=============================================================================
