------------------------------ MODULE DictMap ------------------------------
(***************************************************************************)
(* What a dictionary promises (dict.h): a map from classes of equal keys   *)
(* to the first key stored and the last value, whose operations take       *)
(* effect one at a time or fail without a trace.                           *)
(***************************************************************************)
CONSTANTS Key, Value, None, Class

VARIABLES content, answer

vars == <<content, answer>>

Entry(k, v)       == [key |-> k, value |-> v]
Reply(op, k, r)   == answer' = [op |-> op, key |-> k, result |-> r]
At(k)             == content[Class[k]]
ValueOf(e)        == IF e = None THEN None ELSE e.value

Init == content = [c \in {Class[k] : k \in Key} |-> None] /\ answer = None

Get(k) == Reply("get", k, ValueOf(At(k))) /\ UNCHANGED content

Set(k, v) ==
    /\ Reply("set", k, v)
    /\ content' = [content EXCEPT ![Class[k]] = IF @ = None THEN Entry(k, v) ELSE Entry(@.key, v)]

SetDefault(k, v) ==
    /\ Reply("setdefault", k, IF At(k) = None THEN v ELSE ValueOf(At(k)))
    /\ content' = [content EXCEPT ![Class[k]] = IF @ = None THEN Entry(k, v) ELSE @]

Delete(k) ==
    /\ Reply("delete", k, ValueOf(At(k)))
    /\ content' = [content EXCEPT ![Class[k]] = None]

Pop(c) ==
    /\ content[c] # None
    /\ Reply("pop", content[c].key, content[c].value)
    /\ content' = [content EXCEPT ![c] = None]

Clear == Reply("clear", None, None) /\ content' = [c \in DOMAIN content |-> None]

Fail == Reply("error", None, None) /\ UNCHANGED content

\* Between operations, and while one is in progress.
Rest == answer' = None /\ UNCHANGED content

Next ==
    \/ Rest
    \/ \E k \in Key : Get(k) \/ Delete(k)
    \/ \E k \in Key, v \in Value : Set(k, v) \/ SetDefault(k, v)
    \/ \E c \in DOMAIN content : Pop(c)
    \/ Clear
    \/ Fail

Spec == Init /\ [][Next]_vars
=============================================================================
