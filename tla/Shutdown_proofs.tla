-------------------------- MODULE Shutdown_proofs --------------------------
(***************************************************************************)
(* Theorems about Diagnostics and Shutdown, for any errors and values, any *)
(* number of passes and any code that runs inside them.                    *)
(***************************************************************************)
EXTENDS Shutdown, Collections, FiniteSetTheorems, TLAPS

(***************************************************************************)
(* The lists of errors                                                     *)
(***************************************************************************)

Lists == {"pending", "errors"}
ListIn(ex, e) == IF e \in ex THEN "pending" ELSE "errors"

\* Heads hd, next nx and previous pv link the records at; those that have their
\* exception, ex, are on one list and the others on the other one.
Chained(hd, nx, pv, at, ex) ==
    /\ at \subseteq Errors
    /\ DOMAIN hd = Lists /\ DOMAIN nx = Errors /\ DOMAIN pv = Errors
    /\ \A e \in at :
          /\ pv[e] = NoError => hd[ListIn(ex, e)] = e
          /\ pv[e] # NoError =>
                pv[e] \in at /\ ListIn(ex, pv[e]) = ListIn(ex, e) /\ nx[pv[e]] = e
          /\ nx[e] # NoError =>
                nx[e] \in at /\ ListIn(ex, nx[e]) = ListIn(ex, e) /\ pv[nx[e]] = e
    /\ \A l \in Lists : hd[l] # NoError =>
          hd[l] \in at /\ ListIn(ex, hd[l]) = l /\ pv[hd[l]] = NoError

\* Every record is reached from a head: a set of records has one whose previous
\* record is not in it.
Founded(pv, at) == \A s \in SUBSET at : s # {} => \E e \in s : pv[e] \notin s

LEMMA LinkChained ==
  ASSUME NEW l, NEW at, NEW ex, NEW e \in Errors, NEW list \in Lists, NEW ex2,
         Chained(l.head, l.nxt, l.prv, at, ex), e \notin at,
         ListIn(ex2, e) = list, \A x \in at : ListIn(ex2, x) = ListIn(ex, x),
         NEW m, m = Linked(l, e, list)
  PROVE  Chained(m.head, m.nxt, m.prv, at \cup {e}, ex2)
  <1> DEFINE hd == l.head
             nx == l.nxt
             pv == l.prv
             hm == m.head
             nm == m.nxt
             pm == m.prv
             h == hd[list]
             at2 == at \cup {e}
  <1>1. NoError \notin Errors
    BY ErrorsAssumption
  <1>2. Chained(hd, nx, pv, at, ex)
    OBVIOUS
  <1>3. /\ hm = [hd EXCEPT ![list] = e]
        /\ nm = [nx EXCEPT ![e] = h]
        /\ pm = [x \in Errors |-> CASE x = e -> NoError
                                    [] x # e /\ x = h -> e
                                    [] OTHER -> pv[x]]
    BY DEF Linked
  <1> HIDE DEF hd, nx, pv, hm, nm, pm, at2
  <1>4. /\ at \subseteq Errors /\ DOMAIN hd = Lists /\ DOMAIN nx = Errors /\ DOMAIN pv = Errors
    BY <1>2 DEF Chained
  <1>5. /\ DOMAIN hm = Lists /\ DOMAIN nm = Errors /\ DOMAIN pm = Errors
        /\ hm[list] = e /\ \A k \in Lists : k # list => hm[k] = hd[k]
        /\ nm[e] = h /\ \A x \in Errors : x # e => nm[x] = nx[x]
        /\ pm[e] = NoError
        /\ \A x \in Errors : x # e /\ x = h => pm[x] = e
        /\ \A x \in Errors : x # e /\ x # h => pm[x] = pv[x]
    BY <1>3, <1>4
  <1> HIDE DEF h
  <1>6. h # NoError => h \in at /\ ListIn(ex, h) = list /\ pv[h] = NoError
    BY <1>2 DEF Chained, h
  <1>7. \A x \in at : x \in Errors /\ x # e /\ x # NoError
    BY <1>1, <1>4
  <1>8. \A x \in at :
          /\ pv[x] = NoError => hd[ListIn(ex, x)] = x
          /\ pv[x] # NoError =>
                pv[x] \in at /\ ListIn(ex, pv[x]) = ListIn(ex, x) /\ nx[pv[x]] = x
          /\ nx[x] # NoError =>
                nx[x] \in at /\ ListIn(ex, nx[x]) = ListIn(ex, x) /\ pv[nx[x]] = x
    BY <1>2 DEF Chained
  <1>9. \A x \in at : pm[x] = NoError => hm[ListIn(ex2, x)] = x
    <2> SUFFICES ASSUME NEW x \in at, pm[x] = NoError
                 PROVE  hm[ListIn(ex2, x)] = x
      OBVIOUS
    <2>1. x # h /\ pv[x] = NoError
      BY <1>1, <1>5, <1>7
    <2>2. hd[ListIn(ex, x)] = x
      BY <1>8, <2>1
    <2>3. ListIn(ex, x) # list
      BY <2>1, <2>2 DEF h
    <2> QED BY <1>5, <2>2, <2>3 DEF ListIn, Lists
  <1>10. \A x \in at : pm[x] # NoError =>
            pm[x] \in at2 /\ ListIn(ex2, pm[x]) = ListIn(ex2, x) /\ nm[pm[x]] = x
    <2> SUFFICES ASSUME NEW x \in at, pm[x] # NoError
                 PROVE  pm[x] \in at2 /\ ListIn(ex2, pm[x]) = ListIn(ex2, x) /\ nm[pm[x]] = x
      OBVIOUS
    <2>1. CASE x = h
      BY <1>1, <1>5, <1>6, <1>7, <2>1 DEF at2
    <2>2. CASE x # h
      BY <1>5, <1>7, <1>8, <2>2 DEF at2
    <2> QED BY <2>1, <2>2
  <1>11. \A x \in at : nm[x] # NoError =>
            nm[x] \in at2 /\ ListIn(ex2, nm[x]) = ListIn(ex2, x) /\ pm[nm[x]] = x
    <2> SUFFICES ASSUME NEW x \in at, nm[x] # NoError
                 PROVE  nm[x] \in at2 /\ ListIn(ex2, nm[x]) = ListIn(ex2, x) /\ pm[nm[x]] = x
      OBVIOUS
    <2>1. nm[x] = nx[x] /\ nx[x] \in at /\ ListIn(ex, nx[x]) = ListIn(ex, x) /\ pv[nx[x]] = x
      BY <1>5, <1>7, <1>8
    <2>2. nx[x] # h
      BY <1>6, <1>7, <2>1
    <2> QED BY <1>5, <1>7, <2>1, <2>2 DEF at2
  <1>12. nm[e] # NoError => nm[e] \in at2 /\ ListIn(ex2, nm[e]) = ListIn(ex2, e) /\ pm[nm[e]] = e
    BY <1>5, <1>6, <1>7 DEF at2
  <1>13. \A k \in Lists : hm[k] # NoError => hm[k] \in at2 /\ ListIn(ex2, hm[k]) = k /\ pm[hm[k]] = NoError
    <2> SUFFICES ASSUME NEW k \in Lists, hm[k] # NoError
                 PROVE  hm[k] \in at2 /\ ListIn(ex2, hm[k]) = k /\ pm[hm[k]] = NoError
      OBVIOUS
    <2>1. CASE k = list
      BY <1>5, <2>1 DEF at2
    <2>2. CASE k # list
      <3>1. hm[k] = hd[k] /\ hd[k] \in at /\ ListIn(ex, hd[k]) = k /\ pv[hd[k]] = NoError
        BY <1>2, <1>5, <2>2 DEF Chained
      <3>2. hd[k] # h
        BY <1>6, <1>7, <2>2, <3>1
      <3> QED BY <1>5, <1>7, <3>1, <3>2 DEF at2
    <2> QED BY <2>1, <2>2
  <1>14. Chained(hm, nm, pm, at2, ex2)
    BY <1>4, <1>5, <1>9, <1>10, <1>11, <1>12, <1>13 DEF Chained, at2
  <1> QED BY <1>14 DEF hm, nm, pm, at2

LEMMA LinkFounded ==
  ASSUME NEW l, NEW at, NEW e \in Errors, NEW list, at \subseteq Errors, e \notin at,
         Founded(l.prv, at),
         NEW m, m = Linked(l, e, list)
  PROVE  Founded(m.prv, at \cup {e})
  <1> DEFINE pv == l.prv
             pm == m.prv
             h == l.head[list]
  <1>1. pm = [x \in Errors |-> CASE x = e -> NoError
                                 [] x # e /\ x = h -> e
                                 [] OTHER -> pv[x]]
    BY DEF Linked
  <1> HIDE DEF pm, h
  <1>2. /\ pm[e] = NoError /\ NoError \notin Errors
        /\ \A x \in Errors : x # e => pm[x] = e \/ pm[x] = pv[x]
    BY <1>1, ErrorsAssumption
  <1> SUFFICES ASSUME NEW s \in SUBSET (at \cup {e}), s # {}
               PROVE  \E x \in s : pm[x] \notin s
    BY DEF Founded, pm
  <1>3. CASE e \in s
    BY <1>2, <1>3
  <1>4. CASE e \notin s
    <2>1. PICK x \in s : pv[x] \notin s
      BY <1>4 DEF Founded
    <2>2. x \in Errors /\ x # e
      BY <1>4
    <2> QED BY <1>2, <1>4, <2>1, <2>2
  <1> QED BY <1>3, <1>4

LEMMA UnlinkChained ==
  ASSUME NEW l, NEW at, NEW ex, NEW e \in at, NEW ex2,
         Chained(l.head, l.nxt, l.prv, at, ex),
         \A x \in at \ {e} : ListIn(ex2, x) = ListIn(ex, x),
         NEW m, m = Unlinked(l, e, ListIn(ex, e))
  PROVE  Chained(m.head, m.nxt, m.prv, at \ {e}, ex2)
  <1> DEFINE hd == l.head
             nx == l.nxt
             pv == l.prv
             hm == m.head
             nm == m.nxt
             pm == m.prv
             p == pv[e]
             n == nx[e]
             list == ListIn(ex, e)
             at2 == at \ {e}
  <1>1. NoError \notin Errors
    BY ErrorsAssumption
  <1>2. Chained(hd, nx, pv, at, ex)
    OBVIOUS
  <1>3. /\ hm = [hd EXCEPT ![list] = IF p = NoError THEN n ELSE @]
        /\ nm = [x \in Errors |-> IF x = p THEN n ELSE nx[x]]
        /\ pm = [x \in Errors |-> IF x = n THEN p ELSE pv[x]]
    BY DEF Unlinked
  <1> HIDE DEF hd, nx, pv, hm, nm, pm, at2, list
  <1>4. at \subseteq Errors /\ DOMAIN hd = Lists /\ list \in Lists
    BY <1>2 DEF Chained, list, ListIn, Lists
  <1>5. /\ DOMAIN hm = Lists /\ DOMAIN nm = Errors /\ DOMAIN pm = Errors
        /\ p = NoError => hm[list] = n
        /\ p # NoError => hm[list] = hd[list]
        /\ \A k \in Lists : k # list => hm[k] = hd[k]
        /\ \A x \in Errors : nm[x] = IF x = p THEN n ELSE nx[x]
        /\ \A x \in Errors : pm[x] = IF x = n THEN p ELSE pv[x]
    BY <1>3, <1>4
  <1>6. \A x \in at :
          /\ pv[x] = NoError => hd[ListIn(ex, x)] = x
          /\ pv[x] # NoError =>
                pv[x] \in at /\ ListIn(ex, pv[x]) = ListIn(ex, x) /\ nx[pv[x]] = x
          /\ nx[x] # NoError =>
                nx[x] \in at /\ ListIn(ex, nx[x]) = ListIn(ex, x) /\ pv[nx[x]] = x
    BY <1>2 DEF Chained
  <1>7. /\ p = NoError => hd[list] = e
        /\ p # NoError => p \in at /\ ListIn(ex, p) = list /\ nx[p] = e
        /\ n # NoError => n \in at /\ ListIn(ex, n) = list /\ pv[n] = e
    BY <1>6 DEF list
  <1> HIDE DEF p, n
  <1>8. \A x \in at : x \in Errors /\ x # NoError
    BY <1>1, <1>4
  <1>9. ASSUME NEW x \in at2
        PROVE  /\ pm[x] = NoError => hm[ListIn(ex2, x)] = x
               /\ pm[x] # NoError =>
                     pm[x] \in at2 /\ ListIn(ex2, pm[x]) = ListIn(ex2, x) /\ nm[pm[x]] = x
    <2>1. x \in at /\ x # e
      BY DEF at2
    <2>2. CASE x = n
      <3>1. pm[x] = p /\ ListIn(ex, x) = list
        BY <1>5, <1>7, <1>8, <2>1, <2>2
      <3>2. CASE p = NoError
        BY <1>5, <2>2, <3>1, <3>2 DEF at2
      <3>3. CASE p # NoError
        <4>1. p \in at /\ ListIn(ex, p) = list /\ p \in Errors /\ nm[p] = n
          BY <1>5, <1>7, <1>8, <3>3
        <4>2. p # e
          <5>1. p = e => nx[p] = n
            BY DEF n
          <5> QED BY <1>7, <2>1, <2>2, <3>3, <5>1
        <4> QED BY <2>2, <3>1, <3>3, <4>1, <4>2 DEF at2
      <3> QED BY <3>2, <3>3
    <2>3. CASE x # n
      <3>1. pm[x] = pv[x]
        BY <1>5, <1>8, <2>1, <2>3
      <3>2. pv[x] # e
        <4>1. pv[x] = e => nx[e] = x
          BY <1>4, <1>6, <1>8, <2>1
        <4> QED BY <2>3, <4>1 DEF n
      <3>3. pv[x] # NoError => pv[x] # p
        <4>1. pv[x] # NoError => nx[pv[x]] = x
          BY <1>6, <2>1
        <4> QED BY <1>7, <2>1, <4>1
      <3>4. CASE pv[x] = NoError
        <4>1. hd[ListIn(ex, x)] = x
          BY <1>6, <2>1, <3>4
        <4>2. hm[ListIn(ex, x)] = hd[ListIn(ex, x)]
          <5>1. p = NoError => ListIn(ex, x) # list
            BY <1>7, <2>1, <4>1
          <5> QED BY <1>5, <5>1 DEF ListIn, Lists
        <4> QED BY <3>1, <3>4, <4>1, <4>2 DEF at2
      <3>5. CASE pv[x] # NoError
        <4>1. pv[x] \in at2 /\ ListIn(ex, pv[x]) = ListIn(ex, x) /\ nx[pv[x]] = x
          BY <1>6, <2>1, <3>2, <3>5 DEF at2
        <4>2. nm[pv[x]] = x
          BY <1>5, <1>8, <3>3, <3>5, <4>1 DEF at2
        <4> QED BY <3>1, <3>5, <4>1, <4>2 DEF at2
      <3> QED BY <3>4, <3>5
    <2> QED BY <2>2, <2>3
  <1>10. ASSUME NEW x \in at2, nm[x] # NoError
         PROVE  nm[x] \in at2 /\ ListIn(ex2, nm[x]) = ListIn(ex2, x) /\ pm[nm[x]] = x
    <2>1. x \in at /\ x # e
      BY DEF at2
    <2>2. CASE x = p
      <3>1. nm[x] = n /\ n # NoError /\ n \in at /\ ListIn(ex, n) = list /\ ListIn(ex, x) = list
        BY <1>5, <1>7, <1>8, <1>10, <2>1, <2>2
      <3>2. n # e
        <4>1. n = e => pv[n] = p
          BY DEF p
        <4> QED BY <1>7, <2>1, <2>2, <3>1, <4>1
      <3>3. pm[n] = p
        BY <1>5, <1>8, <3>1
      <3> QED BY <2>1, <2>2, <3>1, <3>2, <3>3 DEF at2
    <2>3. CASE x # p
      <3>1. nm[x] = nx[x]
        BY <1>5, <1>8, <2>1, <2>3
      <3>2. nx[x] \in at /\ ListIn(ex, nx[x]) = ListIn(ex, x) /\ pv[nx[x]] = x
        BY <1>6, <1>10, <2>1, <3>1
      <3>3. nx[x] # e
        BY <2>3, <3>2 DEF p
      <3>4. nx[x] # n
        BY <1>7, <1>8, <2>1, <3>2
      <3>5. pm[nx[x]] = x
        BY <1>5, <1>8, <3>2, <3>4
      <3> QED BY <3>1, <3>2, <3>3, <3>5 DEF at2
    <2> QED BY <2>2, <2>3
  <1>11. ASSUME NEW k \in Lists, hm[k] # NoError
         PROVE  hm[k] \in at2 /\ ListIn(ex2, hm[k]) = k /\ pm[hm[k]] = NoError
    <2>1. \A j \in Lists : hd[j] # NoError => hd[j] \in at /\ ListIn(ex, hd[j]) = j /\ pv[hd[j]] = NoError
      BY <1>2 DEF Chained
    <2>2. CASE k = list /\ p = NoError
      <3>1. hm[k] = n /\ n \in at /\ ListIn(ex, n) = list /\ pv[n] = e
        BY <1>5, <1>7, <1>11, <2>2
      <3>2. n # e
        <4>1. n = e => pv[n] = p
          BY DEF p
        <4> QED BY <1>8, <2>2, <3>1, <4>1
      <3>3. pm[n] = p
        BY <1>5, <1>8, <3>1
      <3> QED BY <2>2, <3>1, <3>2, <3>3 DEF at2
    <2>3. CASE ~ (k = list /\ p = NoError)
      <3>1. hm[k] = hd[k] /\ hd[k] \in at /\ ListIn(ex, hd[k]) = k /\ pv[hd[k]] = NoError
        BY <1>5, <1>11, <2>1, <2>3
      <3>2. hd[k] # e
        BY <2>3, <3>1 DEF p, list
      <3>3. hd[k] # n
        BY <1>7, <1>8, <3>1
      <3>4. pm[hd[k]] = NoError
        BY <1>5, <1>8, <3>1, <3>3
      <3> QED BY <3>1, <3>2, <3>4 DEF at2
    <2> QED BY <2>2, <2>3
  <1>12. at2 \subseteq Errors
    BY <1>4 DEF at2
  <1>13. Chained(hm, nm, pm, at2, ex2)
    BY <1>5, <1>9, <1>10, <1>11, <1>12 DEF Chained
  <1> QED BY <1>13 DEF hm, nm, pm, at2

LEMMA UnlinkFounded ==
  ASSUME NEW l, NEW at, NEW e \in at, NEW list, at \subseteq Errors,
         Founded(l.prv, at), l.nxt[e] # NoError => l.prv[l.nxt[e]] = e,
         NEW m, m = Unlinked(l, e, list)
  PROVE  Founded(m.prv, at \ {e})
  <1> DEFINE pv == l.prv
             pm == m.prv
             p == pv[e]
             n == l.nxt[e]
  <1>1. pm = [x \in Errors |-> IF x = n THEN p ELSE pv[x]]
    BY DEF Unlinked
  <1>2. NoError \notin Errors
    BY ErrorsAssumption
  <1>3. n \in Errors => pv[n] = e
    BY <1>2
  <1> HIDE DEF pv, pm, n
  <1>4. \A x \in Errors : pm[x] = IF x = n THEN p ELSE pv[x]
    BY <1>1
  <1> SUFFICES ASSUME NEW s \in SUBSET (at \ {e}), s # {}
               PROVE  \E x \in s : pm[x] \notin s
    BY DEF Founded, pm
  <1>5. \A t \in SUBSET at : t # {} => \E x \in t : pv[x] \notin t
    BY DEF Founded, pv
  <1>6. \A x \in s : x \in Errors /\ x # e
    OBVIOUS
  <1>7. CASE n \in s
    <2>1. s \cup {e} \in SUBSET at /\ s \cup {e} # {}
      OBVIOUS
    <2>2. PICK x \in s \cup {e} : pv[x] \notin s \cup {e}
      BY <1>5, <2>1
    <2>3. CASE x = e
      BY <1>4, <1>6, <1>7, <2>2, <2>3
    <2>4. CASE x # e
      BY <1>3, <1>4, <1>6, <1>7, <2>2, <2>4
    <2> QED BY <2>3, <2>4
  <1>8. CASE n \notin s
    <2>1. PICK x \in s : pv[x] \notin s
      BY <1>5
    <2> QED BY <1>4, <1>6, <1>8, <2>1
  <1> QED BY <1>7, <1>8

\* The lists of the VM.
Listed ==
    /\ {"head", "nxt", "prv"} \subseteq DOMAIN links
    /\ Chained(links.head, links.nxt, links.prv, attached, exception)
    /\ Founded(links.prv, attached)

\* A record is made before it is allocated, attached before it is on a list, and
\* keeps its exception only on one.
Kept == /\ records \subseteq raised /\ raised \subseteq Errors
        /\ attached \subseteq records /\ exception \subseteq attached

ErrorsInv == Listed /\ Kept

LEMMA RaiseListed ==
  ASSUME ErrorsInv, NEW e \in Errors, NEW keeps \in BOOLEAN, Raise(e, keeps)
  PROVE  ErrorsInv'
  <1> DEFINE list == IF keeps THEN "pending" ELSE "errors"
  <1>1. /\ e \notin raised /\ raised' = raised \cup {e} /\ records' = records \cup {e}
        /\ attached' = attached \cup {e}
        /\ exception' = IF keeps THEN exception \cup {e} ELSE exception
        /\ links' = Linked(links, e, list)
    BY DEF Raise
  <1>2. e \notin attached /\ e \notin exception /\ attached \subseteq Errors
    BY <1>1 DEF ErrorsInv, Kept
  <1>3. list \in Lists /\ ListIn(exception', e) = list
    BY <1>1, <1>2 DEF Lists, ListIn
  <1>4. \A x \in attached : ListIn(exception', x) = ListIn(exception, x)
    BY <1>1, <1>2 DEF ListIn
  <1> HIDE DEF list
  <1>5. Chained(links'.head, links'.nxt, links'.prv, attached', exception')
    <2>1. Chained(links'.head, links'.nxt, links'.prv, attached \cup {e}, exception')
      BY <1>1, <1>2, <1>3, <1>4, LinkChained DEF ErrorsInv, Listed
    <2> QED BY <1>1, <2>1
  <1>6. Founded(links'.prv, attached')
    <2>1. Founded(links'.prv, attached \cup {e})
      BY <1>1, <1>2, LinkFounded DEF ErrorsInv, Listed
    <2> QED BY <1>1, <2>1
  <1>7. Kept' /\ {"head", "nxt", "prv"} \subseteq DOMAIN links'
    BY <1>1 DEF ErrorsInv, Kept, Linked
  <1> QED BY <1>5, <1>6, <1>7 DEF ErrorsInv, Listed

\* A record that leaves the list it is on.
LEMMA UnlinkListed ==
  ASSUME ErrorsInv, NEW e \in attached, NEW ex, ex = exception \ {e},
         NEW m, m = Unlinked(links, e, ListOf(e))
  PROVE  /\ Chained(m.head, m.nxt, m.prv, attached \ {e}, ex)
         /\ Founded(m.prv, attached \ {e})
  <1>1. ListOf(e) = ListIn(exception, e)
    BY DEF ListOf, ListIn
  <1>2. \A x \in attached \ {e} : ListIn(ex, x) = ListIn(exception, x)
    BY DEF ListIn
  <1>3. Chained(m.head, m.nxt, m.prv, attached \ {e}, ex)
    BY <1>1, <1>2, UnlinkChained DEF ErrorsInv, Listed
  <1>4. /\ attached \subseteq Errors /\ Founded(links.prv, attached)
        /\ links.nxt[e] # NoError => links.prv[links.nxt[e]] = e
    BY DEF ErrorsInv, Listed, Chained
  <1>5. Founded(m.prv, attached \ {e})
    BY <1>4, UnlinkFounded
  <1> QED BY <1>3, <1>5

LEMMA StartRenderListed ==
  ASSUME ErrorsInv, NEW e \in exception, NEW base, StartRender(e, base)
  PROVE  ErrorsInv'
  <1> DEFINE m == Unlinked(links, e, ListOf(e))
             rest == attached \ {e}
  <1>1. /\ exception' = exception \ {e} /\ links' = Linked(m, e, "errors")
        /\ raised' = raised /\ records' = records /\ attached' = attached
    BY DEF StartRender
  <1>2. e \in attached /\ attached \subseteq Errors /\ e \in Errors
    BY DEF ErrorsInv, Kept
  <1>3. Chained(m.head, m.nxt, m.prv, rest, exception') /\ Founded(m.prv, rest)
    BY <1>1, <1>2, UnlinkListed
  <1>4. e \notin rest /\ rest \subseteq Errors /\ attached = rest \cup {e}
    BY <1>2
  <1>5. "errors" \in Lists /\ ListIn(exception', e) = "errors"
    BY <1>1 DEF Lists, ListIn
  <1> HIDE DEF m, rest
  <1>6. Chained(links'.head, links'.nxt, links'.prv, attached', exception')
    <2>1. Chained(links'.head, links'.nxt, links'.prv, rest \cup {e}, exception')
      BY <1>1, <1>2, <1>3, <1>4, <1>5, LinkChained
    <2> QED BY <1>1, <1>4, <2>1
  <1>7. Founded(links'.prv, attached')
    <2>1. Founded(links'.prv, rest \cup {e})
      BY <1>1, <1>2, <1>3, <1>4, LinkFounded
    <2> QED BY <1>1, <1>4, <2>1
  <1>8. Kept' /\ {"head", "nxt", "prv"} \subseteq DOMAIN links'
    BY <1>1 DEF ErrorsInv, Kept, Linked
  <1> QED BY <1>6, <1>7, <1>8 DEF ErrorsInv, Listed

LEMMA FreeListed ==
  ASSUME ErrorsInv, NEW e, Free(e), raised' = raised
  PROVE  ErrorsInv'
  <1>1. /\ records' = records \ {e} /\ attached' = attached \ {e}
        /\ exception' = exception \ {e}
    BY DEF Free
  <1>2. Kept'
    BY <1>1 DEF ErrorsInv, Kept
  <1>3. CASE e \notin attached
    <2>1. links' = links /\ attached' = attached /\ exception' = exception
      BY <1>1, <1>3 DEF Free, ErrorsInv, Kept
    <2> QED BY <1>2, <2>1 DEF ErrorsInv, Listed
  <1>4. CASE e \in attached
    <2> DEFINE m == Unlinked(links, e, ListOf(e))
    <2>1. links' = [m EXCEPT !.nxt[e] = NoError, !.prv[e] = NoError]
      BY <1>4 DEF Free
    <2>2. Chained(m.head, m.nxt, m.prv, attached', exception') /\ Founded(m.prv, attached')
      BY <1>1, <1>4, UnlinkListed
    <2>3. {"head", "nxt", "prv"} \subseteq DOMAIN m
      BY DEF Unlinked
    <2> HIDE DEF m
    <2>4. /\ links'.head = m.head /\ links'.nxt = [m.nxt EXCEPT ![e] = NoError]
          /\ links'.prv = [m.prv EXCEPT ![e] = NoError]
          /\ {"head", "nxt", "prv"} \subseteq DOMAIN links'
      BY <2>1, <2>3
    <2> DEFINE hm == m.head
               nm == m.nxt
               pm == m.prv
               n2 == links'.nxt
               p2 == links'.prv
    <2>5. Chained(hm, nm, pm, attached', exception') /\ Founded(pm, attached')
      BY <2>2
    <2>6. n2 = [nm EXCEPT ![e] = NoError] /\ p2 = [pm EXCEPT ![e] = NoError]
      BY <2>4
    <2> HIDE DEF hm, nm, pm, n2, p2
    <2>7. /\ DOMAIN n2 = Errors /\ DOMAIN p2 = Errors
          /\ \A x \in attached' : x # e /\ n2[x] = nm[x] /\ p2[x] = pm[x]
      BY <1>1, <2>5, <2>6 DEF Chained
    <2>8. Chained(hm, n2, p2, attached', exception')
      BY <2>5, <2>7 DEF Chained
    <2>9. Founded(p2, attached')
      BY <2>5, <2>7 DEF Founded
    <2> QED BY <1>2, <2>4, <2>8, <2>9 DEF ErrorsInv, Listed, hm, n2, p2
  <1> QED BY <1>3, <1>4

\* error_detach_all reaches every record of the list of errors, and no other.
LEMMA DetachListed ==
  ASSUME ErrorsInv, DetachAll, UNCHANGED <<raised, records, exception>>
  PROVE  ErrorsInv' /\ attached' \subseteq exception
  <1> DEFINE Reached(r) == links.head["errors"] \in r \cup {NoError}
                           /\ \A e \in r : links.nxt[e] \in r \cup {NoError}
             r0 == {e \in attached : e \notin exception}
             u0 == {e \in attached' : e \notin exception}
             hd == links.head
             nx == links.nxt
             pv == links.prv
  <1>1. /\ attached' = {e \in attached : \E r \in SUBSET Errors : Reached(r) /\ e \notin r}
        /\ links' = [links EXCEPT !.head["errors"] = NoError]
    BY DEF DetachAll
  <1>2. Chained(hd, nx, pv, attached, exception) /\ Founded(pv, attached)
        /\ attached \subseteq Errors /\ exception \subseteq attached
    BY DEF ErrorsInv, Listed, Kept
  <1>3. \A r : Reached(r) <=> /\ hd["errors"] \in r \cup {NoError}
                              /\ \A e \in r : nx[e] \in r \cup {NoError}
    OBVIOUS
  <1> HIDE DEF Reached, hd, nx, pv
  <1>4. NoError \notin Errors
    BY ErrorsAssumption
  <1>5. Reached(r0)
    BY <1>2, <1>3 DEF Chained, ListIn, Lists
  <1>6. u0 = {}
    <2> SUFFICES ASSUME u0 # {} PROVE FALSE
      OBVIOUS
    <2>1. PICK e \in u0 : pv[e] \notin u0
      <3>1. u0 \in SUBSET attached
        BY <1>1
      <3> QED BY <1>2, <3>1 DEF Founded
    <2>2. e \in attached /\ e \notin exception /\ e \in Errors
      BY <1>1, <1>2
    <2>3. PICK r \in SUBSET Errors : Reached(r) /\ e \notin r
      BY <1>1, <2>1
    <2>4. CASE pv[e] = NoError
      <3>1. hd["errors"] = e
        BY <1>2, <2>2, <2>4 DEF Chained, ListIn
      <3> QED BY <1>3, <1>4, <2>2, <2>3, <3>1
    <2>5. CASE pv[e] # NoError
      <3>1. pv[e] \in attached /\ pv[e] \notin exception /\ nx[pv[e]] = e
        BY <1>2, <2>2, <2>5 DEF Chained, ListIn
      <3>2. pv[e] \in r
        BY <1>1, <2>1, <2>3, <3>1
      <3> QED BY <1>3, <1>4, <2>2, <2>3, <3>1, <3>2
    <2> QED BY <2>4, <2>5
  <1>7. attached' = exception
    <2>1. \A e \in exception : e \in attached'
      <3>1. r0 \in SUBSET Errors /\ \A e \in exception : e \notin r0
        BY <1>2
      <3> QED BY <1>1, <1>2, <1>5, <3>1
    <2> QED BY <1>6, <2>1
  <1>8. Kept'
    BY <1>7 DEF ErrorsInv, Kept
  <1>9. /\ {"head", "nxt", "prv"} \subseteq DOMAIN links
    BY DEF ErrorsInv, Listed
  <1> DEFINE h2 == links'.head
  <1>10. h2 = [hd EXCEPT !["errors"] = NoError] /\ links'.nxt = nx /\ links'.prv = pv
    BY <1>1, <1>9 DEF hd, nx, pv
  <1> HIDE DEF h2
  <1>11. DOMAIN h2 = Lists /\ h2["errors"] = NoError /\ h2["pending"] = hd["pending"]
    BY <1>2, <1>10 DEF Chained, Lists
  <1>12. \A e \in attached' : ListIn(exception, e) = "pending"
    BY <1>7 DEF ListIn
  <1>13. Chained(h2, nx, pv, attached', exception)
    <2>1. \A e \in attached : e \in exception <=> ListIn(exception, e) = "pending"
      BY DEF ListIn
    <2>2. \A e \in attached' : e \in attached /\ e \in exception
      BY <1>2, <1>7
    <2>3. \A e \in attached : ListIn(exception, e) = "pending" => e \in attached'
      BY <1>7, <2>1
    <2>4. /\ \A e \in attached :
                /\ pv[e] = NoError => hd[ListIn(exception, e)] = e
                /\ pv[e] # NoError => /\ pv[e] \in attached /\ nx[pv[e]] = e
                                      /\ ListIn(exception, pv[e]) = ListIn(exception, e)
                /\ nx[e] # NoError => /\ nx[e] \in attached /\ pv[nx[e]] = e
                                      /\ ListIn(exception, nx[e]) = ListIn(exception, e)
          /\ hd["pending"] # NoError => /\ hd["pending"] \in attached
                                        /\ ListIn(exception, hd["pending"]) = "pending"
                                        /\ pv[hd["pending"]] = NoError
      BY <1>2 DEF Chained, Lists
    <2>5. \A e \in attached' :
             /\ pv[e] = NoError => h2[ListIn(exception, e)] = e
             /\ pv[e] # NoError => /\ pv[e] \in attached' /\ nx[pv[e]] = e
                                   /\ ListIn(exception, pv[e]) = ListIn(exception, e)
             /\ nx[e] # NoError => /\ nx[e] \in attached' /\ pv[nx[e]] = e
                                   /\ ListIn(exception, nx[e]) = ListIn(exception, e)
      BY <1>11, <1>12, <2>2, <2>3, <2>4
    <2>6. \A l \in Lists : h2[l] # NoError =>
             h2[l] \in attached' /\ ListIn(exception, h2[l]) = l /\ pv[h2[l]] = NoError
      BY <1>11, <2>3, <2>4 DEF Lists
    <2>7. DOMAIN nx = Errors /\ DOMAIN pv = Errors /\ attached' \subseteq Errors
      BY <1>2, <2>2 DEF Chained
    <2> QED BY <1>11, <2>5, <2>6, <2>7 DEF Chained
  <1>14. Founded(pv, attached')
    BY <1>1, <1>2 DEF Founded
  <1>15. {"head", "nxt", "prv"} \subseteq DOMAIN links'
    BY <1>1, <1>9
  <1>16. ErrorsInv'
    BY <1>8, <1>10, <1>13, <1>14, <1>15 DEF ErrorsInv, Listed, h2
  <1> QED BY <1>7, <1>16

LEMMA InitListed == Init => ErrorsInv
  <1> SUFFICES ASSUME NEW e \in Unread, HoldsDiagnostic(e) PROVE ErrorsInv
    BY DEF Init
  <1> DEFINE s == {e} \ {NoError}
  <1>1. NoError \notin Errors /\ s \subseteq Errors
    BY ErrorsAssumption
  <1>2. /\ raised = s /\ records = s /\ exception = s /\ attached = s
        /\ links = [head |-> [l \in {"pending", "errors"} |-> IF l = "pending" THEN e ELSE NoError],
                    nxt  |-> [x \in Errors |-> NoError],
                    prv  |-> [x \in Errors |-> NoError]]
    BY DEF HoldsDiagnostic
  <1>3. \A x \in s : x = e /\ x # NoError
    OBVIOUS
  <1> HIDE DEF s
  <1>4. Kept
    BY <1>1, <1>2 DEF Kept
  <1>5. /\ {"head", "nxt", "prv"} \subseteq DOMAIN links
        /\ DOMAIN links.head = Lists /\ DOMAIN links.nxt = Errors /\ DOMAIN links.prv = Errors
        /\ links.head["pending"] = e /\ links.head["errors"] = NoError
        /\ \A x \in Errors : links.nxt[x] = NoError /\ links.prv[x] = NoError
    BY <1>2 DEF Lists
  <1>6. e # NoError => e \in s
    BY DEF s
  <1>7. Chained(links.head, links.nxt, links.prv, attached, exception)
    BY <1>1, <1>2, <1>3, <1>5, <1>6 DEF Chained, Lists, ListIn
  <1>8. Founded(links.prv, attached)
    BY <1>1, <1>2, <1>5 DEF Founded
  <1> QED BY <1>4, <1>5, <1>7, <1>8 DEF ErrorsInv, Listed

LEMMA ErrorsSame ==
  ASSUME ErrorsInv, UNCHANGED <<raised, records, exception, attached, links>>
  PROVE  ErrorsInv'
  BY DEF ErrorsInv, Listed, Kept

LEMMA ErrorsKept ==
  ASSUME ErrorsInv, [Next]_vars
  PROVE  ErrorsInv'
  <1>1. ASSUME NEW e \in Errors, NEW keeps \in BOOLEAN, Raise(e, keeps)
        PROVE  ErrorsInv'
    BY <1>1, RaiseListed
  <1>2. ASSUME NEW e \in Errors, Read(e)
        PROVE  ErrorsInv'
    BY <1>2, StartRenderListed DEF Read
  <1>3. ASSUME NEW e \in Errors, Release(e)
        PROVE  ErrorsInv'
    <2>1. CASE e \in rendering
      BY <1>3, <2>1, ErrorsSame DEF Release
    <2>2. CASE e \notin rendering
      BY <1>3, <2>2, FreeListed DEF Release
    <2> QED BY <2>1, <2>2
  <1>4. CASE StoreMessage \/ EndRelease
    BY <1>4, ErrorsSame DEF StoreMessage, EndRelease, errors
  <1>5. CASE EndRender
    <2>1. CASE Top.error \in released
      BY <1>5, <2>1, FreeListed DEF EndRender
    <2>2. CASE Top.error \notin released
      BY <1>5, <2>2, ErrorsSame DEF EndRender
    <2> QED BY <2>1, <2>2
  <1>6. CASE RenderPending
    <2>1. links.head["pending"] \in exception
      BY <1>6 DEF RenderPending, ErrorsInv, Listed, Chained, Lists, ListIn
    <2> QED BY <1>6, <2>1, StartRenderListed DEF RenderPending
  <1>7. CASE Sweep
    BY <1>7, DetachListed DEF Sweep
  <1>8. ASSUME NEW e \in Errors, HostReleases(e)
        PROVE  ErrorsInv'
    BY <1>8, FreeListed DEF HostReleases, ReleaseDetached
  <1>9. ASSUME NEW v, Create(v) \/ Drop(v) \/ Take(v) \/ PassInstance(v) \/ ReleaseInstance(v)
                      \/ PassFunction(v) \/ ReleaseFunction(v)
        PROVE  ErrorsInv'
    BY <1>9, ErrorsSame DEF Create, Drop, Take, PassInstance, ReleaseInstance, PassFunction,
                            ReleaseFunction, errors
  <1>10. CASE EndDel \/ EndFinalize \/ BeginPass \/ InstancesPassed \/ InstancesReleased
              \/ FunctionsPassed \/ EndPass \/ BeginSweep \/ UNCHANGED vars
    BY <1>10, ErrorsSame DEF EndDel, EndFinalize, BeginPass, InstancesPassed, InstancesReleased,
                             FunctionsPassed, EndPass, BeginSweep, vars, errors
  <1>11. CASE Code
    BY <1>1, <1>2, <1>3, <1>4, <1>5, <1>9, <1>10, <1>11 DEF Code, CodeRaises, Renders
  <1>12. CASE Destroy
    BY <1>6, <1>7, <1>9, <1>10, <1>12 DEF Destroy
  <1> QED BY <1>8, <1>10, <1>11, <1>12 DEF Next

LEMMA ErrorsSound == ErrorsInv => ListsSound
  <1> SUFFICES ASSUME ErrorsInv PROVE ListsSound
    OBVIOUS
  <1> DEFINE hd == links.head
             nx == links.nxt
             pv == links.prv
             On(l) == {e \in attached : ListOf(e) = l}
  <1>1. Chained(hd, nx, pv, attached, exception) /\ Founded(pv, attached)
    BY DEF ErrorsInv, Listed
  <1>2. \A e : ListIn(exception, e) = ListOf(e)
    BY DEF ListIn, ListOf
  <1>3. NoError \notin Errors /\ attached \subseteq Errors
    BY <1>1, ErrorsAssumption DEF Chained
  <1> HIDE DEF hd, nx, pv
  <1>4. \A e \in attached :
          /\ pv[e] = NoError => hd[ListOf(e)] = e
          /\ pv[e] # NoError => pv[e] \in On(ListOf(e)) /\ nx[pv[e]] = e
          /\ nx[e] # NoError => nx[e] \in On(ListOf(e)) /\ pv[nx[e]] = e
    BY <1>1, <1>2 DEF Chained
  <1>5. \A l \in {"pending", "errors"} : hd[l] # NoError => hd[l] \in On(l) /\ pv[hd[l]] = NoError
    BY <1>1, <1>2 DEF Chained, Lists
  <1>6. ASSUME NEW l \in {"pending", "errors"}, hd[l] = NoError
        PROVE  On(l) = {}
    <2> SUFFICES ASSUME On(l) # {} PROVE FALSE
      OBVIOUS
    <2>1. PICK e \in On(l) : pv[e] \notin On(l)
      <3>1. On(l) \in SUBSET attached
        OBVIOUS
      <3> QED BY <1>1, <3>1 DEF Founded
    <2> QED BY <1>3, <1>4, <1>6, <2>1
  <1> QED BY <1>4, <1>5, <1>6 DEF ListsSound, hd, nx, pv

(***************************************************************************)
(* The code that is running                                                *)
(***************************************************************************)

\* A rendering has a record that is allocated and marked; a finalizer or __del__
\* has a value that is not freed, was or was not finalized before, and, when the
\* value dies, is not one a pass holds.
FrameOk(f, rec, ren, al, fn, hd) ==
    /\ {"op", "step", "fuel"} \subseteq DOMAIN f
    /\ f.op = "render" => "error" \in DOMAIN f /\ f.error \in rec \cap ren
    /\ f.op \in {"die", "finalize"} => /\ "value" \in DOMAIN f /\ f.value \in al
                                       /\ f.step \in {"del", "fin"}
                                       /\ f.step = "del" <=> fn[f.value] = "none"
    /\ f.op = "die" => f.value \notin hd
    /\ f.step = "fin" => f.op \in {"die", "finalize"}

\* No record is rendered twice at a time, and no value finalized twice.
Apart(f, g) ==
    /\ f.op = "render" /\ g.op = "render" => f.error # g.error
    /\ f.op \in {"die", "finalize"} /\ g.op \in {"die", "finalize"} => f.value # g.value

FramesOk(s, rec, ren, al, fn, hd) ==
    /\ Sequence(s)
    /\ \A i \in DOMAIN s : FrameOk(s[i], rec, ren, al, fn, hd)
    /\ \A i, j \in DOMAIN s : i # j => Apart(s[i], s[j])

\* The same activation, with more or less left to do.
Like(f, g) ==
    /\ {"op", "step", "fuel"} \subseteq DOMAIN f
    /\ f.op = g.op /\ f.step = g.step
    /\ f.op = "render" => "error" \in DOMAIN f /\ f.error = g.error
    /\ f.op \in {"die", "finalize"} => "value" \in DOMAIN f /\ f.value = g.value

LEMMA NoFrames ==
  ASSUME NEW rec, NEW ren, NEW al, NEW fn, NEW hd
  PROVE  FramesOk(<<>>, rec, ren, al, fn, hd)
  <1>1. Sequence(<<>>)
    <2>1. <<>> \in Seq({})
      OBVIOUS
    <2> QED BY <2>1 DEF Sequence
  <1> QED BY <1>1 DEF FramesOk

LEMMA FramesPush ==
  ASSUME NEW s, NEW f, NEW rec, NEW ren, NEW al, NEW fn, NEW hd,
         FramesOk(s, rec, ren, al, fn, hd), FrameOk(f, rec, ren, al, fn, hd),
         \A i \in DOMAIN s : Apart(f, s[i])
  PROVE  FramesOk(Append(s, f), rec, ren, al, fn, hd)
  <1> DEFINE t == Append(s, f)
  <1>1. /\ Sequence(t) /\ Len(s) \in Nat /\ DOMAIN s = 1 .. Len(s)
        /\ DOMAIN t = 1 .. Len(s) + 1
        /\ \A i \in 1 .. Len(s) : t[i] = s[i]
        /\ t[Len(s) + 1] = f
    BY Appended DEF FramesOk
  <1> HIDE DEF t
  <1>2. \A i \in DOMAIN t : \/ i \in DOMAIN s /\ t[i] = s[i]
                            \/ i = Len(s) + 1 /\ t[i] = f
    BY <1>1
  <1>3. \A i \in DOMAIN t : FrameOk(t[i], rec, ren, al, fn, hd)
    BY <1>2 DEF FramesOk
  <1>4. \A i \in DOMAIN s : Apart(s[i], f)
    BY DEF Apart
  <1>5. \A i, j \in DOMAIN t : i # j => Apart(t[i], t[j])
    BY <1>2, <1>4 DEF FramesOk
  <1>6. FramesOk(t, rec, ren, al, fn, hd)
    BY <1>1, <1>3, <1>5 DEF FramesOk
  <1> QED BY <1>6 DEF t

LEMMA FramesPop ==
  ASSUME NEW s, NEW rec, NEW ren, NEW al, NEW fn, NEW hd, s # <<>>,
         FramesOk(s, rec, ren, al, fn, hd)
  PROVE  /\ FramesOk(Lower(s), rec, ren, al, fn, hd)
         /\ \A i \in DOMAIN Lower(s) : Apart(s[Len(s)], Lower(s)[i])
         /\ FrameOk(s[Len(s)], rec, ren, al, fn, hd)
  <1> DEFINE b == Lower(s)
  <1>1. /\ Sequence(b) /\ Len(s) \in Nat \ {0} /\ DOMAIN s = 1 .. Len(s)
        /\ DOMAIN b = 1 .. Len(s) - 1 /\ \A i \in 1 .. Len(s) - 1 : b[i] = s[i]
    BY Popped DEF FramesOk
  <1> HIDE DEF b
  <1>2. \A i \in DOMAIN b : i \in DOMAIN s /\ i # Len(s) /\ b[i] = s[i]
    BY <1>1
  <1>3. Len(s) \in DOMAIN s
    BY <1>1
  <1>4. FramesOk(b, rec, ren, al, fn, hd)
    BY <1>1, <1>2 DEF FramesOk
  <1>5. \A i \in DOMAIN b : Apart(s[Len(s)], b[i])
    BY <1>2, <1>3 DEF FramesOk
  <1>6. FrameOk(s[Len(s)], rec, ren, al, fn, hd)
    BY <1>3 DEF FramesOk
  <1> QED BY <1>4, <1>5, <1>6 DEF b

\* The frame on top does one more thing.
LEMMA FramesSpent ==
  ASSUME NEW rec, NEW ren, NEW al, NEW fn, NEW hd, stack # <<>>,
         FramesOk(stack, rec, ren, al, fn, hd)
  PROVE  /\ FramesOk(Spent, rec, ren, al, fn, hd)
         /\ DOMAIN Spent = DOMAIN stack
         /\ \A i \in DOMAIN Spent : i \in DOMAIN stack /\ Like(Spent[i], stack[i])
  <1> DEFINE f == [Top EXCEPT !.fuel = @ - 1]
  <1>1. Spent = Append(Lower(stack), f)
    BY DEF Spent, Lower, Below
  <1>2. /\ FramesOk(Lower(stack), rec, ren, al, fn, hd) /\ FrameOk(Top, rec, ren, al, fn, hd)
        /\ \A i \in DOMAIN Lower(stack) : Apart(Top, Lower(stack)[i])
    BY FramesPop DEF Top
  <1>3. Like(f, Top)
    BY <1>2 DEF Like, FrameOk
  <1> HIDE DEF f
  <1>4. FrameOk(f, rec, ren, al, fn, hd)
    BY <1>2, <1>3 DEF Like, FrameOk
  <1>5. \A i \in DOMAIN Lower(stack) : Apart(f, Lower(stack)[i])
    BY <1>2, <1>3 DEF Like, Apart
  <1>6. FramesOk(Append(Lower(stack), f), rec, ren, al, fn, hd)
    BY <1>2, <1>4, <1>5, FramesPush
  <1> DEFINE t == Append(Lower(stack), f)
  <1>7. /\ DOMAIN t = DOMAIN stack /\ t[Len(stack)] = f
        /\ \A i \in DOMAIN stack : i # Len(stack) => t[i] = stack[i]
    BY Replaced DEF FramesOk
  <1> HIDE DEF t
  <1>8. \A i \in DOMAIN stack : Like(stack[i], stack[i])
    BY DEF FramesOk, FrameOk, Like
  <1>9. \A i \in DOMAIN t : i \in DOMAIN stack /\ Like(t[i], stack[i])
    BY <1>3, <1>7, <1>8 DEF Top
  <1> QED BY <1>1, <1>6, <1>7, <1>9 DEF t

\* Frames need only what they are about.
LEMMA FramesKeep ==
  ASSUME NEW s, NEW rec, NEW ren, NEW al, NEW fn, NEW hd,
         NEW rec2, NEW ren2, NEW al2, NEW fn2, NEW hd2,
         FramesOk(s, rec, ren, al, fn, hd),
         \A i \in DOMAIN s : s[i].op = "render" => s[i].error \in rec2 \cap ren2,
         \A i \in DOMAIN s : s[i].op \in {"die", "finalize"} =>
            s[i].value \in al2 /\ fn2[s[i].value] = fn[s[i].value],
         \A i \in DOMAIN s : s[i].op = "die" => s[i].value \notin hd2
  PROVE  FramesOk(s, rec2, ren2, al2, fn2, hd2)
  BY DEF FramesOk, FrameOk

(***************************************************************************)
(* Values and their finalizers                                             *)
(***************************************************************************)

\* The finalizer of a value ran once if it is running or done, and else never.
RunsOk(fn, rn) ==
    /\ DOMAIN fn = Values /\ DOMAIN rn = Values
    /\ \A v \in Values : /\ fn[v] = "none" => rn[v] = 0
                         /\ fn[v] # "none" => rn[v] = 1

\* No activation of s finalizes v.
NotOf(s, v) == \A i \in DOMAIN s : s[i].op \in {"die", "finalize"} => s[i].value # v

LEMMA FinalizeOk ==
  ASSUME NEW v \in Values, NEW op \in {"die", "finalize"}, NEW base, NEW hd,
         Finalize(v, op, base), fin[v] = "none", v \in alive, op = "die" => v \notin hd,
         FramesOk(base, records, rendering, alive, fin, hd), NotOf(base, v), RunsOk(fin, runs)
  PROVE  /\ FramesOk(stack', records, rendering, alive, fin', hd)
         /\ RunsOk(fin', runs') /\ fin'[v] # "none"
         /\ \A w \in Values : w # v => fin'[w] = fin[w]
  <1> DEFINE f == [op |-> op, step |-> "fin", value |-> v, fuel |-> Work[v]]
  <1>1. /\ fin' = [fin EXCEPT ![v] = IF v \in Functions THEN "done" ELSE "running"]
        /\ runs' = [runs EXCEPT ![v] = IF @ = 2 THEN 2 ELSE @ + 1]
        /\ stack' = Append(base, f)
    BY DEF Finalize
  <1>2. DOMAIN fin = Values /\ DOMAIN runs = Values /\ runs[v] = 0
    BY DEF RunsOk
  <1>3. /\ DOMAIN fin' = Values /\ fin'[v] # "none"
        /\ \A w \in Values : w # v => fin'[w] = fin[w]
    BY <1>1, <1>2
  <1>4. /\ DOMAIN runs' = Values /\ runs'[v] = 1
        /\ \A w \in Values : w # v => runs'[w] = runs[w]
    BY <1>1, <1>2
  <1>5. RunsOk(fin', runs')
    BY <1>3, <1>4 DEF RunsOk
  <1>6. /\ {"op", "step", "fuel", "value"} \subseteq DOMAIN f
        /\ f.op = op /\ f.step = "fin" /\ f.value = v
    OBVIOUS
  <1> HIDE DEF f
  <1>7. FrameOk(f, records, rendering, alive, fin', hd)
    BY <1>3, <1>6 DEF FrameOk
  <1>8. FramesOk(base, records, rendering, alive, fin', hd)
    <2>1. \A i \in DOMAIN base : base[i].op = "render" => base[i].error \in records \cap rendering
      BY DEF FramesOk, FrameOk
    <2>2. \A i \in DOMAIN base : base[i].op = "die" => base[i].value \notin hd
      BY DEF FramesOk, FrameOk
    <2>3. \A i \in DOMAIN base : base[i].op \in {"die", "finalize"} => base[i].value \in alive
      BY DEF FramesOk, FrameOk
    <2>4. \A w : w # v => fin'[w] = fin[w]
      BY <1>1
    <2>5. \A i \in DOMAIN base : base[i].op \in {"die", "finalize"} =>
              base[i].value \in alive /\ fin'[base[i].value] = fin[base[i].value]
      BY <2>3, <2>4 DEF NotOf
    <2> QED BY <2>1, <2>2, <2>5, FramesKeep
  <1>9. \A i \in DOMAIN base : Apart(f, base[i])
    BY <1>6 DEF Apart, NotOf
  <1>10. FramesOk(stack', records, rendering, alive, fin', hd)
    BY <1>1, <1>7, <1>8, <1>9, FramesPush
  <1> QED BY <1>3, <1>5, <1>10

LEMMA DiesOk ==
  ASSUME NEW v \in Values, NEW base, NEW hd, Dies(v, base), v \in alive, v \notin hd,
         FramesOk(base, records, rendering, alive, fin, hd), NotOf(base, v), RunsOk(fin, runs)
  PROVE  /\ FramesOk(stack', records, rendering, alive', fin', hd)
         /\ RunsOk(fin', runs')
         /\ alive' \subseteq alive /\ \A w \in alive : w # v => w \in alive'
         /\ v \notin alive' => fin'[v] # "none"
         /\ \A w \in Values : w # v => fin'[w] = fin[w]
  <1>1. CASE fin[v] # "none"
    <2>1. alive' = alive \ {v} /\ stack' = base /\ fin' = fin /\ runs' = runs
      BY <1>1 DEF Dies
    <2>2. FramesOk(base, records, rendering, alive', fin, hd)
      <3>1. \A i \in DOMAIN base : base[i].op = "render" => base[i].error \in records \cap rendering
        BY DEF FramesOk, FrameOk
      <3>2. \A i \in DOMAIN base : base[i].op = "die" => base[i].value \notin hd
        BY DEF FramesOk, FrameOk
      <3>3. \A i \in DOMAIN base : base[i].op \in {"die", "finalize"} =>
                base[i].value \in alive' /\ fin[base[i].value] = fin[base[i].value]
        BY <2>1 DEF FramesOk, FrameOk, NotOf
      <3> QED BY <3>1, <3>2, <3>3, FramesKeep
    <2> QED BY <1>1, <2>1, <2>2
  <1>2. CASE fin[v] = "none" /\ v \in WithDel
    <2> DEFINE f == [op |-> "die", step |-> "del", value |-> v, fuel |-> Work[v]]
    <2>1. alive' = alive /\ stack' = Append(base, f) /\ fin' = fin /\ runs' = runs
      BY <1>2 DEF Dies
    <2>2. /\ {"op", "step", "fuel", "value"} \subseteq DOMAIN f
          /\ f.op = "die" /\ f.step = "del" /\ f.value = v
      OBVIOUS
    <2> HIDE DEF f
    <2>3. FrameOk(f, records, rendering, alive, fin, hd)
      BY <1>2, <2>2 DEF FrameOk
    <2>4. \A i \in DOMAIN base : Apart(f, base[i])
      BY <2>2 DEF Apart, NotOf
    <2>5. FramesOk(stack', records, rendering, alive, fin, hd)
      BY <2>1, <2>3, <2>4, FramesPush
    <2> QED BY <2>1, <2>5
  <1>3. CASE fin[v] = "none" /\ v \notin WithDel
    <2>1. Finalize(v, "die", base) /\ alive' = alive
      BY <1>3 DEF Dies
    <2>2. /\ FramesOk(stack', records, rendering, alive, fin', hd)
          /\ RunsOk(fin', runs') /\ fin'[v] # "none"
          /\ \A w \in Values : w # v => fin'[w] = fin[w]
      BY <1>3, <2>1, FinalizeOk
    <2> QED BY <2>1, <2>2
  <1> QED BY <1>1, <1>2, <1>3

\* A record being rendered has no exception any more.
RendersInv == rendering \cap exception = {} /\ rendering \subseteq raised

ValuesInv ==
    /\ RunsOk(fin, runs)
    /\ born \subseteq Values /\ alive \subseteq born /\ referenced \subseteq alive
    /\ phase # "gone" => \A v \in born \ alive : fin[v] # "none"

\* What a pass holds is not freed: it lets go of the instances first and of the
\* functions then.
PassInv ==
    /\ graph \subseteq Values
    /\ phase = "gone" => stack = <<>>
    /\ phase # "gone" => hold \subseteq alive
    /\ phase \in {"instances", "release", "functions", "unhold"} => todo \subseteq hold
    /\ phase = "instances" => graph \subseteq hold
    /\ phase = "release" => todo \subseteq Instances
    /\ phase \in {"release", "functions"} => graph \cap Functions \subseteq hold

FramesInv == FramesOk(stack, records, rendering, alive, fin, hold)

Inv == ErrorsInv /\ RendersInv /\ ValuesInv /\ PassInv /\ FramesInv

\* What the steps that only change errors leave alone.
LEMMA ErrorSteps ==
  ASSUME ValuesInv, PassInv, UNCHANGED <<values, passes>>, stack # <<>> \/ stack' = <<>>
  PROVE  ValuesInv' /\ PassInv'
  <1>1. ValuesInv'
    BY DEF ValuesInv, values, passes
  <1> QED BY <1>1 DEF PassInv, values, passes

LEMMA RaiseOk ==
  ASSUME Inv, NEW e \in Errors, NEW keeps \in BOOLEAN, Raise(e, keeps), UNCHANGED <<values, passes>>
  PROVE  RendersInv' /\ FramesInv'
  <1>1. /\ e \notin raised /\ raised' = raised \cup {e} /\ records' = records \cup {e}
        /\ exception' = IF keeps THEN exception \cup {e} ELSE exception
        /\ rendering' = rendering /\ stack' = Spent /\ stack # <<>>
    BY DEF Raise, Acts
  <1>2. FramesOk(Spent, records, rendering, alive, fin, hold)
    BY <1>1, FramesSpent DEF Inv, FramesInv
  <1>3. FramesOk(Spent, records', rendering, alive, fin, hold)
    BY <1>1, <1>2, FramesKeep DEF FramesOk, FrameOk
  <1>4. RendersInv'
    BY <1>1 DEF RendersInv, Inv
  <1> QED BY <1>1, <1>3, <1>4 DEF FramesInv, values, passes

LEMMA StartRenderOk ==
  ASSUME Inv, NEW base, NEW e \in exception, StartRender(e, base), UNCHANGED <<values, passes>>,
         FramesOk(base, records, rendering, alive, fin, hold)
  PROVE  RendersInv' /\ FramesInv'
  <1> DEFINE f == [op |-> "render", step |-> "str", error |-> e, fuel |-> Fuel["str"]]
  <1>1. /\ exception' = exception \ {e} /\ rendering' = rendering \cup {e}
        /\ raised' = raised /\ records' = records /\ stack' = Append(base, f)
    BY DEF StartRender
  <1>2. /\ {"op", "step", "fuel", "error"} \subseteq DOMAIN f
        /\ f.op = "render" /\ f.step = "str" /\ f.error = e
    OBVIOUS
  <1> HIDE DEF f
  <1>3. e \in records /\ e \in raised /\ e \notin rendering
    BY DEF Inv, ErrorsInv, Kept, RendersInv
  <1>4. FramesOk(base, records, rendering', alive, fin, hold)
    BY <1>1, FramesKeep DEF FramesOk, FrameOk
  <1>5. FrameOk(f, records, rendering', alive, fin, hold)
    BY <1>1, <1>2, <1>3 DEF FrameOk
  <1>6. \A i \in DOMAIN base : Apart(f, base[i])
    BY <1>2, <1>3 DEF Apart, FramesOk, FrameOk
  <1>7. FramesOk(stack', records, rendering', alive, fin, hold)
    BY <1>1, <1>4, <1>5, <1>6, FramesPush
  <1>8. RendersInv'
    BY <1>1, <1>3 DEF RendersInv, Inv
  <1> QED BY <1>1, <1>7, <1>8 DEF FramesInv, values, passes

LEMMA ReadOk ==
  ASSUME Inv, NEW e \in Errors, Read(e), UNCHANGED <<values, passes>>
  PROVE  RendersInv' /\ FramesInv'
  <1>1. e \in exception /\ StartRender(e, Spent) /\ stack # <<>>
    BY DEF Read, Calls, Acts
  <1>2. FramesOk(Spent, records, rendering, alive, fin, hold)
    BY <1>1, FramesSpent DEF Inv, FramesInv
  <1> QED BY <1>1, <1>2, StartRenderOk

LEMMA ReleaseOk ==
  ASSUME Inv, NEW e \in Errors, Release(e), UNCHANGED <<values, passes>>
  PROVE  RendersInv' /\ FramesInv'
  <1>1. stack # <<>> /\ raised' = raised /\ rendering' = rendering
    BY DEF Release, Calls, Acts
  <1>2. FramesOk(Spent, records, rendering, alive, fin, hold)
    BY <1>1, FramesSpent DEF Inv, FramesInv
  <1>3. CASE e \in rendering
    <2>1. stack' = Spent /\ records' = records /\ exception' = exception
      BY <1>3 DEF Release
    <2> QED BY <1>1, <1>2, <2>1 DEF Inv, RendersInv, FramesInv, values, passes
  <1>4. CASE e \notin rendering
    <2> DEFINE f == [op |-> "release", step |-> "drop", fuel |-> Fuel["drop"]]
    <2>1. /\ records' = records \ {e} /\ exception' = exception \ {e}
          /\ stack' = IF e \in exception THEN Append(Spent, f) ELSE Spent
      BY <1>4 DEF Release, Free
    <2>2. {"op", "step", "fuel"} \subseteq DOMAIN f /\ f.op = "release" /\ f.step = "drop"
      OBVIOUS
    <2> HIDE DEF f
    <2>3. FramesOk(Spent, records', rendering, alive, fin, hold)
      BY <1>2, <1>4, <2>1, FramesKeep DEF FramesOk, FrameOk
    <2>4. FrameOk(f, records', rendering, alive, fin, hold)
      BY <2>2 DEF FrameOk
    <2>5. \A i \in DOMAIN Spent : Apart(f, Spent[i])
      BY <2>2 DEF Apart
    <2>6. FramesOk(Append(Spent, f), records', rendering, alive, fin, hold)
      BY <2>3, <2>4, <2>5, FramesPush
    <2>7. FramesOk(stack', records', rendering, alive, fin, hold)
      BY <2>1, <2>3, <2>6
    <2> QED BY <1>1, <2>1, <2>7 DEF Inv, RendersInv, FramesInv, values, passes
  <1> QED BY <1>3, <1>4

LEMMA StoreMessageOk ==
  ASSUME Inv, StoreMessage, UNCHANGED <<values, passes>>
  PROVE  RendersInv' /\ FramesInv'
  <1> DEFINE f == [Top EXCEPT !.step = "drop", !.fuel = Fuel["drop"]]
  <1>1. /\ stack # <<>> /\ Top.op = "render" /\ stack' = Append(Lower(stack), f)
        /\ UNCHANGED <<raised, records, exception, rendering>>
    BY DEF StoreMessage, AtTop, Lower, Below
  <1>2. /\ FramesOk(Lower(stack), records, rendering, alive, fin, hold)
        /\ FrameOk(Top, records, rendering, alive, fin, hold)
        /\ \A i \in DOMAIN Lower(stack) : Apart(Top, Lower(stack)[i])
    BY <1>1, FramesPop DEF Inv, FramesInv, Top
  <1>3. /\ {"op", "step", "fuel", "error"} \subseteq DOMAIN f
        /\ f.op = "render" /\ f.step = "drop" /\ f.error = Top.error
    BY <1>1, <1>2 DEF FrameOk
  <1> HIDE DEF f
  <1>4. FrameOk(f, records, rendering, alive, fin, hold)
    BY <1>1, <1>2, <1>3 DEF FrameOk
  <1>5. \A i \in DOMAIN Lower(stack) : Apart(f, Lower(stack)[i])
    BY <1>1, <1>2, <1>3 DEF Apart
  <1>6. FramesOk(stack', records, rendering, alive, fin, hold)
    BY <1>1, <1>2, <1>4, <1>5, FramesPush
  <1> QED BY <1>1, <1>6 DEF Inv, RendersInv, FramesInv, values, passes

LEMMA EndRenderOk ==
  ASSUME Inv, EndRender, UNCHANGED <<values, passes>>
  PROVE  RendersInv' /\ FramesInv'
  <1> DEFINE e == Top.error
             b == Lower(stack)
  <1>1. /\ stack # <<>> /\ Top.op = "render" /\ stack' = b
        /\ raised' = raised /\ rendering' = rendering \ {e}
        /\ records \ {e} \subseteq records' /\ exception' \subseteq exception
    BY DEF EndRender, AtTop, Lower, Below, Free
  <1>2. /\ FramesOk(b, records, rendering, alive, fin, hold)
        /\ \A i \in DOMAIN b : Apart(Top, b[i])
    BY <1>1, FramesPop DEF Inv, FramesInv, Top
  <1> HIDE DEF b
  <1>3. \A i \in DOMAIN b : b[i].op = "render" => b[i].error \in records' \cap rendering'
    BY <1>1, <1>2 DEF Apart, FramesOk, FrameOk
  <1>4. FramesOk(b, records', rendering', alive, fin, hold)
    BY <1>2, <1>3, FramesKeep DEF FramesOk, FrameOk
  <1> QED BY <1>1, <1>4 DEF Inv, RendersInv, FramesInv, values, passes

LEMMA EndReleaseOk ==
  ASSUME Inv, EndRelease, UNCHANGED <<values, passes>>
  PROVE  RendersInv' /\ FramesInv'
  <1>1. stack # <<>> /\ stack' = Lower(stack) /\ UNCHANGED errors
    BY DEF EndRelease, AtTop, Lower, Below
  <1>2. FramesOk(Lower(stack), records, rendering, alive, fin, hold)
    BY <1>1, FramesPop DEF Inv, FramesInv
  <1> QED BY <1>1, <1>2 DEF Inv, RendersInv, FramesInv, values, passes, errors

(***************************************************************************)
(* Steps of finalizers and of the code they run                            *)
(***************************************************************************)

LEMMA CreateOk ==
  ASSUME Inv, NEW v \in Values, Create(v)
  PROVE  ValuesInv' /\ PassInv' /\ FramesInv'
  <1>1. /\ stack # <<>> /\ v \notin alive /\ stack' = Spent
        /\ born' = born \cup {v} /\ alive' = alive \cup {v} /\ referenced' = referenced \cup {v}
        /\ fin' = [fin EXCEPT ![v] = "none"] /\ runs' = [runs EXCEPT ![v] = 0]
        /\ UNCHANGED <<records, rendering, phase, graph, hold, todo>>
    BY DEF Create, Acts, errors, passes
  <1>2. FramesOk(Spent, records, rendering, alive, fin, hold)
    BY <1>1, FramesSpent DEF Inv, FramesInv
  <1>3. /\ DOMAIN fin' = Values /\ DOMAIN runs' = Values /\ fin'[v] = "none" /\ runs'[v] = 0
        /\ \A w \in Values : w # v => fin'[w] = fin[w] /\ runs'[w] = runs[w]
        /\ \A w : w # v => fin'[w] = fin[w]
    BY <1>1 DEF Inv, ValuesInv, RunsOk
  <1>4. FramesOk(Spent, records, rendering, alive', fin', hold)
    <2>1. \A i \in DOMAIN Spent : Spent[i].op \in {"die", "finalize"} =>
             Spent[i].value \in alive' /\ fin'[Spent[i].value] = fin[Spent[i].value]
      BY <1>1, <1>2, <1>3 DEF FramesOk, FrameOk
    <2>2. \A i \in DOMAIN Spent : Spent[i].op = "render" => Spent[i].error \in records \cap rendering
      BY <1>2 DEF FramesOk, FrameOk
    <2>3. \A i \in DOMAIN Spent : Spent[i].op = "die" => Spent[i].value \notin hold
      BY <1>2 DEF FramesOk, FrameOk
    <2> QED BY <1>2, <2>1, <2>2, <2>3, FramesKeep
  <1>5. ValuesInv'
    BY <1>1, <1>3 DEF Inv, ValuesInv, RunsOk
  <1>6. PassInv'
    BY <1>1 DEF Inv, PassInv
  <1> QED BY <1>1, <1>4, <1>5, <1>6 DEF FramesInv

LEMMA DropOk ==
  ASSUME Inv, NEW v \in Values, Drop(v)
  PROVE  ValuesInv' /\ PassInv' /\ FramesInv'
  <1>1. /\ stack # <<>> /\ v \in referenced /\ referenced' = referenced \ {v}
        /\ UNCHANGED <<records, rendering, phase, graph, hold, todo, born>>
    BY DEF Drop, Calls, Acts, errors, passes
  <1>2. /\ FramesOk(Spent, records, rendering, alive, fin, hold)
        /\ \A i \in DOMAIN Spent : i \in DOMAIN stack /\ Like(Spent[i], stack[i])
    BY <1>1, FramesSpent DEF Inv, FramesInv
  <1>3. CASE v \in hold \cup Busy
    <2>1. stack' = Spent /\ UNCHANGED <<alive, fin, runs>>
      BY <1>3 DEF Drop
    <2> QED BY <1>1, <1>2, <2>1 DEF Inv, ValuesInv, PassInv, FramesInv
  <1>4. CASE v \notin hold \cup Busy
    <2>1. Dies(v, Spent)
      BY <1>4 DEF Drop
    <2>2. NotOf(Spent, v)
      BY <1>2, <1>4 DEF NotOf, Busy, Like
    <2>3. v \in alive /\ v \notin hold /\ RunsOk(fin, runs)
      BY <1>1, <1>4 DEF Inv, ValuesInv
    <2>4. /\ FramesOk(stack', records, rendering, alive', fin', hold)
          /\ RunsOk(fin', runs')
          /\ alive' \subseteq alive /\ \A w \in alive : w # v => w \in alive'
          /\ v \notin alive' => fin'[v] # "none"
          /\ \A w \in Values : w # v => fin'[w] = fin[w]
      BY <1>2, <2>1, <2>2, <2>3, DiesOk
    <2>5. ValuesInv'
      BY <1>1, <2>4 DEF Inv, ValuesInv
    <2>6. PassInv'
      BY <1>1, <1>4, <2>4 DEF Inv, PassInv
    <2> QED BY <1>1, <2>4, <2>5, <2>6 DEF FramesInv
  <1> QED BY <1>3, <1>4

LEMMA TakeOk ==
  ASSUME Inv, NEW v \in Values, Take(v)
  PROVE  ValuesInv' /\ PassInv' /\ FramesInv'
  <1>1. /\ stack # <<>> /\ stack' = Spent /\ referenced' = referenced \cup {v}
        /\ v \in hold \/ (Top.op \in {"die", "finalize"} /\ v = Top.value)
        /\ UNCHANGED <<records, rendering, phase, graph, hold, todo, born, alive, fin, runs>>
    BY DEF Take, Acts, errors, passes
  <1>2. FramesOk(Spent, records, rendering, alive, fin, hold) /\ FrameOk(Top, records, rendering, alive, fin, hold)
    BY <1>1, FramesSpent, FramesPop DEF Inv, FramesInv, Top
  <1>3. v \in alive
    BY <1>1, <1>2 DEF FrameOk, Inv, PassInv
  <1> QED BY <1>1, <1>2, <1>3 DEF Inv, ValuesInv, PassInv, FramesInv

LEMMA EndDelOk ==
  ASSUME Inv, EndDel
  PROVE  ValuesInv' /\ PassInv' /\ FramesInv'
  <1> DEFINE v == Top.value
             b == Lower(stack)
  <1>1. /\ stack # <<>> /\ Top.op = "die" /\ Top.step = "del" /\ Below = b
        /\ UNCHANGED <<records, rendering, phase, graph, hold, todo, born, alive, referenced>>
    BY DEF EndDel, AtTop, errors, passes, Lower, Below
  <1>2. /\ FramesOk(b, records, rendering, alive, fin, hold)
        /\ FrameOk(Top, records, rendering, alive, fin, hold)
        /\ \A i \in DOMAIN b : Apart(Top, b[i])
    BY <1>1, FramesPop DEF Inv, FramesInv, Top
  <1> HIDE DEF b
  <1>3. v \in alive /\ v \notin hold /\ fin[v] = "none" /\ v \in Values
    BY <1>1, <1>2 DEF FrameOk, Inv, ValuesInv
  <1>4. CASE v \in referenced
    <2>1. stack' = b /\ UNCHANGED <<fin, runs>>
      BY <1>1, <1>4 DEF EndDel
    <2> QED BY <1>1, <1>2, <2>1 DEF Inv, ValuesInv, PassInv, FramesInv
  <1>5. CASE v \notin referenced
    <2>1. Finalize(v, "die", b)
      BY <1>1, <1>5 DEF EndDel
    <2>2. NotOf(b, v)
      BY <1>1, <1>2 DEF NotOf, Apart
    <2>3. RunsOk(fin, runs)
      BY DEF Inv, ValuesInv
    <2>4. /\ FramesOk(stack', records, rendering, alive, fin', hold)
          /\ RunsOk(fin', runs') /\ fin'[v] # "none"
          /\ \A w \in Values : w # v => fin'[w] = fin[w]
      <3> HIDE DEF v
      <3> QED BY <1>2, <1>3, <2>1, <2>2, <2>3, FinalizeOk
    <2>5. ValuesInv'
      BY <1>1, <1>3, <2>4 DEF Inv, ValuesInv
    <2>6. PassInv'
      BY <1>1 DEF Inv, PassInv
    <2> QED BY <1>1, <2>4, <2>5, <2>6 DEF FramesInv
  <1> QED BY <1>4, <1>5

LEMMA EndFinalizeOk ==
  ASSUME Inv, EndFinalize
  PROVE  ValuesInv' /\ PassInv' /\ FramesInv'
  <1> DEFINE v == Top.value
             b == Lower(stack)
  <1>1. /\ stack # <<>> /\ Top.step = "fin" /\ stack' = b
        /\ fin' = [fin EXCEPT ![v] = "done"]
        /\ alive' = IF Top.op = "die" /\ v \notin referenced THEN alive \ {v} ELSE alive
        /\ UNCHANGED <<records, rendering, phase, graph, hold, todo, born, referenced, runs>>
    BY DEF EndFinalize, errors, passes, Lower, Below
  <1>2. /\ FramesOk(b, records, rendering, alive, fin, hold)
        /\ FrameOk(Top, records, rendering, alive, fin, hold)
        /\ \A i \in DOMAIN b : Apart(Top, b[i])
    BY <1>1, FramesPop DEF Inv, FramesInv, Top
  <1> HIDE DEF b
  <1>3. /\ Top.op \in {"die", "finalize"} /\ v \in alive /\ fin[v] # "none" /\ v \in Values
        /\ Top.op = "die" => v \notin hold
    BY <1>1, <1>2 DEF FrameOk, Inv, ValuesInv
  <1>4. /\ DOMAIN fin' = Values /\ fin'[v] = "done" /\ \A w : w # v => fin'[w] = fin[w]
    BY <1>1, <1>3 DEF Inv, ValuesInv, RunsOk
  <1>5. NotOf(b, v)
    BY <1>2, <1>3 DEF NotOf, Apart
  <1> HIDE DEF v
  <1>6. FramesOk(b, records, rendering, alive', fin', hold)
    <2>1. \A i \in DOMAIN b : b[i].op \in {"die", "finalize"} =>
             b[i].value \in alive' /\ fin'[b[i].value] = fin[b[i].value]
      BY <1>1, <1>2, <1>4, <1>5 DEF FramesOk, FrameOk, NotOf
    <2>2. \A i \in DOMAIN b : b[i].op = "render" => b[i].error \in records \cap rendering
      BY <1>2 DEF FramesOk, FrameOk
    <2>3. \A i \in DOMAIN b : b[i].op = "die" => b[i].value \notin hold
      BY <1>2 DEF FramesOk, FrameOk
    <2> QED BY <1>2, <2>1, <2>2, <2>3, FramesKeep
  <1>7. RunsOk(fin', runs')
    BY <1>1, <1>3, <1>4 DEF Inv, ValuesInv, RunsOk
  <1>8. ValuesInv'
    BY <1>1, <1>3, <1>4, <1>7 DEF Inv, ValuesInv
  <1>9. PassInv'
    BY <1>1, <1>3 DEF Inv, PassInv
  <1> QED BY <1>1, <1>6, <1>8, <1>9 DEF FramesInv

(***************************************************************************)
(* Steps of tinypy_vm_destroy                                              *)
(***************************************************************************)

\* A value that the pass holds and has not finalized is finalized by it.
LEMMA PassFinalizes ==
  ASSUME Inv, NEW v \in alive, stack = <<>>, phase # "gone", Finalize(v, "finalize", <<>>), fin[v] = "none",
         UNCHANGED <<records, rendering, born, alive, referenced, phase, graph, hold>>, todo' = todo \ {v}
  PROVE  ValuesInv' /\ PassInv' /\ FramesInv'
  <1>1. FramesOk(<<>>, records, rendering, alive, fin, hold)
    BY NoFrames
  <1>2. NotOf(<<>>, v)
    BY DEF NotOf
  <1>3. v \in Values /\ RunsOk(fin, runs)
    BY DEF Inv, ValuesInv
  <1>4. /\ FramesOk(stack', records, rendering, alive, fin', hold)
        /\ RunsOk(fin', runs') /\ fin'[v] # "none"
        /\ \A w \in Values : w # v => fin'[w] = fin[w]
    BY <1>1, <1>2, <1>3, FinalizeOk
  <1>5. ValuesInv'
    BY <1>4 DEF Inv, ValuesInv
  <1>6. PassInv'
    BY DEF Inv, PassInv
  <1> QED BY <1>4, <1>5, <1>6 DEF FramesInv

\* The pass lets go of a value, the last reference to it unless code took it.
LEMMA PassReleases ==
  ASSUME Inv, NEW v \in Values, stack = <<>>, phase \in {"release", "unhold"}, v \in todo,
         IF v \in referenced THEN UNCHANGED <<stack, alive, fin, runs>> ELSE Dies(v, <<>>),
         phase = "release" => v \in Instances,
         UNCHANGED <<records, rendering, born, referenced, phase, graph>>,
         todo' = todo \ {v}, hold' = hold \ {v}
  PROVE  ValuesInv' /\ PassInv' /\ FramesInv'
  <1>1. v \in hold /\ v \in alive /\ RunsOk(fin, runs) /\ todo \subseteq hold /\ hold \subseteq alive
    BY DEF Inv, PassInv, ValuesInv
  <1>2. phase = "release" => graph \cap Functions \subseteq hold'
    BY ValuesAssumption DEF Inv, PassInv
  <1>3. CASE v \in referenced
    <2>1. ValuesInv'
      BY <1>3 DEF Inv, ValuesInv
    <2>2. PassInv'
      BY <1>1, <1>2, <1>3 DEF Inv, PassInv
    <2>3. FramesOk(<<>>, records', rendering', alive', fin', hold')
      BY NoFrames
    <2> QED BY <1>3, <2>1, <2>2, <2>3 DEF FramesInv
  <1>4. CASE v \notin referenced
    <2>1. Dies(v, <<>>)
      BY <1>4
    <2>2. FramesOk(<<>>, records, rendering, alive, fin, hold') /\ NotOf(<<>>, v)
      BY NoFrames DEF NotOf
    <2>3. v \notin hold'
      OBVIOUS
    <2>4. /\ FramesOk(stack', records, rendering, alive', fin', hold')
          /\ RunsOk(fin', runs')
          /\ alive' \subseteq alive /\ \A w \in alive : w # v => w \in alive'
          /\ v \notin alive' => fin'[v] # "none"
          /\ \A w \in Values : w # v => fin'[w] = fin[w]
      BY <1>1, <2>1, <2>2, <2>3, DiesOk
    <2>5. ValuesInv'
      BY <1>4, <2>4 DEF Inv, ValuesInv
    <2>6. PassInv'
      BY <1>1, <1>2, <2>4 DEF Inv, PassInv
    <2> QED BY <2>4, <2>5, <2>6 DEF FramesInv
  <1> QED BY <1>3, <1>4

LEMMA PassInstanceOk ==
  ASSUME Inv, NEW v \in Values, PassInstance(v)
  PROVE  ValuesInv' /\ PassInv' /\ FramesInv'
  <1>1. /\ stack = <<>> /\ phase = "instances" /\ todo' = todo \ {v}
        /\ UNCHANGED <<records, rendering, born, alive, referenced, phase, graph, hold>>
    BY DEF PassInstance, Idle, errors
  <1>2. CASE v \in referenced /\ fin[v] = "none"
    <2>1. Finalize(v, "finalize", <<>>)
      BY <1>2 DEF PassInstance
    <2>2. v \in alive
      BY <1>2 DEF Inv, ValuesInv
    <2> QED BY <1>1, <1>2, <2>1, <2>2, PassFinalizes
  <1>3. CASE ~ (v \in referenced /\ fin[v] = "none")
    <2>1. UNCHANGED <<stack, fin, runs>>
      BY <1>3 DEF PassInstance
    <2> QED BY <1>1, <2>1 DEF Inv, ValuesInv, PassInv, FramesInv
  <1> QED BY <1>2, <1>3

LEMMA PassFunctionOk ==
  ASSUME Inv, NEW v \in Values, PassFunction(v)
  PROVE  ValuesInv' /\ PassInv' /\ FramesInv'
  <1>1. /\ stack = <<>> /\ phase = "functions" /\ v \in todo /\ todo' = todo \ {v}
        /\ UNCHANGED <<records, rendering, born, alive, referenced, phase, graph, hold>>
    BY DEF PassFunction, Idle, errors
  <1>2. CASE fin[v] = "none"
    <2>1. Finalize(v, "finalize", <<>>)
      BY <1>2 DEF PassFunction
    <2>2. v \in alive
      BY <1>1 DEF Inv, PassInv
    <2> QED BY <1>1, <1>2, <2>1, <2>2, PassFinalizes
  <1>3. CASE fin[v] # "none"
    <2>1. UNCHANGED <<stack, fin, runs>>
      BY <1>3 DEF PassFunction
    <2> QED BY <1>1, <2>1 DEF Inv, ValuesInv, PassInv, FramesInv
  <1> QED BY <1>2, <1>3

LEMMA ReleasesOk ==
  ASSUME Inv, NEW v \in Values, ReleaseInstance(v) \/ ReleaseFunction(v)
  PROVE  ValuesInv' /\ PassInv' /\ FramesInv'
  <1>1. /\ stack = <<>> /\ phase \in {"release", "unhold"} /\ v \in todo
        /\ IF v \in referenced THEN UNCHANGED <<stack, alive, fin, runs>> ELSE Dies(v, <<>>)
        /\ UNCHANGED <<records, rendering, born, referenced, phase, graph>>
        /\ todo' = todo \ {v} /\ hold' = hold \ {v}
    BY DEF ReleaseInstance, ReleaseFunction, Idle, errors
  <1>2. phase = "release" => v \in Instances
    BY <1>1 DEF Inv, PassInv
  <1> QED BY <1>1, <1>2, PassReleases

\* The steps between the phases run no code.
LEMMA PhasesOk ==
  ASSUME Inv, BeginPass \/ InstancesPassed \/ InstancesReleased \/ FunctionsPassed \/ EndPass \/ BeginSweep
  PROVE  ValuesInv' /\ PassInv' /\ FramesInv'
  <1>1. /\ stack = <<>> /\ stack' = <<>> /\ UNCHANGED <<errors, values>> /\ phase # "gone" /\ phase' # "gone"
    BY DEF BeginPass, InstancesPassed, InstancesReleased, FunctionsPassed, EndPass, BeginSweep,
           Idle, MoveTo
  <1>2. ValuesInv'
    BY <1>1 DEF Inv, ValuesInv, values
  <1>3. FramesInv'
    <2>1. FramesOk(<<>>, records', rendering', alive', fin', hold')
      BY NoFrames
    <2> QED BY <1>1, <2>1 DEF FramesInv
  <1>4. CASE BeginPass
    <2>1. /\ graph' = alive /\ hold' = alive /\ alive' = alive /\ phase' = "instances"
          /\ todo' = alive \cap Instances
      BY <1>1, <1>4 DEF BeginPass, MoveTo, values
    <2> QED BY <1>1, <1>2, <1>3, <2>1 DEF Inv, PassInv, ValuesInv
  <1>5. CASE InstancesPassed
    <2>1. /\ phase = "instances" /\ phase' = "release" /\ todo' = graph \cap Instances
          /\ UNCHANGED <<graph, hold, alive>>
      BY <1>1, <1>5 DEF InstancesPassed, Idle, MoveTo, values
    <2> QED BY <1>1, <1>2, <1>3, <2>1 DEF Inv, PassInv
  <1>6. CASE InstancesReleased
    <2>1. /\ phase = "release" /\ phase' \in {"functions", "unhold"} /\ todo' = graph \cap Functions
          /\ UNCHANGED <<graph, hold, alive>>
      BY <1>1, <1>6 DEF InstancesReleased, Idle, MoveTo, values
    <2> QED BY <1>1, <1>2, <1>3, <2>1 DEF Inv, PassInv
  <1>7. CASE FunctionsPassed
    <2>1. /\ phase = "functions" /\ phase' = "unhold" /\ todo' = graph \cap Functions
          /\ UNCHANGED <<graph, hold, alive>>
      BY <1>1, <1>7 DEF FunctionsPassed, Idle, MoveTo, values
    <2> QED BY <1>1, <1>2, <1>3, <2>1 DEF Inv, PassInv
  <1>8. CASE EndPass \/ BeginSweep
    <2>1. phase' \in {"render", "sweep"} /\ UNCHANGED <<graph, hold, alive>>
      BY <1>1, <1>8 DEF EndPass, BeginSweep, MoveTo, values
    <2> QED BY <1>1, <1>2, <1>3, <2>1 DEF Inv, PassInv
  <1> QED BY <1>4, <1>5, <1>6, <1>7, <1>8

LEMMA SweepOk ==
  ASSUME Inv, Sweep
  PROVE  RendersInv' /\ ValuesInv' /\ PassInv' /\ FramesInv'
  <1>1. /\ stack' = <<>> /\ phase' = "gone" /\ alive' = {} /\ referenced' = {}
        /\ UNCHANGED <<rendering, exception, raised, born, fin, runs, graph, hold>>
    BY DEF Sweep, Idle, MoveTo
  <1>2. FramesOk(<<>>, records', rendering', alive', fin', hold')
    BY NoFrames
  <1> QED BY <1>1, <1>2 DEF Inv, RendersInv, ValuesInv, PassInv, FramesInv

LEMMA HostReleasesOk ==
  ASSUME Inv, NEW e \in Errors, HostReleases(e)
  PROVE  RendersInv' /\ ValuesInv' /\ PassInv' /\ FramesInv'
  <1>1. /\ stack = <<>> /\ stack' = <<>> /\ exception' \subseteq exception
        /\ UNCHANGED <<rendering, raised, values, passes>>
    BY DEF HostReleases, Idle, ReleaseDetached, Free
  <1>2. FramesOk(<<>>, records', rendering', alive', fin', hold')
    BY NoFrames
  <1>3. ValuesInv' /\ PassInv'
    BY <1>1, ErrorSteps DEF Inv
  <1> QED BY <1>1, <1>2, <1>3 DEF Inv, RendersInv, FramesInv

LEMMA RenderPendingOk ==
  ASSUME Inv, RenderPending
  PROVE  RendersInv' /\ ValuesInv' /\ PassInv' /\ FramesInv'
  <1> DEFINE e == links.head["pending"]
  <1>1. /\ stack = <<>> /\ phase = "render" /\ e # NoError /\ StartRender(e, <<>>)
        /\ UNCHANGED <<values, passes>>
    BY DEF RenderPending, Idle
  <1>2. e \in exception
    BY <1>1 DEF Inv, ErrorsInv, Listed, Chained, Lists, ListIn
  <1> HIDE DEF e
  <1>3. FramesOk(<<>>, records, rendering, alive, fin, hold)
    BY NoFrames
  <1>4. RendersInv' /\ FramesInv'
    BY <1>1, <1>2, <1>3, StartRenderOk
  <1>5. ValuesInv'
    BY <1>1 DEF Inv, ValuesInv, values, passes
  <1>6. PassInv'
    BY <1>1 DEF Inv, PassInv, values, passes
  <1> QED BY <1>4, <1>5, <1>6

LEMMA InvInit == Init => Inv
  <1> SUFFICES ASSUME Init PROVE Inv
    OBVIOUS
  <1>1. ErrorsInv
    BY InitListed
  <1>2. RendersInv
    BY DEF Init, HoldsDiagnostic, RendersInv
  <1>3. ValuesInv
    BY ValuesAssumption DEF Init, ValuesInv, RunsOk
  <1>4. PassInv
    BY DEF Init, PassInv
  <1>5. FramesInv
    <2>1. FramesOk(<<>>, records, rendering, alive, fin, hold)
      BY NoFrames
    <2> QED BY <2>1 DEF Init, FramesInv
  <1> QED BY <1>1, <1>2, <1>3, <1>4, <1>5 DEF Inv

LEMMA InvNext ==
  ASSUME Inv, [Next]_vars
  PROVE  Inv'
  <1> DEFINE Rests == RendersInv' /\ ValuesInv' /\ PassInv' /\ FramesInv'
  <1>1. ErrorsInv'
    BY ErrorsKept DEF Inv
  <1> SUFFICES Rests
    BY <1>1 DEF Inv
  <1>2. CASE (CodeRaises \/ Renders) /\ UNCHANGED <<values, passes, made>>
    <2>1. stack # <<>>
      BY <1>2 DEF CodeRaises, Renders, Raise, Read, Release, Calls, Acts, StoreMessage, EndRender,
                  EndRelease, AtTop
    <2>2. ValuesInv' /\ PassInv'
      BY <1>2, <2>1, ErrorSteps DEF Inv
    <2>3. RendersInv' /\ FramesInv'
      <3>1. ASSUME NEW e \in Errors, (\E keeps \in BOOLEAN : Raise(e, keeps)) \/ Read(e) \/ Release(e)
            PROVE  RendersInv' /\ FramesInv'
        BY <1>2, <3>1, RaiseOk, ReadOk, ReleaseOk
      <3>2. CASE Renders
        BY <1>2, <3>2, StoreMessageOk, EndRenderOk, EndReleaseOk DEF Renders
      <3> QED BY <1>2, <3>1, <3>2 DEF CodeRaises
    <2> QED BY <2>2, <2>3
  <1>3. ASSUME UNCHANGED errors PROVE RendersInv'
    BY <1>3 DEF Inv, RendersInv, errors
  <1>4. ASSUME NEW v \in Values, Create(v) \/ Drop(v) \/ Take(v)
        PROVE  Rests
    BY <1>3, <1>4, CreateOk, DropOk, TakeOk DEF Create, Drop, Take
  <1>5. CASE EndDel \/ EndFinalize
    BY <1>3, <1>5, EndDelOk, EndFinalizeOk DEF EndDel, EndFinalize
  <1>6. CASE Code
    BY <1>2, <1>4, <1>5, <1>6 DEF Code
  <1>7. ASSUME NEW v \in Values, PassInstance(v) \/ ReleaseInstance(v) \/ PassFunction(v) \/ ReleaseFunction(v)
        PROVE  Rests
    BY <1>3, <1>7, PassInstanceOk, PassFunctionOk, ReleasesOk
       DEF PassInstance, ReleaseInstance, PassFunction, ReleaseFunction
  <1>8. CASE BeginPass \/ InstancesPassed \/ InstancesReleased \/ FunctionsPassed \/ EndPass \/ BeginSweep
    BY <1>3, <1>8, PhasesOk DEF BeginPass, InstancesPassed, InstancesReleased, FunctionsPassed,
                                EndPass, BeginSweep
  <1>9. CASE Destroy
    BY <1>7, <1>8, <1>9, RenderPendingOk, SweepOk DEF Destroy
  <1>10. CASE UNCHANGED vars
    BY <1>10 DEF vars, errors, values, passes, Inv, RendersInv, ValuesInv, PassInv, FramesInv
  <1>11. ASSUME NEW e \in Errors, HostReleases(e)
         PROVE  Rests
    BY <1>11, HostReleasesOk
  <1> QED BY <1>6, <1>9, <1>10, <1>11 DEF Next

LEMMA InvHolds == Spec => []Inv
  BY InvInit, InvNext, PTL DEF Spec

(***************************************************************************)
(* No value is forgotten by a pass                                         *)
(***************************************************************************)

\* An activation of s is at `step` of finalizing v.
Has(s, step, v) ==
    \E i \in DOMAIN s : s[i].op \in {"die", "finalize"} /\ s[i].step = step /\ s[i].value = v

Keeps(s, t) == \A step, v : Has(s, step, v) => Has(t, step, v)

\* The finalizer of v ran or is running, or its __del__ is.
Accounted(s, fn, v) == fn[v] # "none" \/ Has(s, "del", v)

Running(s, fn) == \A v \in Values : fn[v] \notin {"none", "done"} => Has(s, "fin", v)

LEMMA KeepsPush ==
  ASSUME NEW s, NEW f, Sequence(s)
  PROVE  /\ Keeps(s, Append(s, f))
         /\ f.op \in {"die", "finalize"} => Has(Append(s, f), f.step, f.value)
  <1> DEFINE t == Append(s, f)
  <1>1. /\ Len(s) \in Nat /\ DOMAIN s = 1 .. Len(s) /\ DOMAIN t = 1 .. Len(s) + 1
        /\ \A i \in 1 .. Len(s) : t[i] = s[i]
        /\ t[Len(s) + 1] = f
    BY Appended
  <1> HIDE DEF t
  <1>2. Len(s) + 1 \in DOMAIN t /\ \A i \in DOMAIN s : i \in DOMAIN t /\ t[i] = s[i]
    BY <1>1
  <1>3. Keeps(s, t)
    BY <1>2 DEF Keeps, Has
  <1>4. f.op \in {"die", "finalize"} => Has(t, f.step, f.value)
    BY <1>1, <1>2 DEF Has
  <1> QED BY <1>3, <1>4 DEF t

LEMMA KeepsSpent ==
  ASSUME Inv, stack # <<>>
  PROVE  Keeps(stack, Spent) /\ Sequence(Spent)
  <1>1. /\ FramesOk(Spent, records, rendering, alive, fin, hold) /\ DOMAIN Spent = DOMAIN stack
        /\ \A i \in DOMAIN Spent : i \in DOMAIN stack /\ Like(Spent[i], stack[i])
    BY FramesSpent DEF Inv, FramesInv
  <1>2. Keeps(stack, Spent)
    BY <1>1 DEF Keeps, Has, Like
  <1> QED BY <1>1, <1>2 DEF FramesOk

LEMMA KeepsPop ==
  ASSUME Inv, stack # <<>>
  PROVE  /\ Sequence(Lower(stack))
         /\ \A step, v : Has(stack, step, v) =>
               \/ Has(Lower(stack), step, v)
               \/ Top.op \in {"die", "finalize"} /\ Top.step = step /\ Top.value = v
  <1> DEFINE b == Lower(stack)
  <1>1. Sequence(stack)
    BY DEF Inv, FramesInv, FramesOk
  <1>2. /\ Sequence(b) /\ Len(stack) \in Nat \ {0} /\ DOMAIN stack = 1 .. Len(stack)
        /\ DOMAIN b = 1 .. Len(stack) - 1 /\ \A i \in 1 .. Len(stack) - 1 : b[i] = stack[i]
    BY <1>1, Popped
  <1> HIDE DEF b
  <1>3. \A i \in DOMAIN stack : i = Len(stack) \/ (i \in DOMAIN b /\ b[i] = stack[i])
    BY <1>2
  <1>4. \A step, v : Has(stack, step, v) =>
           \/ Has(b, step, v)
           \/ Top.op \in {"die", "finalize"} /\ Top.step = step /\ Top.value = v
    BY <1>3 DEF Has, Top
  <1> QED BY <1>2, <1>4 DEF b

LEMMA FinalizeFollows ==
  ASSUME NEW v \in Values, NEW op \in {"die", "finalize"}, NEW base, Sequence(base), DOMAIN fin = Values,
         Finalize(v, op, base), \A w \in Values : w # v /\ fin[w] \notin {"none", "done"} => Has(base, "fin", w)
  PROVE  /\ Running(stack', fin') /\ fin'[v] # "none"
         /\ \A w \in Values : w # v /\ Accounted(base, fin, w) => Accounted(stack', fin', w)
  <1> DEFINE f == [op |-> op, step |-> "fin", value |-> v, fuel |-> Work[v]]
  <1>1. /\ stack' = Append(base, f)
        /\ fin' = [fin EXCEPT ![v] = IF v \in Functions THEN "done" ELSE "running"]
    BY DEF Finalize
  <1>2. fin'[v] # "none" /\ \A w \in Values : w # v => fin'[w] = fin[w]
    BY <1>1
  <1>3. f.op = op /\ f.step = "fin" /\ f.value = v
    OBVIOUS
  <1> HIDE DEF f
  <1>4. Keeps(base, stack') /\ Has(stack', "fin", v)
    BY <1>1, <1>3, KeepsPush
  <1>5. Running(stack', fin')
    BY <1>2, <1>4 DEF Running, Keeps
  <1>6. \A w \in Values : w # v /\ Accounted(base, fin, w) => Accounted(stack', fin', w)
    BY <1>2, <1>4 DEF Accounted, Keeps
  <1> QED BY <1>2, <1>5, <1>6

LEMMA DiesFollows ==
  ASSUME NEW v \in Values, NEW base, Sequence(base), DOMAIN fin = Values, Dies(v, base),
         Running(base, fin)
  PROVE  /\ Running(stack', fin') /\ Accounted(stack', fin', v)
         /\ \A w \in Values : Accounted(base, fin, w) => Accounted(stack', fin', w)
  <1>1. CASE fin[v] # "none"
    <2>1. stack' = base /\ fin' = fin
      BY <1>1 DEF Dies
    <2> QED BY <1>1, <2>1 DEF Accounted
  <1>2. CASE fin[v] = "none" /\ v \in WithDel
    <2> DEFINE f == [op |-> "die", step |-> "del", value |-> v, fuel |-> Work[v]]
    <2>1. stack' = Append(base, f) /\ fin' = fin
      BY <1>2 DEF Dies
    <2>2. f.op = "die" /\ f.step = "del" /\ f.value = v
      OBVIOUS
    <2> HIDE DEF f
    <2>3. Keeps(base, stack') /\ Has(stack', "del", v)
      BY <2>1, <2>2, KeepsPush
    <2> QED BY <2>1, <2>3 DEF Keeps, Running, Accounted
  <1>3. CASE fin[v] = "none" /\ v \notin WithDel
    <2>1. Finalize(v, "die", base)
      BY <1>3 DEF Dies
    <2>2. /\ Running(stack', fin') /\ fin'[v] # "none"
          /\ \A w \in Values : w # v /\ Accounted(base, fin, w) => Accounted(stack', fin', w)
      BY <2>1, FinalizeFollows DEF Running
    <2> QED BY <2>2 DEF Accounted
  <1> QED BY <1>1, <1>2, <1>3

\* A step keeps the values that are accounted for, unless it says that one was
\* made, and the finalizers that are running.
Follows ==
    /\ Running(stack', fin')
    /\ \A v \in Values : Accounted(stack, fin, v) => Accounted(stack', fin', v) \/ made'

LEMMA KeepsFollows ==
  ASSUME Running(stack, fin), Keeps(stack, stack'), fin' = fin
  PROVE  Follows
  BY DEF Follows, Running, Keeps, Accounted

LEMMA ErrorsFollow ==
  ASSUME Inv, CodeRaises \/ Renders
  PROVE  Keeps(stack, stack') /\ stack # <<>>
  <1>1. stack # <<>>
    BY DEF CodeRaises, Renders, Raise, Read, Release, Calls, Acts, StoreMessage, EndRender,
           EndRelease, AtTop
  <1>2. Keeps(stack, Spent) /\ Sequence(Spent)
    BY <1>1, KeepsSpent
  <1>3. \A f : Keeps(stack, Append(Spent, f))
    <2>1. \A f : Keeps(Spent, Append(Spent, f))
      BY <1>2, KeepsPush
    <2> QED BY <1>2, <2>1 DEF Keeps
  <1>4. Sequence(Lower(stack)) /\ (Top.op \notin {"die", "finalize"} => Keeps(stack, Lower(stack)))
    BY <1>1, KeepsPop DEF Keeps
  <1>5. Top.op \notin {"die", "finalize"} => \A f : Keeps(stack, Append(Lower(stack), f))
    <2>1. \A f : Keeps(Lower(stack), Append(Lower(stack), f))
      BY <1>4, KeepsPush
    <2> QED BY <1>4, <2>1 DEF Keeps
  <1>6. CASE CodeRaises
    <2>1. PICK e \in Errors : (\E keeps \in BOOLEAN : Raise(e, keeps)) \/ Read(e) \/ Release(e)
      BY <1>6 DEF CodeRaises
    <2>2. stack' = Spent \/ \E f : stack' = Append(Spent, f)
      BY <2>1 DEF Raise, Read, StartRender, Release
    <2> QED BY <1>1, <1>2, <1>3, <2>2
  <1>7. CASE Renders
    <2>1. /\ Top.op \notin {"die", "finalize"}
          /\ stack' = Lower(stack) \/ \E f : stack' = Append(Lower(stack), f)
      BY <1>7 DEF Renders, StoreMessage, EndRender, EndRelease, AtTop, Lower, Below
    <2> QED BY <1>1, <1>4, <1>5, <2>1
  <1> QED BY <1>6, <1>7

LEMMA CodeFollows ==
  ASSUME Inv, Running(stack, fin), Code
  PROVE  Follows /\ stack # <<>>
  <1>1. DOMAIN fin = Values
    BY DEF Inv, ValuesInv, RunsOk
  <1>2. CASE (CodeRaises \/ Renders) /\ UNCHANGED <<values, passes, made>>
    <2>1. fin' = fin
      BY <1>2 DEF values
    <2> QED BY <1>2, <2>1, ErrorsFollow, KeepsFollows
  <1>3. ASSUME NEW v \in Values, Create(v)
        PROVE  Follows /\ stack # <<>>
    <2>1. stack # <<>> /\ stack' = Spent /\ made' = TRUE /\ fin' = [fin EXCEPT ![v] = "none"]
      BY <1>3 DEF Create, Acts
    <2>2. Keeps(stack, Spent)
      BY <2>1, KeepsSpent
    <2>3. \A w \in Values : fin'[w] = "none" \/ fin'[w] = fin[w]
      BY <1>1, <2>1
    <2> QED BY <2>1, <2>2, <2>3 DEF Follows, Running, Keeps
  <1>4. ASSUME NEW v \in Values, Drop(v)
        PROVE  Follows /\ stack # <<>>
    <2>1. stack # <<>> /\ ((stack' = Spent /\ fin' = fin) \/ Dies(v, Spent))
      BY <1>4 DEF Drop, Calls, Acts
    <2>2. Keeps(stack, Spent) /\ Sequence(Spent)
      BY <2>1, KeepsSpent
    <2>3. CASE stack' = Spent /\ fin' = fin
      BY <2>1, <2>2, <2>3, KeepsFollows
    <2>4. CASE Dies(v, Spent)
      <3>1. Running(Spent, fin)
        BY <2>2 DEF Running, Keeps
      <3>2. /\ Running(stack', fin')
            /\ \A w \in Values : Accounted(Spent, fin, w) => Accounted(stack', fin', w)
        BY <1>1, <2>2, <2>4, <3>1, DiesFollows
      <3>3. \A w \in Values : Accounted(stack, fin, w) => Accounted(Spent, fin, w)
        BY <2>2 DEF Keeps, Accounted
      <3> QED BY <2>1, <3>2, <3>3 DEF Follows
    <2> QED BY <2>1, <2>3, <2>4
  <1>5. ASSUME NEW v \in Values, Take(v)
        PROVE  Follows /\ stack # <<>>
    <2>1. stack # <<>> /\ stack' = Spent /\ fin' = fin
      BY <1>5 DEF Take, Acts
    <2> QED BY <2>1, KeepsSpent, KeepsFollows
  <1>6. CASE EndDel
    <2> DEFINE v == Top.value
    <2>1. stack # <<>> /\ Top.op = "die" /\ Top.step = "del" /\ Below = Lower(stack)
      BY <1>6 DEF EndDel, AtTop, Lower, Below
    <2>2. /\ Sequence(Lower(stack))
          /\ \A step, w : Has(stack, step, w) =>
                Has(Lower(stack), step, w) \/ (step = "del" /\ w = v)
      BY <2>1, KeepsPop
    <2>3. v \in Values
      <3>1. FrameOk(Top, records, rendering, alive, fin, hold)
        BY <2>1, FramesPop DEF Inv, FramesInv, Top
      <3> QED BY <2>1, <3>1 DEF Inv, FrameOk, ValuesInv
    <2>4. Running(Lower(stack), fin)
      BY <2>2 DEF Running
    <2>5. \A w \in Values : w # v /\ Accounted(stack, fin, w) => Accounted(Lower(stack), fin, w)
      BY <2>2 DEF Accounted
    <2>6. CASE v \in referenced
      <3>1. stack' = Lower(stack) /\ made' /\ fin' = fin
        BY <1>6, <2>1, <2>6 DEF EndDel
      <3> QED BY <2>1, <2>4, <3>1 DEF Follows
    <2>7. CASE v \notin referenced
      <3>1. Finalize(v, "die", Lower(stack))
        BY <1>6, <2>1, <2>7 DEF EndDel
      <3>2. /\ Running(stack', fin') /\ fin'[v] # "none"
            /\ \A w \in Values : w # v /\ Accounted(Lower(stack), fin, w) => Accounted(stack', fin', w)
        <4> HIDE DEF v
        <4> QED BY <1>1, <2>2, <2>3, <2>4, <3>1, FinalizeFollows DEF Running
      <3> QED BY <2>1, <2>5, <3>2 DEF Follows, Accounted
    <2> QED BY <2>6, <2>7
  <1>7. CASE EndFinalize
    <2> DEFINE v == Top.value
    <2>1. /\ stack # <<>> /\ Top.step = "fin" /\ stack' = Lower(stack)
          /\ fin' = [fin EXCEPT ![v] = "done"]
      BY <1>7 DEF EndFinalize, Lower, Below
    <2>2. \A step, w : Has(stack, step, w) => Has(Lower(stack), step, w) \/ (step = "fin" /\ w = v)
      BY <2>1, KeepsPop
    <2>3. \A w \in Values : IF w = v THEN fin'[w] = "done" ELSE fin'[w] = fin[w]
      BY <1>1, <2>1
    <2>4. Running(stack', fin')
      BY <2>1, <2>2, <2>3 DEF Running
    <2>5. \A w \in Values : Accounted(stack, fin, w) => Accounted(stack', fin', w)
      BY <2>1, <2>2, <2>3 DEF Accounted
    <2> QED BY <2>1, <2>4, <2>5 DEF Follows
  <1> QED BY <1>2, <1>3, <1>4, <1>5, <1>6, <1>7 DEF Code

\* The values a pass has still to deal with.
Due == CASE phase = "instances" -> Values
         [] phase = "release"   -> todo \cup Functions
         [] phase = "functions" -> todo
         [] OTHER               -> {}

\* As long as nothing was made and no instance was taken again, the pass found
\* every value, and has dealt with those it is not still to deal with.
DueInv ==
    /\ Running(stack, fin)
    /\ ~made /\ pass > 0 => alive \subseteq graph
    /\ phase \in {"instances", "release", "functions", "unhold", "sweep"} => pass > 0
    /\ pass > 0 /\ Settled => \A v \in alive \ Due : Accounted(stack, fin, v)
    /\ phase = "sweep" => stack = <<>> /\ (pass = Passes \/ Settled)
    /\ pass \in Nat

LEMMA DueInit == Init => DueInv
  BY DEF Init, DueInv, Running

\* A step that runs code in a phase.
LEMMA DueSteps ==
  ASSUME Inv, DueInv, Follows, UNCHANGED <<phase, pass, graph, todo>>, phase # "sweep",
         unfinalized => unfinalized', made => made', ~made' => alive' \subseteq alive
  PROVE  DueInv'
  <1>1. Due' = Due
    BY DEF Due
  <1>2. alive \subseteq Values
    BY DEF Inv, ValuesInv
  <1>3. pass > 0 /\ Settled' => \A v \in (alive \ Due)' : Accounted(stack, fin, v)'
    <2> SUFFICES ASSUME pass > 0, Settled', NEW v \in (alive \ Due)'
                 PROVE  Accounted(stack', fin', v)
      BY DEF Accounted, Has
    <2>1. Settled /\ ~made' /\ v \in alive \ Due /\ v \in Values
      BY <1>1, <1>2 DEF Settled
    <2>2. Accounted(stack, fin, v)
      BY <2>1 DEF DueInv
    <2> QED BY <2>1, <2>2 DEF Follows
  <1>4. Running(stack, fin)'
    BY DEF Follows, Running, Has
  <1> QED BY <1>3, <1>4 DEF DueInv

LEMMA DueCode ==
  ASSUME Inv, DueInv, Code
  PROVE  DueInv'
  <1>1. Follows /\ stack # <<>>
    BY CodeFollows DEF DueInv
  <1>2. phase # "sweep"
    BY <1>1 DEF DueInv
  <1>3. UNCHANGED <<phase, pass, graph, todo, unfinalized>> /\ (made => made')
    BY DEF Code, Create, Drop, Take, EndDel, EndFinalize, passes
  <1>4. ~made' => alive' \subseteq alive
    BY DEF Code, Create, Drop, Dies, Take, EndDel, EndFinalize, values
  <1> QED BY <1>1, <1>2, <1>3, <1>4, DueSteps

LEMMA DueDestroy ==
  ASSUME Inv, DueInv, Destroy
  PROVE  DueInv'
  <1>1. DOMAIN fin = Values /\ alive \subseteq Values /\ Sequence(stack)
    BY DEF Inv, ValuesInv, RunsOk, FramesInv, FramesOk
  <1>2. stack = <<>>
    BY DEF Destroy, RenderPending, BeginPass, InstancesPassed, InstancesReleased, FunctionsPassed,
           EndPass, PassInstance, ReleaseInstance, PassFunction, ReleaseFunction, BeginSweep, Sweep,
           Idle
  <1>3. Running(<<>>, fin) /\ \A v : Accounted(stack, fin, v) => fin[v] # "none"
    BY <1>2 DEF DueInv, Accounted, Has
  <1>4. CASE RenderPending
    <2>1. PICK f : stack' = Append(<<>>, f)
      BY <1>4 DEF RenderPending, StartRender
    <2>2. Keeps(stack, stack')
      BY <1>1, <1>2, <2>1, KeepsPush
    <2>3. UNCHANGED <<fin, alive, phase, pass, graph, todo, unfinalized, made>> /\ phase # "sweep"
      BY <1>4 DEF RenderPending, values, passes, Idle
    <2>4. Follows
      BY <2>2, <2>3, KeepsFollows DEF DueInv
    <2> QED BY <2>3, <2>4, DueSteps
  <1>5. CASE BeginPass
    <2>1. /\ pass' = pass + 1 /\ graph' = alive /\ made' = FALSE /\ unfinalized' = FALSE
          /\ phase' = "instances" /\ UNCHANGED <<stack, fin, alive>>
      BY <1>5 DEF BeginPass, MoveTo, values
    <2>2. Due' = Values
      BY <2>1 DEF Due
    <2>3. Running(stack, fin)'
      BY <2>1 DEF DueInv, Running, Has
    <2> QED BY <1>1, <2>1, <2>2, <2>3 DEF DueInv
  <1>6. CASE InstancesPassed \/ InstancesReleased \/ FunctionsPassed \/ EndPass \/ BeginSweep
    <2>1. /\ stack' = <<>>
          /\ UNCHANGED <<fin, alive, pass, graph, made, unfinalized>>
      BY <1>2, <1>6 DEF InstancesPassed, InstancesReleased, FunctionsPassed, EndPass, BeginSweep, values
    <2>2. /\ phase' \in {"release", "functions", "unhold", "sweep"} => pass > 0
          /\ phase' \in {"release", "functions", "unhold", "sweep", "render"}
          /\ phase' = "sweep" => pass = Passes \/ Settled
      BY <1>6 DEF InstancesPassed, InstancesReleased, FunctionsPassed, EndPass, BeginSweep, DueInv,
                  Idle, MoveTo
    <2>3. Running(stack, fin)'
      BY <1>2, <2>1 DEF DueInv, Running, Has
    <2>4. pass > 0 /\ Settled => \A v \in alive \ Due' : Accounted(stack, fin, v)
      <3> SUFFICES ASSUME pass > 0, Settled, NEW v \in alive \ Due'
                   PROVE  Accounted(stack, fin, v)
        OBVIOUS
      <3>1. v \in graph /\ v \in Values
        BY <1>1 DEF DueInv, Settled
      <3>2. v \notin Due => Accounted(stack, fin, v)
        BY DEF DueInv
      <3>3. CASE InstancesPassed
        <4>1. Due' = (graph \cap Instances) \cup Functions
          BY <3>3 DEF InstancesPassed, MoveTo, Due
        <4> QED BY <3>1, <4>1 DEF Values
      <3>4. CASE InstancesReleased
        <4>1. Due' = graph \cap Functions /\ Due = Functions
          BY <3>4 DEF InstancesReleased, Idle, MoveTo, Due
        <4> QED BY <3>1, <3>2, <4>1
      <3>5. CASE FunctionsPassed \/ EndPass \/ BeginSweep
        <4>1. Due = {}
          BY <3>5 DEF FunctionsPassed, EndPass, BeginSweep, Idle, Due
        <4> QED BY <3>2, <4>1
      <3> QED BY <1>6, <3>3, <3>4, <3>5
    <2>5. Settled' = Settled
      BY <2>1 DEF Settled
    <2>6. \A v : Accounted(stack, fin, v)' <=> Accounted(stack, fin, v)
      BY <1>2, <2>1 DEF Accounted, Has
    <2> QED BY <2>1, <2>2, <2>3, <2>4, <2>5, <2>6 DEF DueInv
  <1>7. ASSUME NEW v \in Values, PassInstance(v)
        PROVE  DueInv'
    <2>1. /\ phase = "instances" /\ UNCHANGED <<alive, phase, pass, graph, unfinalized, made>>
          /\ (UNCHANGED <<stack, fin>> \/ Finalize(v, "finalize", <<>>))
      BY <1>7 DEF PassInstance, Idle
    <2>2. Due' = Values
      BY <2>1 DEF Due
    <2>3. Running(stack', fin')
      <3>1. CASE UNCHANGED <<stack, fin>>
        BY <3>1 DEF DueInv, Running
      <3>2. CASE Finalize(v, "finalize", <<>>)
        <4>1. Running(<<>>, fin) /\ Sequence(<<>>)
          BY <1>1, <1>2, <1>3
        <4> QED BY <1>1, <3>2, <4>1, FinalizeFollows DEF Running
      <3> QED BY <2>1, <3>1, <3>2
    <2>4. Running(stack, fin)'
      BY <2>3 DEF Running, Has
    <2> QED BY <1>1, <2>1, <2>2, <2>4 DEF DueInv
  <1>8. ASSUME NEW v \in Values, PassFunction(v)
        PROVE  DueInv'
    <2>1. /\ phase = "functions" /\ UNCHANGED <<alive, phase, pass, graph, unfinalized, made>>
          /\ todo' = todo \ {v}
          /\ \/ UNCHANGED <<stack, fin>> /\ fin[v] # "none"
             \/ Finalize(v, "finalize", <<>>)
      BY <1>8 DEF PassFunction, Idle
    <2>2. Due' = todo' /\ Due = todo
      BY <2>1 DEF Due
    <2>3. /\ Running(stack', fin') /\ fin'[v] # "none"
          /\ \A w \in Values : w # v /\ Accounted(stack, fin, w) => Accounted(stack', fin', w)
      <3>1. CASE UNCHANGED <<stack, fin>> /\ fin[v] # "none"
        BY <3>1 DEF DueInv, Running
      <3>2. CASE Finalize(v, "finalize", <<>>)
        <4>1. Running(<<>>, fin) /\ Sequence(<<>>)
          BY <1>1, <1>2, <1>3
        <4>2. /\ Running(stack', fin') /\ fin'[v] # "none"
              /\ \A w \in Values : w # v /\ Accounted(<<>>, fin, w) => Accounted(stack', fin', w)
          BY <1>1, <3>2, <4>1, FinalizeFollows DEF Running
        <4> QED BY <1>2, <4>2
      <3> QED BY <2>1, <3>1, <3>2
    <2>4. pass > 0 /\ Settled' => \A w \in alive \ Due' : Accounted(stack', fin', w)
      BY <1>1, <2>1, <2>2, <2>3 DEF DueInv, Settled, Accounted
    <2>5. Running(stack, fin)'
      BY <2>3 DEF Running, Has
    <2>6. \A w : Accounted(stack, fin, w)' <=> Accounted(stack', fin', w)
      BY DEF Accounted, Has
    <2> QED BY <2>1, <2>4, <2>5, <2>6 DEF DueInv
  <1>9. ASSUME NEW v \in Values, ReleaseInstance(v) \/ ReleaseFunction(v)
        PROVE  DueInv'
    <2>1. /\ phase \in {"release", "unhold"} /\ UNCHANGED <<phase, pass, graph, made>>
          /\ todo' = todo \ {v} /\ (unfinalized => unfinalized')
          /\ IF v \in referenced THEN UNCHANGED <<stack, alive, fin, runs>> ELSE Dies(v, <<>>)
          /\ phase = "release" /\ v \in referenced /\ fin[v] = "none" => unfinalized'
      <3>1. CASE ReleaseInstance(v)
        <4>1. unfinalized' = (unfinalized \/ (v \in referenced /\ fin[v] = "none"))
          BY <3>1 DEF ReleaseInstance
        <4>2. /\ phase = "release" /\ UNCHANGED <<phase, pass, graph, made>> /\ todo' = todo \ {v}
              /\ IF v \in referenced THEN UNCHANGED <<stack, alive, fin, runs>> ELSE Dies(v, <<>>)
          BY <3>1 DEF ReleaseInstance, Idle
        <4> QED BY <4>1, <4>2
      <3>2. CASE ReleaseFunction(v)
        BY <3>2 DEF ReleaseFunction, Idle
      <3> QED BY <1>9, <3>1, <3>2
    <2>2. alive' \subseteq alive
      BY <2>1 DEF Dies
    <2>3. /\ Running(stack', fin')
          /\ \A w \in Values : Accounted(stack, fin, w) => Accounted(stack', fin', w)
          /\ v \notin referenced => Accounted(stack', fin', v)
      <3>1. CASE v \in referenced
        <4>1. UNCHANGED <<stack, fin>>
          BY <2>1, <3>1
        <4> QED BY <3>1, <4>1 DEF DueInv, Running
      <3>2. CASE v \notin referenced
        <4>1. Dies(v, <<>>) /\ Running(<<>>, fin) /\ Sequence(<<>>)
          BY <1>1, <1>2, <1>3, <2>1, <3>2
        <4>2. /\ Running(stack', fin') /\ Accounted(stack', fin', v)
              /\ \A w \in Values : Accounted(<<>>, fin, w) => Accounted(stack', fin', w)
          BY <1>1, <4>1, DiesFollows
        <4> QED BY <1>2, <4>2
      <3> QED BY <3>1, <3>2
    <2>4. ASSUME pass > 0, Settled', NEW w \in alive' \ Due'
          PROVE  Accounted(stack', fin', w)
      <3>1. Settled /\ w \in alive /\ w \in Values
        BY <1>1, <2>1, <2>2, <2>4 DEF Settled
      <3>2. CASE w = v /\ phase = "release"
        <4>1. v \in referenced => fin'[v] # "none"
          BY <2>1, <2>4, <3>2 DEF Settled
        <4> QED BY <2>3, <3>2, <4>1 DEF Accounted
      <3>3. CASE ~ (w = v /\ phase = "release")
        <4>1. w \notin Due
          BY <2>1, <2>4, <3>3 DEF Due
        <4> QED BY <2>3, <2>4, <3>1, <4>1 DEF DueInv
      <3> QED BY <3>2, <3>3
    <2>5. Running(stack, fin)'
      BY <2>3 DEF Running, Has
    <2>6. \A w : Accounted(stack, fin, w)' <=> Accounted(stack', fin', w)
      BY DEF Accounted, Has
    <2> QED BY <2>1, <2>2, <2>4, <2>5, <2>6 DEF DueInv
  <1>10. CASE Sweep
    <2>1. /\ alive' = {} /\ phase' = "gone" /\ UNCHANGED <<pass, stack, fin, made>>
      BY <1>10 DEF Sweep, MoveTo
    <2>2. Running(stack, fin)'
      BY <2>1 DEF DueInv, Running, Has
    <2> QED BY <2>1, <2>2 DEF DueInv
  <1> QED BY <1>4, <1>5, <1>6, <1>7, <1>8, <1>9, <1>10 DEF Destroy

LEMMA DueNext ==
  ASSUME Inv, DueInv, [Next]_vars
  PROVE  DueInv'
  <1>1. ASSUME NEW e \in Errors, HostReleases(e)
        PROVE  DueInv'
    <2>1. /\ phase = "gone" /\ UNCHANGED <<values, passes, made, stack>>
      BY <1>1 DEF HostReleases, Idle, ReleaseDetached
    <2> QED BY <2>1 DEF DueInv, values, passes, Running, Has, Accounted, Settled, Due
  <1>2. CASE UNCHANGED vars
    BY <1>2 DEF vars, DueInv, values, passes, Running, Has, Accounted, Settled, Due
  <1> QED BY <1>1, <1>2, DueCode, DueDestroy DEF Next

LEMMA DueHolds == Spec => [](Inv /\ DueInv)
  BY InvInit, InvNext, DueInit, DueNext, PTL DEF Spec

(***************************************************************************)
(* What is left of the VM                                                  *)
(***************************************************************************)

\* An activation of s renders e.
Rendered(s, e) == \E i \in DOMAIN s : s[i].op = "render" /\ s[i].error = e

\* Every record that is marked is being rendered.
MarksInv == \A e \in rendering : Rendered(stack, e)

LEMMA RenderedPush ==
  ASSUME NEW s, NEW f, Sequence(s)
  PROVE  /\ \A e : Rendered(s, e) => Rendered(Append(s, f), e)
         /\ f.op = "render" => Rendered(Append(s, f), f.error)
  <1> DEFINE t == Append(s, f)
  <1>1. /\ Len(s) \in Nat /\ DOMAIN s = 1 .. Len(s) /\ DOMAIN t = 1 .. Len(s) + 1
        /\ \A i \in 1 .. Len(s) : t[i] = s[i]
        /\ t[Len(s) + 1] = f
    BY Appended
  <1> HIDE DEF t
  <1>2. Len(s) + 1 \in DOMAIN t /\ \A i \in DOMAIN s : i \in DOMAIN t /\ t[i] = s[i]
    BY <1>1
  <1>3. \A e : Rendered(s, e) => Rendered(t, e)
    BY <1>2 DEF Rendered
  <1>4. f.op = "render" => Rendered(t, f.error)
    BY <1>1, <1>2 DEF Rendered
  <1> QED BY <1>3, <1>4 DEF t

LEMMA RenderedSpent ==
  ASSUME Inv, stack # <<>>
  PROVE  Sequence(Spent) /\ \A e : Rendered(stack, e) => Rendered(Spent, e)
  <1>1. /\ FramesOk(Spent, records, rendering, alive, fin, hold) /\ DOMAIN Spent = DOMAIN stack
        /\ \A i \in DOMAIN Spent : i \in DOMAIN stack /\ Like(Spent[i], stack[i])
    BY FramesSpent DEF Inv, FramesInv
  <1>2. \A e : Rendered(stack, e) => Rendered(Spent, e)
    BY <1>1 DEF Rendered, Like
  <1> QED BY <1>1, <1>2 DEF FramesOk

LEMMA RenderedPop ==
  ASSUME Inv, stack # <<>>
  PROVE  /\ Sequence(Lower(stack))
         /\ \A e : Rendered(stack, e) => Rendered(Lower(stack), e) \/ (Top.op = "render" /\ Top.error = e)
  <1> DEFINE b == Lower(stack)
  <1>1. Sequence(stack)
    BY DEF Inv, FramesInv, FramesOk
  <1>2. /\ Sequence(b) /\ Len(stack) \in Nat \ {0} /\ DOMAIN stack = 1 .. Len(stack)
        /\ DOMAIN b = 1 .. Len(stack) - 1 /\ \A i \in 1 .. Len(stack) - 1 : b[i] = stack[i]
    BY <1>1, Popped
  <1> HIDE DEF b
  <1>3. \A i \in DOMAIN stack : i = Len(stack) \/ (i \in DOMAIN b /\ b[i] = stack[i])
    BY <1>2
  <1>4. \A e : Rendered(stack, e) => Rendered(b, e) \/ (Top.op = "render" /\ Top.error = e)
    BY <1>3 DEF Rendered, Top
  <1> QED BY <1>2, <1>4 DEF b

LEMMA MarksCode ==
  ASSUME Inv, MarksInv, Code
  PROVE  MarksInv'
  <1>1. stack # <<>>
    BY DEF Code, CodeRaises, Renders, Raise, Read, Release, Calls, Acts, StoreMessage, EndRender,
           EndRelease, AtTop, Create, Drop, Take, EndDel, EndFinalize
  <1> DEFINE Keep(t) == \A e : Rendered(stack, e) => Rendered(t, e)
  <1>2. Sequence(Spent) /\ Keep(Spent)
    BY <1>1, RenderedSpent
  <1>3. \A f : Keep(Append(Spent, f)) /\ (f.op = "render" => Rendered(Append(Spent, f), f.error))
    BY <1>2, RenderedPush
  <1>4. /\ Sequence(Lower(stack))
        /\ \A e : Rendered(stack, e) => Rendered(Lower(stack), e) \/ (Top.op = "render" /\ Top.error = e)
    BY <1>1, RenderedPop
  <1>5. Top.op # "render" => Keep(Lower(stack))
    BY <1>4
  <1>6. \A f : \A e : Rendered(Lower(stack), e) => Rendered(Append(Lower(stack), f), e)
    BY <1>4, RenderedPush
  <1>7. \A f : Top.op # "render" => Keep(Append(Lower(stack), f))
    BY <1>5, <1>6
  <1>8. rendering' = rendering /\ Keep(stack') => MarksInv'
    BY DEF MarksInv, Rendered
  <1>9. ASSUME NEW e \in Errors, (\E keeps \in BOOLEAN : Raise(e, keeps)) \/ Release(e)
        PROVE  MarksInv'
    <2>1. rendering' = rendering /\ (stack' = Spent \/ \E f : stack' = Append(Spent, f))
      BY <1>9 DEF Raise, Release
    <2>2. Keep(stack')
      BY <1>2, <1>3, <2>1
    <2> QED BY <1>8, <2>1, <2>2
  <1>10. ASSUME NEW e \in Errors, Read(e)
         PROVE  MarksInv'
    <2> DEFINE f == [op |-> "render", step |-> "str", error |-> e, fuel |-> Fuel["str"]]
    <2>1. rendering' = rendering \cup {e} /\ stack' = Append(Spent, f)
      BY <1>10 DEF Read, StartRender
    <2>2. f.op = "render" /\ f.error = e
      OBVIOUS
    <2> HIDE DEF f
    <2>3. Keep(stack') /\ Rendered(stack', e)
      BY <1>3, <2>1, <2>2
    <2> QED BY <2>1, <2>3 DEF MarksInv, Rendered
  <1>11. CASE StoreMessage
    <2> DEFINE f == [Top EXCEPT !.step = "drop", !.fuel = Fuel["drop"]]
    <2>1. /\ Top.op = "render" /\ stack' = Append(Lower(stack), f) /\ rendering' = rendering
      BY <1>11 DEF StoreMessage, AtTop, Lower, Below
    <2>2. FrameOk(Top, records, rendering, alive, fin, hold)
      BY <1>1, FramesPop DEF Inv, FramesInv, Top
    <2>3. f.op = "render" /\ f.error = Top.error
      BY <2>1, <2>2 DEF FrameOk
    <2> HIDE DEF f
    <2>4. Rendered(stack', Top.error)
      BY <1>4, <2>1, <2>3, RenderedPush
    <2>5. Keep(stack')
      BY <1>4, <1>6, <2>1, <2>4
    <2> QED BY <1>8, <2>1, <2>5
  <1>12. CASE EndRender
    <2>1. rendering' = rendering \ {Top.error} /\ stack' = Lower(stack)
      BY <1>12 DEF EndRender, AtTop, Lower, Below
    <2> QED BY <1>4, <2>1 DEF MarksInv, Rendered
  <1>13. CASE EndRelease
    <2>1. Top.op # "render" /\ rendering' = rendering /\ stack' = Lower(stack)
      BY <1>13 DEF EndRelease, AtTop, Lower, Below, errors
    <2> QED BY <1>5, <1>8, <2>1
  <1>14. ASSUME NEW v \in Values, Create(v) \/ Drop(v) \/ Take(v)
         PROVE  MarksInv'
    <2>1. rendering' = rendering /\ (stack' = Spent \/ \E f : stack' = Append(Spent, f))
      BY <1>14 DEF Create, Drop, Take, Dies, Finalize, errors
    <2>2. Keep(stack')
      BY <1>2, <1>3, <2>1
    <2> QED BY <1>8, <2>1, <2>2
  <1>15. CASE EndDel
    <2>1. /\ Top.op # "render" /\ rendering' = rendering
          /\ stack' = Lower(stack) \/ \E f : stack' = Append(Lower(stack), f)
      BY <1>15 DEF EndDel, AtTop, Finalize, Lower, Below, errors
    <2>2. Keep(stack')
      BY <1>5, <1>7, <2>1
    <2> QED BY <1>8, <2>1, <2>2
  <1>16. CASE EndFinalize
    <2>1. Top.step = "fin" /\ rendering' = rendering /\ stack' = Lower(stack)
      BY <1>16 DEF EndFinalize, Lower, Below, errors
    <2>2. FrameOk(Top, records, rendering, alive, fin, hold)
      BY <1>1, FramesPop DEF Inv, FramesInv, Top
    <2>3. Top.op # "render"
      BY <2>1, <2>2 DEF FrameOk
    <2> QED BY <1>5, <1>8, <2>1, <2>3
  <1> QED BY <1>9, <1>10, <1>11, <1>12, <1>13, <1>14, <1>15, <1>16 DEF Code, CodeRaises, Renders

\* Once no code runs any more, no diagnostic is left to render, and once the VM
\* is freed, it has no record.
GoneInv ==
    /\ MarksInv
    /\ phase = "sweep" => stack = <<>> /\ exception = {}
    /\ phase = "gone" => attached = {} /\ exception = {}

LEMMA GoneInit == Init => GoneInv
  BY DEF Init, HoldsDiagnostic, GoneInv, MarksInv

LEMMA GoneNext ==
  ASSUME Inv, GoneInv, [Next]_vars
  PROVE  GoneInv'
  <1>1. CASE Code
    <2>1. phase' = phase /\ stack # <<>>
      BY <1>1 DEF Code, CodeRaises, Renders, Raise, Read, Release, Calls, Acts, StoreMessage, EndRender,
             EndRelease, AtTop, Create, Drop, Take, EndDel, EndFinalize, passes
    <2>2. phase # "sweep" /\ phase # "gone"
      BY <2>1 DEF GoneInv, Inv, PassInv
    <2> QED BY <1>1, <2>1, <2>2, MarksCode DEF GoneInv
  <1>2. stack = <<>> => rendering = {}
    BY DEF GoneInv, MarksInv, Rendered
  <1>3. CASE RenderPending
    <2> DEFINE e == links.head["pending"]
               f == [op |-> "render", step |-> "str", error |-> e, fuel |-> Fuel["str"]]
    <2>1. stack = <<>> /\ phase' = phase /\ phase = "render"
      BY <1>3 DEF RenderPending, Idle, passes
    <2>2. rendering' = rendering \cup {e} /\ stack' = Append(<<>>, f)
      BY <1>3 DEF RenderPending, StartRender
    <2>3. f.op = "render" /\ f.error = e
      OBVIOUS
    <2> HIDE DEF e, f
    <2>4. Rendered(stack', e)
      <3>1. Sequence(<<>>)
        BY <2>1 DEF Inv, FramesInv, FramesOk
      <3> QED BY <2>2, <2>3, <3>1, RenderedPush
    <2> QED BY <1>2, <2>1, <2>2, <2>4 DEF GoneInv, MarksInv, Rendered
  <1>4. CASE BeginSweep
    <2>1. /\ stack = <<>> /\ UNCHANGED <<rendering, stack, exception>> /\ phase' = "sweep"
          /\ links.head["pending"] = NoError
      BY <1>4 DEF BeginSweep, Idle, MoveTo, errors
    <2>2. exception = {}
      <3>1. ListsSound
        BY ErrorsSound DEF Inv
      <3>2. {e \in attached : ListOf(e) = "pending"} = {}
        BY <2>1, <3>1 DEF ListsSound
      <3> QED BY <3>2 DEF ListOf, Inv, ErrorsInv, Kept
    <2> QED BY <1>2, <2>1, <2>2 DEF GoneInv, MarksInv
  <1>5. CASE Sweep
    <2>1. /\ phase = "sweep" /\ phase' = "gone" /\ stack = <<>> /\ rendering' = rendering
          /\ UNCHANGED <<raised, records, exception>> /\ DetachAll
      BY <1>5 DEF Sweep, Idle, MoveTo
    <2>2. attached' \subseteq exception
      BY <2>1, DetachListed DEF Inv
    <2> QED BY <1>2, <2>1, <2>2 DEF GoneInv, MarksInv
  <1>6. CASE Destroy /\ ~ (RenderPending \/ BeginSweep \/ Sweep)
    <2>1. /\ stack = <<>> /\ UNCHANGED errors
          /\ phase' \in {"instances", "release", "functions", "unhold", "render"}
      BY <1>6 DEF Destroy, BeginPass, InstancesPassed, InstancesReleased, FunctionsPassed, EndPass,
                  PassInstance, ReleaseInstance, PassFunction, ReleaseFunction, Idle, MoveTo
    <2>2. rendering' = {}
      BY <1>2, <2>1 DEF errors
    <2> QED BY <2>1, <2>2 DEF GoneInv, MarksInv
  <1>7. ASSUME NEW e \in Errors, HostReleases(e)
        PROVE  GoneInv'
    <2>1. /\ stack = <<>> /\ phase = "gone" /\ phase' = phase /\ rendering' = rendering
          /\ attached' \subseteq attached /\ exception' \subseteq exception
      BY <1>7 DEF HostReleases, Idle, ReleaseDetached, Free, passes
    <2> QED BY <1>2, <2>1 DEF GoneInv, MarksInv
  <1>8. CASE UNCHANGED vars
    BY <1>8 DEF vars, errors, passes, GoneInv, MarksInv, Rendered
  <1> QED BY <1>1, <1>3, <1>4, <1>5, <1>6, <1>7, <1>8 DEF Next

LEMMA GoneHolds == Spec => [](Inv /\ DueInv /\ GoneInv)
  BY InvInit, InvNext, DueInit, DueNext, GoneInit, GoneNext, PTL DEF Spec

(***************************************************************************)
(* The bytes of error records                                              *)
(***************************************************************************)

\* A record whose str() is running has no message yet.
Unstored(s, m) == \A i \in DOMAIN s : s[i].op = "render" /\ s[i].step = "str" => s[i].error \notin m

BytesInv ==
    /\ BytesCounted
    /\ message \subseteq records /\ message \cap exception = {}
    /\ phase # "gone" => records \subseteq attached
    /\ Unstored(stack, message)

LEMMA AttachedFinite == ErrorsInv => IsFiniteSet(attached) /\ attached \subseteq Errors
  BY FS_Subset, ErrorsAssumption DEF ErrorsInv, Kept, Listed, Chained

LEMMA Counts ==
  ASSUME NEW a, NEW m, NEW e, IsFiniteSet(a)
  PROVE  /\ Cardinality(a) \in Nat /\ Cardinality(m \cap a) \in Nat
         /\ e \notin a => Cardinality(a \cup {e}) = Cardinality(a) + 1
         /\ e \notin m => m \cap (a \cup {e}) = m \cap a
         /\ e \in a /\ e \notin m => Cardinality((m \cup {e}) \cap a) = Cardinality(m \cap a) + 1
         /\ e \in a => Cardinality(a \ {e}) = Cardinality(a) - 1
         /\ e \in a => Cardinality((m \ {e}) \cap (a \ {e}))
                       = Cardinality(m \cap a) - (IF e \in m THEN 1 ELSE 0)
  <1>1. IsFiniteSet(m \cap a)
    BY FS_Subset
  <1>2. Cardinality(a) \in Nat /\ Cardinality(m \cap a) \in Nat
    BY <1>1, FS_CardinalityType
  <1>3. e \notin a => Cardinality(a \cup {e}) = Cardinality(a) + 1
    BY FS_AddElement
  <1>4. e \notin m => m \cap (a \cup {e}) = m \cap a
    OBVIOUS
  <1>5. e \in a /\ e \notin m => Cardinality((m \cup {e}) \cap a) = Cardinality(m \cap a) + 1
    <2>1. e \in a => (m \cup {e}) \cap a = (m \cap a) \cup {e}
      OBVIOUS
    <2> QED BY <1>1, <2>1, FS_AddElement
  <1>6. e \in a => Cardinality(a \ {e}) = Cardinality(a) - 1
    BY FS_RemoveElement
  <1>7. e \in a => Cardinality((m \ {e}) \cap (a \ {e}))
                   = Cardinality(m \cap a) - (IF e \in m THEN 1 ELSE 0)
    <2>1. (m \ {e}) \cap (a \ {e}) = (m \cap a) \ {e}
      OBVIOUS
    <2> DEFINE c == Cardinality(m \cap a)
               d == Cardinality((m \cap a) \ {e})
    <2>2. d = IF e \in m \cap a THEN c - 1 ELSE c
      BY <1>1, FS_RemoveElement
    <2>3. c \in Nat
      BY <1>2
    <2> HIDE DEF c, d
    <2>4. e \in a => d = c - (IF e \in m THEN 1 ELSE 0)
      BY <2>2, <2>3
    <2> QED BY <2>1, <2>4 DEF c, d
  <1> QED BY <1>2, <1>3, <1>4, <1>5, <1>6, <1>7

LEMMA UnstoredPush ==
  ASSUME NEW s, NEW f, NEW m, Sequence(s), Unstored(s, m),
         f.op = "render" /\ f.step = "str" => f.error \notin m
  PROVE  Unstored(Append(s, f), m)
  <1> DEFINE t == Append(s, f)
  <1>1. /\ Len(s) \in Nat /\ DOMAIN s = 1 .. Len(s) /\ DOMAIN t = 1 .. Len(s) + 1
        /\ \A i \in 1 .. Len(s) : t[i] = s[i]
        /\ t[Len(s) + 1] = f
    BY Appended
  <1> HIDE DEF t
  <1>2. \A i \in DOMAIN t : (i \in DOMAIN s /\ t[i] = s[i]) \/ t[i] = f
    BY <1>1
  <1>3. Unstored(t, m)
    BY <1>2 DEF Unstored
  <1> QED BY <1>3 DEF t

LEMMA UnstoredSpent ==
  ASSUME Inv, stack # <<>>, Unstored(stack, message)
  PROVE  Unstored(Spent, message) /\ Sequence(Spent)
  <1>1. /\ FramesOk(Spent, records, rendering, alive, fin, hold)
        /\ \A i \in DOMAIN Spent : i \in DOMAIN stack /\ Like(Spent[i], stack[i])
    BY FramesSpent DEF Inv, FramesInv
  <1> QED BY <1>1 DEF Unstored, Like, FramesOk

LEMMA UnstoredRest ==
  ASSUME Inv, stack # <<>>, Unstored(stack, message)
  PROVE  Unstored(Lower(stack), message) /\ Sequence(Lower(stack))
  <1> DEFINE b == Lower(stack)
  <1>1. Sequence(stack)
    BY DEF Inv, FramesInv, FramesOk
  <1>2. /\ Sequence(b) /\ Len(stack) \in Nat \ {0} /\ DOMAIN stack = 1 .. Len(stack)
        /\ DOMAIN b = 1 .. Len(stack) - 1 /\ \A i \in 1 .. Len(stack) - 1 : b[i] = stack[i]
    BY <1>1, Popped
  <1> HIDE DEF b
  <1>3. \A i \in DOMAIN b : i \in DOMAIN stack /\ b[i] = stack[i]
    BY <1>2
  <1>4. Unstored(b, message)
    BY <1>3 DEF Unstored
  <1> QED BY <1>2, <1>4 DEF b

\* A record that is freed takes its message with it.
LEMMA FreeBytes ==
  ASSUME ErrorsInv, BytesCounted, NEW e, Free(e)
  PROVE  BytesCounted'
  <1>1. IsFiniteSet(attached)
    BY AttachedFinite
  <1>2. attached' = attached \ {e} /\ message' = message \ {e}
    BY DEF Free
  <1>3. CASE e \in attached
    <2>1. bytes' = bytes - (IF e \in message THEN 2 ELSE 1)
      BY <1>3 DEF Free
    <2>2. /\ Cardinality(attached) \in Nat /\ Cardinality(message \cap attached) \in Nat
          /\ Cardinality(attached \ {e}) = Cardinality(attached) - 1
          /\ Cardinality((message \ {e}) \cap (attached \ {e}))
             = Cardinality(message \cap attached) - (IF e \in message THEN 1 ELSE 0)
      BY <1>1, <1>3, Counts
    <2> QED BY <1>2, <2>1, <2>2 DEF BytesCounted
  <1>4. CASE e \notin attached
    <2>1. bytes' = bytes /\ attached' = attached /\ message' \cap attached' = message \cap attached
      BY <1>2, <1>4 DEF Free
    <2> QED BY <2>1 DEF BytesCounted
  <1> QED BY <1>3, <1>4

LEMMA BytesInit == Init => BytesInv
  <1> SUFFICES ASSUME NEW e \in Unread, HoldsDiagnostic(e), Init PROVE BytesInv
    BY DEF Init
  <1>1. Cardinality({}) = 0
    BY FS_EmptySet
  <1>2. bytes = Cardinality({e} \ {NoError}) /\ attached = {e} \ {NoError} /\ message = {}
    BY DEF HoldsDiagnostic
  <1>3. Cardinality({e} \ {NoError}) \in Nat
    <2>1. CASE e = NoError
      <3>1. {e} \ {NoError} = {}
        BY <2>1
      <3> QED BY <1>1, <3>1
    <2>2. CASE e # NoError
      <3>1. {e} \ {NoError} = {e} /\ Cardinality({e}) = 1
        BY <2>2, FS_Singleton
      <3> QED BY <3>1
    <2> QED BY <2>1, <2>2
  <1>4. BytesCounted
    BY <1>1, <1>2, <1>3 DEF BytesCounted
  <1>5. Unstored(stack, message)
    BY DEF Init, Unstored
  <1> QED BY <1>4, <1>5 DEF BytesInv, HoldsDiagnostic

LEMMA BytesCode ==
  ASSUME Inv, BytesInv, CodeRaises \/ Renders, phase' = phase
  PROVE  BytesInv'
  <1>1. stack # <<>> /\ phase # "gone"
    BY DEF CodeRaises, Renders, Raise, Read, Release, Calls, Acts, StoreMessage, EndRender,
           EndRelease, AtTop, Inv, PassInv
  <1>2. IsFiniteSet(attached) /\ attached = records /\ records \subseteq raised
    BY <1>1, AttachedFinite DEF Inv, ErrorsInv, Kept, BytesInv
  <1>3. Unstored(Spent, message) /\ Sequence(Spent)
    BY <1>1, UnstoredSpent DEF BytesInv
  <1>4. Unstored(Lower(stack), message) /\ Sequence(Lower(stack))
    BY <1>1, UnstoredRest DEF BytesInv
  <1>5. ASSUME NEW e \in Errors, NEW keeps \in BOOLEAN, Raise(e, keeps)
        PROVE  BytesInv'
    <2>1. /\ e \notin raised /\ records' = records \cup {e} /\ attached' = attached \cup {e}
          /\ exception' \subseteq exception \cup {e} /\ bytes' = bytes + 1
          /\ stack' = Spent /\ message' = message
      BY <1>5 DEF Raise
    <2>2. e \notin attached /\ e \notin message
      BY <1>2, <2>1 DEF BytesInv
    <2>3. /\ Cardinality(attached') = Cardinality(attached) + 1
          /\ Cardinality(message' \cap attached') = Cardinality(message \cap attached)
          /\ Cardinality(attached) \in Nat /\ Cardinality(message \cap attached) \in Nat
      BY <1>2, <2>1, <2>2, Counts
    <2>4. BytesCounted'
      BY <2>1, <2>3 DEF BytesInv, BytesCounted
    <2>5. Unstored(stack', message')
      BY <1>3, <2>1
    <2>6. Unstored(stack, message)'
      BY <2>5 DEF Unstored
    <2> QED BY <1>1, <2>1, <2>2, <2>4, <2>6 DEF BytesInv
  <1>6. ASSUME NEW e \in Errors, Read(e)
        PROVE  BytesInv'
    <2> DEFINE f == [op |-> "render", step |-> "str", error |-> e, fuel |-> Fuel["str"]]
    <2>1. /\ e \in exception /\ exception' = exception \ {e} /\ stack' = Append(Spent, f)
          /\ UNCHANGED <<records, message, attached, bytes>>
      BY <1>6 DEF Read, StartRender
    <2>2. f.error = e /\ e \notin message
      BY <2>1 DEF BytesInv
    <2> HIDE DEF f
    <2>3. Unstored(stack', message')
      BY <1>3, <2>1, <2>2, UnstoredPush
    <2>4. Unstored(stack, message)'
      BY <2>3 DEF Unstored
    <2> QED BY <2>1, <2>4 DEF BytesInv, BytesCounted
  <1>7. ASSUME NEW e \in Errors, Release(e)
        PROVE  BytesInv'
    <2>1. CASE e \in rendering
      <3>1. stack' = Spent /\ UNCHANGED <<records, exception, message, attached, bytes>>
        BY <1>7, <2>1 DEF Release
      <3>2. Unstored(stack, message)'
        BY <1>3, <3>1 DEF Unstored
      <3> QED BY <3>1, <3>2 DEF BytesInv, BytesCounted
    <2>2. CASE e \notin rendering
      <3> DEFINE f == [op |-> "release", step |-> "drop", fuel |-> Fuel["drop"]]
      <3>1. Free(e) /\ stack' = IF e \in exception THEN Append(Spent, f) ELSE Spent
        BY <1>7, <2>2 DEF Release
      <3>2. /\ records' = records \ {e} /\ message' = message \ {e} /\ attached' = attached \ {e}
            /\ exception' = exception \ {e}
        BY <3>1 DEF Free
      <3>3. BytesCounted'
        BY <3>1, FreeBytes DEF Inv, BytesInv
      <3>4. f.op # "render"
        OBVIOUS
      <3> HIDE DEF f
      <3>5. Unstored(stack', message)
        BY <1>3, <3>1, <3>4, UnstoredPush
      <3>6. Unstored(stack, message)'
        BY <3>2, <3>5 DEF Unstored
      <3> QED BY <3>2, <3>3, <3>6 DEF BytesInv
    <2> QED BY <2>1, <2>2
  <1>8. CASE StoreMessage
    <2> DEFINE e == Top.error
               f == [Top EXCEPT !.step = "drop", !.fuel = Fuel["drop"]]
    <2>1. /\ Top.op = "render" /\ Top.step = "str" /\ stack' = Append(Lower(stack), f)
          /\ UNCHANGED <<records, exception, attached>>
      BY <1>8 DEF StoreMessage, AtTop, Lower, Below
    <2>2. /\ FrameOk(Top, records, rendering, alive, fin, hold)
          /\ \A i \in DOMAIN Lower(stack) : Apart(Top, Lower(stack)[i])
      BY <1>1, FramesPop DEF Inv, FramesInv, Top
    <2>3. e \in records /\ e \in rendering /\ e \notin exception
      BY <2>1, <2>2 DEF FrameOk, Inv, RendersInv
    <2>4. e \notin message
      <3>1. Sequence(stack)
        BY DEF Inv, FramesInv, FramesOk
      <3>2. Len(stack) \in DOMAIN stack
        BY <1>1, <3>1, Popped
      <3> QED BY <2>1, <3>2 DEF BytesInv, Unstored, Top
    <2>5. message' \subseteq message \cup {e}
      BY <1>8 DEF StoreMessage
    <2>6. BytesCounted'
      <3> HIDE DEF f
      <3>1. CASE e \in released
        <4>1. message' = message /\ bytes' = bytes
          BY <1>8, <3>1 DEF StoreMessage
        <4> QED BY <2>1, <4>1 DEF BytesInv, BytesCounted
      <3>2. CASE e \notin released
        <4>1. message' = message \cup {e} /\ bytes' = bytes + 1
          BY <1>8, <3>2 DEF StoreMessage
        <4>2. /\ Cardinality((message \cup {e}) \cap attached) = Cardinality(message \cap attached) + 1
              /\ Cardinality(attached) \in Nat /\ Cardinality(message \cap attached) \in Nat
          <5> HIDE DEF e
          <5>1. e \in attached
            BY <1>2, <2>3
          <5> QED BY <1>2, <2>4, <5>1, Counts
        <4> QED BY <2>1, <4>1, <4>2 DEF BytesInv, BytesCounted
      <3> QED BY <3>1, <3>2
    <2>7. f.step = "drop"
      BY <2>2 DEF FrameOk
    <2> HIDE DEF f, e
    <2>8. Unstored(Lower(stack), message')
      BY <1>4, <2>1, <2>2, <2>5 DEF Unstored, Apart, e
    <2>9. Unstored(stack', message')
      BY <1>4, <2>1, <2>7, <2>8, UnstoredPush
    <2>10. Unstored(stack, message)'
      BY <2>9 DEF Unstored
    <2> QED BY <2>1, <2>3, <2>5, <2>6, <2>10 DEF BytesInv
  <1>9. CASE EndRender
    <2>1. stack' = Lower(stack)
      BY <1>9 DEF EndRender, Lower, Below
    <2>2. CASE Top.error \in released
      <3>1. Free(Top.error)
        BY <1>9, <2>2 DEF EndRender
      <3>2. BytesCounted'
        BY <3>1, FreeBytes DEF Inv, BytesInv
      <3>3. Unstored(stack, message)'
        BY <1>4, <2>1, <3>1 DEF Unstored, Free
      <3> QED BY <3>1, <3>2, <3>3 DEF BytesInv, Free
    <2>3. CASE Top.error \notin released
      <3>1. UNCHANGED <<records, exception, message, attached, bytes>>
        BY <1>9, <2>3 DEF EndRender
      <3>2. Unstored(stack, message)'
        BY <1>4, <2>1, <3>1 DEF Unstored
      <3> QED BY <3>1, <3>2 DEF BytesInv, BytesCounted
    <2> QED BY <2>2, <2>3
  <1>10. CASE EndRelease
    <2>1. stack' = Lower(stack) /\ UNCHANGED errors
      BY <1>10 DEF EndRelease, Lower, Below
    <2>2. Unstored(stack, message)'
      BY <1>4, <2>1 DEF Unstored, errors
    <2> QED BY <2>1, <2>2 DEF BytesInv, BytesCounted, errors
  <1> QED BY <1>5, <1>6, <1>7, <1>8, <1>9, <1>10 DEF CodeRaises, Renders

LEMMA BytesNext ==
  ASSUME Inv, GoneInv, BytesInv, [Next]_vars
  PROVE  BytesInv'
  <1>1. CASE (CodeRaises \/ Renders) /\ UNCHANGED <<values, passes, made>>
    BY <1>1, BytesCode DEF passes
  <1>2. ASSUME UNCHANGED errors, Unstored(stack', message), phase = "gone" => phase' = "gone"
        PROVE  BytesInv'
    <2>1. UNCHANGED <<records, exception, message, attached, bytes>>
      BY <1>2 DEF errors
    <2>2. BytesCounted'
      BY <2>1 DEF BytesInv, BytesCounted
    <2>3. Unstored(stack, message)'
      BY <1>2, <2>1 DEF Unstored
    <2>4. /\ message \subseteq records /\ message \cap exception = {}
          /\ phase # "gone" => records \subseteq attached
      BY DEF BytesInv
    <2>5. phase' # "gone" => phase # "gone"
      BY <1>2
    <2>6. /\ message' \subseteq records' /\ message' \cap exception' = {}
          /\ phase' # "gone" => records' \subseteq attached'
      BY <2>1, <2>4, <2>5
    <2> QED BY <2>2, <2>3, <2>6 DEF BytesInv
  <1>3. stack # <<>> => /\ Unstored(Spent, message) /\ Sequence(Spent)
                        /\ Unstored(Lower(stack), message) /\ Sequence(Lower(stack))
    BY UnstoredSpent, UnstoredRest DEF BytesInv
  <1>4. Sequence(<<>>) /\ Unstored(<<>>, message)
    BY NoFrames DEF FramesOk, Unstored
  <1>5. ASSUME NEW base, Sequence(base), Unstored(base, message), NEW v,
               \/ stack' = base
               \/ Dies(v, base)
               \/ Finalize(v, "die", base)
               \/ Finalize(v, "finalize", base)
        PROVE  Unstored(stack', message)
    <2>1. \A f : f.op # "render" => Unstored(Append(base, f), message)
      BY <1>5, UnstoredPush
    <2>2. stack' = base \/ \E f : f.op # "render" /\ stack' = Append(base, f)
      BY <1>5 DEF Dies, Finalize
    <2> QED BY <1>5, <2>1, <2>2
  <1>6. ASSUME NEW v \in Values, Create(v) \/ Drop(v) \/ Take(v)
        PROVE  BytesInv'
    <2>1. /\ stack # <<>> /\ UNCHANGED errors /\ phase' = phase
          /\ stack' = Spent \/ Dies(v, Spent)
      BY <1>6 DEF Create, Drop, Take, Calls, Acts, passes
    <2> QED BY <1>2, <1>3, <1>5, <2>1
  <1>7. CASE EndDel \/ EndFinalize
    <2>1. /\ stack # <<>> /\ UNCHANGED errors /\ phase' = phase
          /\ stack' = Lower(stack) \/ Finalize(Top.value, "die", Lower(stack))
      BY <1>7 DEF EndDel, EndFinalize, AtTop, Lower, Below, passes
    <2> QED BY <1>2, <1>3, <1>5, <2>1
  <1>8. ASSUME NEW v \in Values,
               PassInstance(v) \/ ReleaseInstance(v) \/ PassFunction(v) \/ ReleaseFunction(v)
        PROVE  BytesInv'
    <2>1. /\ UNCHANGED errors /\ phase' = phase
          /\ stack' = <<>> \/ Dies(v, <<>>) \/ Finalize(v, "finalize", <<>>)
      BY <1>8 DEF PassInstance, ReleaseInstance, PassFunction, ReleaseFunction, Idle
    <2> QED BY <1>2, <1>4, <1>5, <2>1
  <1>9. CASE BeginPass \/ InstancesPassed \/ InstancesReleased \/ FunctionsPassed \/ EndPass \/ BeginSweep
    <2>1. UNCHANGED errors /\ stack' = <<>> /\ phase # "gone"
      BY <1>9 DEF BeginPass, InstancesPassed, InstancesReleased, FunctionsPassed, EndPass, BeginSweep,
                  Idle, MoveTo
    <2> QED BY <1>2, <1>4, <2>1
  <1>10. CASE RenderPending
    <2> DEFINE e == links.head["pending"]
               f == [op |-> "render", step |-> "str", error |-> e, fuel |-> Fuel["str"]]
    <2>1. /\ exception' = exception \ {e} /\ stack' = Append(<<>>, f) /\ phase' = phase
          /\ UNCHANGED <<records, message, attached, bytes>> /\ e # NoError
      BY <1>10 DEF RenderPending, StartRender, passes
    <2>2. e \in exception
      BY <2>1 DEF Inv, ErrorsInv, Listed, Chained, Lists, ListIn
    <2>3. f.error = e /\ e \notin message
      BY <2>2 DEF BytesInv
    <2> HIDE DEF e, f
    <2>4. Unstored(stack', message)
      BY <1>4, <2>1, <2>3, UnstoredPush
    <2>5. Unstored(stack, message)'
      BY <2>1, <2>4 DEF Unstored
    <2> QED BY <2>1, <2>5 DEF BytesInv, BytesCounted
  <1>11. CASE Sweep
    <2>1. /\ bytes' = 0 /\ phase' = "gone" /\ stack' = <<>> /\ phase = "sweep" /\ DetachAll
          /\ UNCHANGED <<raised, records, exception, message>>
      BY <1>11 DEF Sweep, Idle, MoveTo
    <2>2. attached' = {}
      BY <2>1, DetachListed DEF Inv, GoneInv
    <2>3. BytesCounted'
      BY <2>1, <2>2, FS_EmptySet DEF BytesCounted
    <2> QED BY <2>1, <2>3 DEF BytesInv, Unstored
  <1>12. ASSUME NEW e \in Errors, HostReleases(e)
         PROVE  BytesInv'
    <2>1. Free(e) /\ stack' = <<>> /\ phase' = "gone"
      BY <1>12 DEF HostReleases, Idle, ReleaseDetached, passes
    <2>2. BytesCounted'
      BY <2>1, FreeBytes DEF Inv, BytesInv
    <2> QED BY <2>1, <2>2 DEF BytesInv, Free, Unstored
  <1>13. CASE UNCHANGED vars
    BY <1>2, <1>13 DEF vars, passes, BytesInv
  <1> QED BY <1>1, <1>6, <1>7, <1>8, <1>9, <1>10, <1>11, <1>12, <1>13 DEF Next, Code, Destroy

LEMMA BytesHold == Spec => [](Inv /\ GoneInv /\ BytesInv)
  BY InvInit, InvNext, GoneInit, GoneNext, BytesInit, BytesNext, PTL DEF Spec

(***************************************************************************)
(* Types                                                                   *)
(***************************************************************************)

\* A record the host released is freed at the latest when its rendering ends, so
\* the host never holds one that is marked.
RecordsInv ==
    /\ held \subseteq records /\ released \subseteq rendering /\ held \cap released = {}
    /\ links \in [head : [Lists -> Errors \cup {NoError}],
                  nxt : [Errors -> Errors \cup {NoError}],
                  prv : [Errors -> Errors \cup {NoError}]]

PhasesInv ==
    /\ fin \in [Values -> {"none", "running", "done"}] /\ runs \in [Values -> 0 .. 2]
    /\ phase \in {"render", "instances", "release", "functions", "unhold", "sweep", "gone"}
    /\ pass \in 0 .. Passes
    /\ hold \subseteq graph /\ todo \subseteq graph
    /\ made \in BOOLEAN /\ unfinalized \in BOOLEAN

TypesInv == RecordsInv /\ PhasesInv

LEMMA LinksTyped ==
  ASSUME NEW l \in [head : [Lists -> Errors \cup {NoError}],
                    nxt : [Errors -> Errors \cup {NoError}],
                    prv : [Errors -> Errors \cup {NoError}]],
         NEW e \in Errors, NEW list \in Lists
  PROVE  /\ Linked(l, e, list) \in [head : [Lists -> Errors \cup {NoError}],
                                    nxt : [Errors -> Errors \cup {NoError}],
                                    prv : [Errors -> Errors \cup {NoError}]]
         /\ Unlinked(l, e, list) \in [head : [Lists -> Errors \cup {NoError}],
                                      nxt : [Errors -> Errors \cup {NoError}],
                                      prv : [Errors -> Errors \cup {NoError}]]
  <1>1. /\ l.head \in [Lists -> Errors \cup {NoError}]
        /\ l.nxt \in [Errors -> Errors \cup {NoError}]
        /\ l.prv \in [Errors -> Errors \cup {NoError}]
    OBVIOUS
  <1>2. /\ [l.head EXCEPT ![list] = e] \in [Lists -> Errors \cup {NoError}]
        /\ [l.nxt EXCEPT ![e] = l.head[list]] \in [Errors -> Errors \cup {NoError}]
        /\ [x \in Errors |-> CASE x = e -> NoError
                               [] x # e /\ x = l.head[list] -> e
                               [] OTHER -> l.prv[x]] \in [Errors -> Errors \cup {NoError}]
    BY <1>1
  <1>3. /\ [l.head EXCEPT ![list] = IF l.prv[e] = NoError THEN l.nxt[e] ELSE @]
              \in [Lists -> Errors \cup {NoError}]
        /\ [x \in Errors |-> IF x = l.prv[e] THEN l.nxt[e] ELSE l.nxt[x]]
              \in [Errors -> Errors \cup {NoError}]
        /\ [x \in Errors |-> IF x = l.nxt[e] THEN l.prv[e] ELSE l.prv[x]]
              \in [Errors -> Errors \cup {NoError}]
    BY <1>1
  <1> QED BY <1>2, <1>3 DEF Linked, Unlinked

LEMMA TypesInit == Init => TypesInv
  <1> SUFFICES ASSUME Init PROVE TypesInv
    OBVIOUS
  <1>1. PICK e \in Unread : HoldsDiagnostic(e)
    BY DEF Init
  <1>2. RecordsInv
    BY <1>1, ErrorsAssumption DEF HoldsDiagnostic, RecordsInv, Lists
  <1>3. /\ fin \in [Values -> {"none", "running", "done"}] /\ runs \in [Values -> 0 .. 2]
        /\ pass \in 0 .. Passes
    <2>1. 0 \in 0 .. Passes
      BY ValuesAssumption
    <2> QED BY <2>1 DEF Init
  <1> QED BY <1>2, <1>3 DEF Init, PhasesInv, TypesInv

\* A record that is freed is not held, nor marked any more.
LEMMA FreeTyped ==
  ASSUME RecordsInv, NEW e \in Errors, Free(e), e \notin held', held' \subseteq held,
         released' \subseteq released, rendering \ {e} \subseteq rendering',
         released' \cap {e} \subseteq rendering'
  PROVE  RecordsInv'
  <1>1. links' = links \/ links' = [Unlinked(links, e, ListOf(e)) EXCEPT !.nxt[e] = NoError, !.prv[e] = NoError]
    BY DEF Free
  <1>2. ListOf(e) \in Lists
    BY DEF ListOf, Lists
  <1>3. links' \in [head : [Lists -> Errors \cup {NoError}],
                    nxt : [Errors -> Errors \cup {NoError}],
                    prv : [Errors -> Errors \cup {NoError}]]
    <2> DEFINE u == Unlinked(links, e, ListOf(e))
    <2>1. u \in [head : [Lists -> Errors \cup {NoError}],
                 nxt : [Errors -> Errors \cup {NoError}],
                 prv : [Errors -> Errors \cup {NoError}]]
      BY <1>2, LinksTyped DEF RecordsInv
    <2> HIDE DEF u
    <2>2. [u EXCEPT !.nxt[e] = NoError, !.prv[e] = NoError]
             \in [head : [Lists -> Errors \cup {NoError}],
                  nxt : [Errors -> Errors \cup {NoError}],
                  prv : [Errors -> Errors \cup {NoError}]]
      BY <2>1
    <2> QED BY <1>1, <2>2 DEF RecordsInv, u
  <1>4. held' \subseteq records' /\ released' \subseteq rendering' /\ held' \cap released' = {}
    BY DEF RecordsInv, Free
  <1> QED BY <1>3, <1>4 DEF RecordsInv

\* A record changes its list when its rendering begins.
LEMMA StartRenderTyped ==
  ASSUME RecordsInv, NEW e \in Errors, NEW base, StartRender(e, base)
  PROVE  RecordsInv'
  <1>1. ListOf(e) \in Lists /\ "errors" \in Lists
    BY DEF ListOf, Lists
  <1>2. Unlinked(links, e, ListOf(e)) \in [head : [Lists -> Errors \cup {NoError}],
                                           nxt : [Errors -> Errors \cup {NoError}],
                                           prv : [Errors -> Errors \cup {NoError}]]
    BY <1>1, LinksTyped DEF RecordsInv
  <1>3. links' \in [head : [Lists -> Errors \cup {NoError}],
                    nxt : [Errors -> Errors \cup {NoError}],
                    prv : [Errors -> Errors \cup {NoError}]]
    BY <1>1, <1>2, LinksTyped DEF StartRender
  <1> QED BY <1>3 DEF RecordsInv, StartRender

LEMMA RecordsNext ==
  ASSUME Inv, RecordsInv, [Next]_vars
  PROVE  RecordsInv'
  <1>1. records \subseteq raised /\ raised \subseteq Errors /\ rendering \subseteq raised
    BY DEF Inv, ErrorsInv, Kept, RendersInv
  <1>2. ASSUME UNCHANGED errors PROVE RecordsInv'
    BY <1>2 DEF RecordsInv, errors
  <1>3. ASSUME NEW e \in Errors, NEW keeps \in BOOLEAN, Raise(e, keeps)
        PROVE  RecordsInv'
    <2>1. links' = Linked(links, e, IF keeps THEN "pending" ELSE "errors")
      BY <1>3 DEF Raise
    <2>2. links' \in [head : [Lists -> Errors \cup {NoError}],
                      nxt : [Errors -> Errors \cup {NoError}],
                      prv : [Errors -> Errors \cup {NoError}]]
      BY <2>1, LinksTyped DEF RecordsInv, Lists
    <2> QED BY <1>1, <1>3, <2>2 DEF Raise, RecordsInv
  <1>4. ASSUME NEW e \in Errors, Read(e)
        PROVE  RecordsInv'
    BY <1>4, StartRenderTyped DEF Read
  <1>5. ASSUME NEW e \in Errors, Release(e)
        PROVE  RecordsInv'
    <2>1. e \in held /\ held' = held \ {e} /\ rendering' = rendering
      BY <1>5 DEF Release
    <2>2. CASE e \in rendering
      BY <1>5, <2>1, <2>2 DEF Release, RecordsInv
    <2>3. CASE e \notin rendering
      <3>1. Free(e) /\ released' = released
        BY <1>5, <2>3 DEF Release
      <3>2. e \notin released
        BY <2>3 DEF RecordsInv
      <3> QED BY <2>1, <3>1, <3>2, FreeTyped
    <2> QED BY <2>2, <2>3
  <1>6. CASE StoreMessage
    BY <1>6 DEF StoreMessage, RecordsInv
  <1>7. CASE EndRender
    <2> DEFINE e == Top.error
    <2>1. /\ rendering' = rendering \ {e} /\ released' = released \ {e} /\ held' = held
          /\ IF e \in released THEN Free(e) ELSE UNCHANGED <<records, links>>
      BY <1>7 DEF EndRender
    <2> HIDE DEF e
    <2>2. CASE e \in released
      <3>1. e \in Errors /\ e \notin held
        BY <1>1, <2>2 DEF RecordsInv
      <3> QED BY <2>1, <2>2, <3>1, FreeTyped
    <2>3. CASE e \notin released
      BY <2>1, <2>3 DEF RecordsInv
    <2> QED BY <2>2, <2>3
  <1>8. CASE RenderPending
    <2>1. links.head["pending"] \in Errors
      BY <1>8 DEF RenderPending, RecordsInv, Lists
    <2> QED BY <1>8, <2>1, StartRenderTyped DEF RenderPending
  <1>9. CASE Sweep
    <2>1. links' = [links EXCEPT !.head["errors"] = NoError]
      BY <1>9 DEF Sweep, DetachAll
    <2>2. links' \in [head : [Lists -> Errors \cup {NoError}],
                      nxt : [Errors -> Errors \cup {NoError}],
                      prv : [Errors -> Errors \cup {NoError}]]
      BY <2>1 DEF RecordsInv, Lists
    <2> QED BY <1>9, <2>2 DEF Sweep, RecordsInv
  <1>10. ASSUME NEW e \in Errors, HostReleases(e)
         PROVE  RecordsInv'
    <2>1. /\ e \in held /\ held' = held \ {e} /\ Free(e)
          /\ rendering' = rendering /\ released' = released
      BY <1>10 DEF HostReleases, ReleaseDetached
    <2>2. e \notin released
      BY <2>1 DEF RecordsInv
    <2> QED BY <2>1, <2>2, FreeTyped
  <1>11. CASE EndRelease
    BY <1>2, <1>11 DEF EndRelease
  <1>12. CASE Code
    <2>1. CASE CodeRaises \/ Renders
      BY <1>3, <1>4, <1>5, <1>6, <1>7, <1>11, <2>1 DEF CodeRaises, Renders
    <2>2. CASE ~ (CodeRaises \/ Renders)
      BY <1>2, <1>12, <2>2 DEF Code, Create, Drop, Take, EndDel, EndFinalize
    <2> QED BY <2>1, <2>2
  <1>13. CASE Destroy
    BY <1>2, <1>8, <1>9, <1>13
       DEF Destroy, BeginPass, InstancesPassed, InstancesReleased, FunctionsPassed, EndPass,
           PassInstance, ReleaseInstance, PassFunction, ReleaseFunction, BeginSweep
  <1>14. CASE UNCHANGED vars
    BY <1>2, <1>14 DEF vars
  <1> QED BY <1>10, <1>12, <1>13, <1>14 DEF Next

LEMMA PhasesNext ==
  ASSUME Inv, PhasesInv, [Next]_vars
  PROVE  PhasesInv'
  <1> DEFINE Fins == [Values -> {"none", "running", "done"}]
             Tallies == [Values -> 0 .. 2]
  <1>1. fin \in Fins /\ runs \in Tallies
    BY DEF PhasesInv
  <1>2. \A v, w : [fin EXCEPT ![v] = "none"] \in Fins /\ [fin EXCEPT ![v] = "done"] \in Fins
                  /\ [fin EXCEPT ![v] = IF w THEN "done" ELSE "running"] \in Fins
                  /\ [runs EXCEPT ![v] = 0] \in Tallies
                  /\ [runs EXCEPT ![v] = IF @ = 2 THEN 2 ELSE @ + 1] \in Tallies
    <2> SUFFICES ASSUME NEW v
                 PROVE  [runs EXCEPT ![v] = IF @ = 2 THEN 2 ELSE @ + 1] \in Tallies
      BY <1>1
    <2>1. \A x \in Values : (IF runs[x] = 2 THEN 2 ELSE runs[x] + 1) \in 0 .. 2
      BY <1>1
    <2> QED BY <1>1, <2>1
  <1>3. ASSUME NEW v, NEW op, NEW base, Finalize(v, op, base) PROVE fin' \in Fins /\ runs' \in Tallies
    BY <1>2, <1>3 DEF Finalize
  <1>4. ASSUME NEW v, NEW base, Dies(v, base) PROVE fin' \in Fins /\ runs' \in Tallies
    BY <1>1, <1>3, <1>4 DEF Dies
  <1>5. CASE Code
    <2>1. fin' \in Fins /\ runs' \in Tallies
      <3>1. CASE (CodeRaises \/ Renders) /\ UNCHANGED <<values, passes, made>>
        BY <1>1, <3>1 DEF values
      <3>2. ASSUME NEW v \in Values, Create(v) \/ Drop(v) \/ Take(v) PROVE fin' \in Fins /\ runs' \in Tallies
        BY <1>1, <1>2, <1>4, <3>2 DEF Create, Drop, Take
      <3>3. CASE EndDel \/ EndFinalize
        BY <1>1, <1>2, <1>3, <3>3 DEF EndDel, EndFinalize
      <3> QED BY <1>5, <3>1, <3>2, <3>3 DEF Code
    <2>2. UNCHANGED passes /\ (made' = made \/ made' = TRUE)
      BY <1>5 DEF Code, Create, Drop, Take, EndDel, EndFinalize
    <2> HIDE DEF Fins, Tallies
    <2>3. UNCHANGED <<phase, pass, graph, hold, todo, unfinalized>> /\ made' \in BOOLEAN
      BY <2>2 DEF passes, PhasesInv
    <2> QED BY <2>1, <2>3 DEF PhasesInv, Fins, Tallies
  <1>6. ASSUME NEW v \in Values, PassInstance(v) \/ ReleaseInstance(v) \/ PassFunction(v) \/ ReleaseFunction(v)
        PROVE  PhasesInv'
    <2>1. fin' \in Fins /\ runs' \in Tallies
      BY <1>1, <1>3, <1>4, <1>6 DEF PassInstance, ReleaseInstance, PassFunction, ReleaseFunction
    <2>2. /\ UNCHANGED <<phase, pass, graph, made>> /\ unfinalized' \in BOOLEAN
          /\ hold' \subseteq hold /\ todo' \subseteq todo
      BY <1>6 DEF PassInstance, ReleaseInstance, PassFunction, ReleaseFunction, PhasesInv
    <2> HIDE DEF Fins, Tallies
    <2> QED BY <2>1, <2>2 DEF PhasesInv, Fins, Tallies
  <1>7. CASE BeginPass
    <2>1. pass' \in 0 .. Passes
      BY <1>7, ValuesAssumption DEF BeginPass, PhasesInv
    <2> QED BY <1>7, <2>1 DEF BeginPass, MoveTo, values, PhasesInv
  <1>8. CASE InstancesPassed \/ InstancesReleased \/ FunctionsPassed \/ EndPass \/ BeginSweep \/ Sweep
    BY <1>8 DEF InstancesPassed, InstancesReleased, FunctionsPassed, EndPass, BeginSweep, Sweep,
                MoveTo, values, PhasesInv
  <1>9. CASE RenderPending
    BY <1>9 DEF RenderPending, values, passes, PhasesInv
  <1>10. ASSUME NEW e \in Errors, HostReleases(e) PROVE PhasesInv'
    BY <1>10 DEF HostReleases, values, passes, PhasesInv
  <1>11. CASE UNCHANGED vars
    BY <1>11 DEF vars, values, passes, PhasesInv
  <1> QED BY <1>5, <1>6, <1>7, <1>8, <1>9, <1>10, <1>11 DEF Next, Destroy

LEMMA TypesHold == Spec => [](Inv /\ TypesInv)
  <1>1. Inv /\ TypesInv /\ [Next]_vars => TypesInv'
    BY RecordsNext, PhasesNext DEF TypesInv
  <1> QED BY <1>1, InvInit, InvNext, TypesInit, PTL DEF Spec

(***************************************************************************)
(* Theorems                                                                *)
(***************************************************************************)

\* The host never holds a record that was freed, the marks of a rendering are on
\* records whose rendering has not ended, no byte count goes below zero, and a
\* pass holds and visits only values it collected.
THEOREM TypeCorrect == Spec => []TypeOk
  <1>1. Inv /\ TypesInv /\ BytesInv => TypeOk
    <2> SUFFICES ASSUME Inv, TypesInv, BytesInv PROVE TypeOk
      OBVIOUS
    <2>1. bytes \in Nat
      <3>1. IsFiniteSet(attached) /\ IsFiniteSet(message \cap attached)
        BY AttachedFinite, FS_Subset DEF Inv
      <3>2. Cardinality(attached) \in Nat /\ Cardinality(message \cap attached) \in Nat
        BY <3>1, FS_CardinalityType
      <3> QED BY <3>2 DEF BytesInv, BytesCounted
    <2>2. ErrorsTypeOk
      BY <2>1 DEF Inv, ErrorsInv, Kept, RendersInv, TypesInv, RecordsInv, BytesInv, Lists, ErrorsTypeOk
    <2> QED BY <2>2 DEF Inv, ValuesInv, PassInv, TypesInv, PhasesInv, TypeOk
  <1> QED BY <1>1, TypesHold, BytesHold, PTL

\* Whatever code a rendering runs, and in whatever order it raises, reads and
\* releases errors, the two lists of the VM hold the records they should.
THEOREM ListsCorrect == Spec => []ListsSound
  <1>1. Inv => ListsSound
    BY ErrorsSound DEF Inv
  <1> QED BY <1>1, InvHolds, PTL

\* error_render never works on a record that was freed: tinypy_error_release
\* leaves one that is being rendered to its rendering.
THEOREM RenderingSafe == Spec => []RenderingKept
  <1>1. Inv => RenderingKept
    BY DEF Inv, FramesInv, FramesOk, FrameOk, Apart, RenderingKept
  <1> QED BY <1>1, InvHolds, PTL

\* The host's finalizer of a value runs at most once, and before the value is
\* freed unless the sweep frees it, whichever values finalizers and __del__
\* resurrect, drop or make.
THEOREM FinalizersRunOnce == Spec => []FinalizedOnce
  <1>1. Inv => FinalizedOnce
    <2> SUFFICES ASSUME Inv PROVE FinalizedOnce
      OBVIOUS
    <2>1. \A v \in Values : fin[v] = "none" \/ runs[v] = 1
      BY DEF Inv, ValuesInv, RunsOk
    <2>2. \A v \in Values : runs[v] \in {0, 1}
      BY DEF Inv, ValuesInv, RunsOk
    <2> QED BY <2>1, <2>2 DEF Inv, ValuesInv, FinalizedOnce
  <1> QED BY <1>1, InvHolds, PTL

\* "tinypy_vm_destroy runs pending finalizers": the sweep frees a value without
\* its finalizer only after as many passes as there may be, the last of which
\* still made values or had an instance taken again.
THEOREM SweepFinalized == Spec => []SweptFinalized
  <1>1. Inv /\ DueInv => SweptFinalized
    <2> SUFFICES ASSUME Inv, DueInv, phase = "sweep", NEW v \in alive, fin[v] = "none"
                 PROVE  pass = Passes /\ ~Settled
      BY DEF SweptFinalized
    <2>1. Due = {} /\ stack = <<>> /\ pass > 0 /\ (pass = Passes \/ Settled)
      BY DEF DueInv, Due
    <2>2. ~ Accounted(stack, fin, v)
      BY <2>1 DEF Accounted, Has
    <2> QED BY <2>1, <2>2 DEF DueInv
  <1> QED BY <1>1, DueHolds, PTL

\* The finalizers of instances may call functions of the host: a pass, the last
\* one excepted, finalizes functions only once every instance it could reach is
\* finalized.
THEOREM FunctionsLast == Spec => InstancesFirst
  <1> DEFINE A == phase # "functions" /\ phase' = "functions" /\ pass < Passes =>
                     \A v \in alive \cap Instances : fin[v] = "done"
  <1>1. Inv /\ DueInv /\ [Next]_vars => [A]_vars
    <2> SUFFICES ASSUME Inv, DueInv, Next, phase # "functions", phase' = "functions", pass < Passes,
                        NEW v \in alive \cap Instances
                 PROVE  fin[v] = "done"
      BY DEF vars
    <2>1. InstancesReleased
      BY DEF Next, Code, Destroy, Create, Drop, Take, EndDel, EndFinalize, RenderPending, BeginPass,
             InstancesPassed, FunctionsPassed, EndPass, PassInstance, ReleaseInstance, PassFunction,
             ReleaseFunction, BeginSweep, Sweep, HostReleases, MoveTo, passes
    <2>2. stack = <<>> /\ phase = "release" /\ todo = {} /\ Settled /\ Due = Functions
      BY <2>1, ValuesAssumption DEF InstancesReleased, Idle, MoveTo, Due
    <2>3. v \notin Due /\ v \in Values
      BY <2>2, ValuesAssumption DEF Values
    <2>4. fin[v] # "none"
      BY <2>2, <2>3 DEF DueInv, Accounted, Has
    <2>5. fin[v] \in {"none", "done"}
      BY <2>2, <2>3 DEF DueInv, Running, Has
    <2> QED BY <2>4, <2>5
  <1> QED BY <1>1, DueHolds, PTL DEF Spec, InstancesFirst

\* The VM is freed with no diagnostic left to render and no finalizer half-way,
\* and error_detach_all takes every error the host still has off it.
THEOREM VmForgotten == Spec => []NothingRefersToVm
  <1>1. Inv /\ DueInv /\ GoneInv => NothingRefersToVm
    <2> SUFFICES ASSUME Inv, DueInv, GoneInv, phase = "gone"
                 PROVE  /\ attached = {} /\ exception = {} /\ rendering = {}
                        /\ \A v \in Values : fin[v] # "running"
      BY DEF NothingRefersToVm
    <2>1. stack = <<>> /\ attached = {} /\ exception = {}
      BY DEF Inv, PassInv, GoneInv
    <2>2. rendering = {}
      BY <2>1 DEF GoneInv, MarksInv, Rendered
    <2>3. \A v \in Values : fin[v] # "running"
      BY <2>1 DEF DueInv, Running, Has
    <2> QED BY <2>1, <2>2, <2>3
  <1> QED BY <1>1, GoneHolds, PTL

\* The VM's count of the bytes of error records is exact, whichever messages are
\* dropped because their record was released while it was rendered.
THEOREM BytesExactlyCounted == Spec => []BytesCounted
  <1>1. BytesInv => BytesCounted
    BY DEF BytesInv
  <1> QED BY <1>1, BytesHold, PTL
=============================================================================
