------------------------- MODULE UvmRegexMatchProofs -------------------------
(***************************************************************************)
(* Proofs about the cache and about matching with it.                      *)
(*                                                                         *)
(* What holds at every call is that there is a sequence of nodes that the  *)
(* hash, m_begin, prev and next describe alike (Lists), and that m_end is  *)
(* its last node unless the caller uses last keys.  Each operation maps    *)
(* such a sequence to another, and the calls are those of RecencyCache     *)
(* on the keys of its nodes.                                               *)
(***************************************************************************)
EXTENDS UvmRegexMatch, FiniteSetTheorems, SequenceTheorems, WellFoundedInduction, TLAPS

-----------------------------------------------------------------------------
(* Sequences without repetition. *)

Distinct(s) == \A i, j \in 1..Len(s) : s[i] = s[j] => i = j

\* s with its p-th element in front, and without it.
ToFront(s, p) ==
  [i \in 1..Len(s) |-> IF i = 1 THEN s[p] ELSE IF i <= p THEN s[i - 1] ELSE s[i]]
Dropped(s, p) == [i \in 1..(Len(s) - 1) |-> IF i < p THEN s[i] ELSE s[i + 1]]
Prepended(s, x) == [i \in 1..(Len(s) + 1) |-> IF i = 1 THEN x ELSE s[i - 1]]

LEMMA ToFrontFacts ==
  ASSUME NEW S, NEW s \in Seq(S), Distinct(s), NEW p \in 1..Len(s)
  PROVE  /\ ToFront(s, p) \in Seq(S) /\ Len(ToFront(s, p)) = Len(s)
         /\ DOMAIN ToFront(s, p) = 1..Len(s)
         /\ \A i \in 1..Len(s) : ToFront(s, p)[i] =
              IF i = 1 THEN s[p] ELSE IF i <= p THEN s[i - 1] ELSE s[i]
         /\ Distinct(ToFront(s, p))
<1>1. \A i \in 1..Len(s) : (IF i = 1 THEN s[p] ELSE IF i <= p THEN s[i - 1] ELSE s[i]) \in S
  OBVIOUS
<1>2. ToFront(s, p) \in [1..Len(s) -> S]
  BY <1>1 DEF ToFront
<1>3. ToFront(s, p) \in Seq(S) /\ Len(ToFront(s, p)) = Len(s)
  BY <1>2
<1>4. \A i \in 1..Len(s) : ToFront(s, p)[i] =
              IF i = 1 THEN s[p] ELSE IF i <= p THEN s[i - 1] ELSE s[i]
  BY DEF ToFront
<1> QED
  BY <1>2, <1>3, <1>4 DEF Distinct

LEMMA DroppedFacts ==
  ASSUME NEW S, NEW s \in Seq(S), Distinct(s), NEW p \in 1..Len(s)
  PROVE  /\ Dropped(s, p) \in Seq(S) /\ Len(Dropped(s, p)) = Len(s) - 1
         /\ DOMAIN Dropped(s, p) = 1..(Len(s) - 1)
         /\ \A i \in 1..(Len(s) - 1) : Dropped(s, p)[i] = IF i < p THEN s[i] ELSE s[i + 1]
         /\ Distinct(Dropped(s, p))
<1>0. Len(s) - 1 \in Nat
  OBVIOUS
<1>1. \A i \in 1..(Len(s) - 1) : (IF i < p THEN s[i] ELSE s[i + 1]) \in S
  OBVIOUS
<1>2. Dropped(s, p) \in [1..(Len(s) - 1) -> S]
  BY <1>1 DEF Dropped
<1>3. Dropped(s, p) \in Seq(S) /\ Len(Dropped(s, p)) = Len(s) - 1
  BY <1>0, <1>2
<1>4. \A i \in 1..(Len(s) - 1) : Dropped(s, p)[i] = IF i < p THEN s[i] ELSE s[i + 1]
  BY DEF Dropped
<1> QED
  BY <1>2, <1>3, <1>4 DEF Distinct

LEMMA PrependedFacts ==
  ASSUME NEW S, NEW s \in Seq(S), Distinct(s), NEW x \in S, \A i \in 1..Len(s) : s[i] # x
  PROVE  /\ Prepended(s, x) \in Seq(S) /\ Len(Prepended(s, x)) = Len(s) + 1
         /\ DOMAIN Prepended(s, x) = 1..(Len(s) + 1)
         /\ \A i \in 1..(Len(s) + 1) : Prepended(s, x)[i] = IF i = 1 THEN x ELSE s[i - 1]
         /\ Distinct(Prepended(s, x))
<1>1. \A i \in 1..(Len(s) + 1) : (IF i = 1 THEN x ELSE s[i - 1]) \in S
  OBVIOUS
<1>2. Prepended(s, x) \in [1..(Len(s) + 1) -> S]
  BY <1>1 DEF Prepended
<1>3. Prepended(s, x) \in Seq(S) /\ Len(Prepended(s, x)) = Len(s) + 1
  BY <1>2
<1>4. \A i \in 1..(Len(s) + 1) : Prepended(s, x)[i] = IF i = 1 THEN x ELSE s[i - 1]
  BY DEF Prepended
<1>5. Distinct(Prepended(s, x))
  <2> SUFFICES ASSUME NEW i \in 1..(Len(s) + 1), NEW j \in 1..(Len(s) + 1),
                      Prepended(s, x)[i] = Prepended(s, x)[j]
               PROVE  i = j
    BY <1>3 DEF Distinct
  <2>1. CASE i = 1 \/ j = 1
    BY <1>4, <2>1
  <2>2. CASE i # 1 /\ j # 1
    <3>1. i - 1 \in 1..Len(s) /\ j - 1 \in 1..Len(s) /\ s[i - 1] = s[j - 1]
      BY <1>4, <2>2
    <3>2. i - 1 = j - 1
      BY <3>1 DEF Distinct
    <3> QED
      BY <3>2
  <2> QED
    BY <2>1, <2>2
<1> QED
  BY <1>2, <1>3, <1>4, <1>5

-----------------------------------------------------------------------------
(* Heaps and their lists. *)

\* The fields of a heap, each a function on what it is a function on.
Shape(h) ==
  /\ h = [hash |-> h.hash, begin |-> h.begin, last |-> h.last, died |-> h.died,
          key |-> h.key, data |-> h.data, prev |-> h.prev, next |-> h.next]
  /\ h.hash = [k \in DOMAIN h.hash |-> h.hash[k]]
  /\ h.key \in [Nodes -> Keys \cup {Null}] /\ h.data = [n \in Nodes |-> h.data[n]]
  /\ h.prev \in [Nodes -> Nodes \cup {Null}] /\ h.next \in [Nodes -> Nodes \cup {Null}]

\* q is the nodes of h from m_begin on, and the hash holds just these.
Hashes(h, q) ==
  /\ DOMAIN h.hash \subseteq Keys
  /\ \A k \in DOMAIN h.hash : \E i \in 1..Len(q) : h.hash[k] = q[i]
  /\ \A k \in DOMAIN h.hash : h.key[h.hash[k]] = k
  /\ \A i \in 1..Len(q) : h.key[q[i]] \in DOMAIN h.hash /\ h.hash[h.key[q[i]]] = q[i]
Links(h, q) ==
  /\ h.begin = IF Len(q) = 0 THEN Null ELSE q[1]
  /\ \A i \in 1..Len(q) : h.prev[q[i]] = IF i = 1 THEN Null ELSE q[i - 1]
  /\ \A i \in 1..Len(q) : h.next[q[i]] = IF i = Len(q) THEN Null ELSE q[i + 1]
\* m_end is a node of the list, though not always its last.
EndIn(h, q) == IF Len(q) = 0 THEN h.last = Null ELSE \E i \in 1..Len(q) : h.last = q[i]
EndAt(h, q) == h.last = IF Len(q) = 0 THEN Null ELSE q[Len(q)]

Lists(h, q) ==
  /\ Shape(h) /\ ~h.died
  /\ q \in Seq(Nodes) /\ Distinct(q)
  /\ Hashes(h, q) /\ Links(h, q) /\ EndIn(h, q)

LEMMA ListedKey ==
  ASSUME NEW h, NEW q, Lists(h, q), NEW k \in DOMAIN h.hash
  PROVE  \E p \in 1..Len(q) : k = h.key[q[p]] /\ h.hash[k] = q[p]
BY DEF Lists, Hashes

\* Nothing else in a heap matters but the nodes of the list.
LEMMA SameList ==
  ASSUME NEW h, NEW q, Lists(h, q), NEW g, Shape(g), ~g.died,
         g.hash = h.hash, g.begin = h.begin, g.last = h.last,
         \A i \in 1..Len(q) : /\ g.key[q[i]] = h.key[q[i]] /\ g.prev[q[i]] = h.prev[q[i]]
                              /\ g.next[q[i]] = h.next[q[i]]
  PROVE  Lists(g, q)
<1>0. Hashes(h, q)
  BY DEF Lists
<1>1. Hashes(g, q)
  <2>1. \A k \in DOMAIN g.hash : g.key[g.hash[k]] = k
    <3> TAKE k \in DOMAIN g.hash
    <3>1. PICK i \in 1..Len(q) : h.hash[k] = q[i]
      BY <1>0 DEF Hashes
    <3> QED
      BY <1>0, <3>1 DEF Hashes
  <2>2. \A i \in 1..Len(q) : g.key[q[i]] \in DOMAIN g.hash /\ g.hash[g.key[q[i]]] = q[i]
    BY <1>0 DEF Hashes
  <2> QED
    BY <1>0, <2>1, <2>2 DEF Hashes
<1>2. Links(g, q)
  BY DEF Lists, Links
<1>3. EndIn(g, q)
  BY DEF Lists, EndIn
<1> QED
  BY <1>1, <1>2, <1>3 DEF Lists

\* m_update: the node comes to the front.
LEMMA UpdateFields ==
  ASSUME NEW h, Shape(h), NEW n \in Nodes, h.begin # n, h.prev[n] \in Nodes, h.prev[n] # n,
         h.begin \in Nodes
  PROVE  LET g == m_update(h, n)
         IN /\ Shape(g)
            /\ g.hash = h.hash /\ g.last = h.last /\ g.died = h.died
            /\ g.key = h.key /\ g.data = h.data /\ g.begin = n
            /\ \A m \in Nodes : g.next[m] = IF m = n THEN h.begin
                                            ELSE IF m = h.prev[n] THEN h.next[n] ELSE h.next[m]
            /\ \A m \in Nodes : g.prev[m] = IF m = n THEN Null ELSE IF m = h.begin THEN n
                                            ELSE IF m = h.next[n] THEN h.prev[n] ELSE h.prev[m]
<1> DEFINE g  == m_update(h, n)
           nx == [h.next EXCEPT ![h.prev[n]] = h.next[n], ![n] = h.begin]
           pv == [m \in Nodes |-> IF m = n THEN Null ELSE IF m = h.begin THEN n
                                  ELSE IF m = h.next[n] THEN h.prev[n] ELSE h.prev[m]]
<1>0. h.prev[n] # Null
  BY CacheAssumption
<1>1. g = [h EXCEPT !.next = nx, !.prev = pv, !.begin = n]
  BY <1>0 DEF m_update
<1>2. nx \in [Nodes -> Nodes \cup {Null}] /\ pv \in [Nodes -> Nodes \cup {Null}]
  BY DEF Shape
<1>3. \A m \in Nodes : nx[m] = IF m = n THEN h.begin
                               ELSE IF m = h.prev[n] THEN h.next[n] ELSE h.next[m]
  BY DEF Shape
<1>4. \A m \in Nodes : pv[m] = IF m = n THEN Null ELSE IF m = h.begin THEN n
                               ELSE IF m = h.next[n] THEN h.prev[n] ELSE h.prev[m]
  OBVIOUS
<1> HIDE DEF nx, pv
<1>5. g = [hash |-> h.hash, begin |-> n, last |-> h.last, died |-> h.died,
           key |-> h.key, data |-> h.data, prev |-> pv, next |-> nx]
  BY <1>1 DEF Shape
<1> HIDE DEF g
<1>6. /\ g.hash = h.hash /\ g.last = h.last /\ g.died = h.died /\ g.key = h.key
      /\ g.data = h.data /\ g.begin = n /\ g.next = nx /\ g.prev = pv
  BY <1>5
<1>7. Shape(g)
  BY <1>2, <1>5, <1>6 DEF Shape
<1> QED
  BY <1>3, <1>4, <1>6, <1>7 DEF g

LEMMA UpdateLists ==
  ASSUME NEW h, NEW q, Lists(h, q), NEW p \in 1..Len(q)
  PROVE  LET g == m_update(h, q[p])
         IN /\ Lists(g, ToFront(q, p))
            /\ g.hash = h.hash /\ g.key = h.key /\ g.data = h.data /\ g.last = h.last
            /\ (EndAt(h, q) /\ (p # Len(q) \/ p = 1) => EndAt(g, ToFront(q, p)))
<1> DEFINE g == m_update(h, q[p])
           r == ToFront(q, p)
<1>q. q \in Seq(Nodes) /\ Distinct(q) /\ Shape(h) /\ ~h.died
  BY DEF Lists
<1>n. \A i \in 1..Len(q) : q[i] \in Nodes /\ q[i] # Null
  BY <1>q, CacheAssumption
<1>s. r \in Seq(Nodes) /\ DOMAIN r = 1..Len(q) /\ Distinct(r)
  BY <1>q, ToFrontFacts
<1>r. /\ Len(r) = Len(q) /\ Len(q) \in Nat /\ p \in 1..Len(q)
      /\ \A i \in 1..Len(q) : r[i] = IF i = 1 THEN q[p] ELSE IF i <= p THEN q[i - 1] ELSE q[i]
  BY <1>q, ToFrontFacts
<1>d. \A i, j \in 1..Len(q) : q[i] = q[j] => i = j
  BY <1>q DEF Distinct
<1> HIDE DEF r
<1>1. CASE p = 1
  <2>1. h.begin = q[p]
    BY <1>1 DEF Lists, Links
  <2>2. g = h
    BY <2>1 DEF m_update
  <2>3. r = q
    BY <1>1, <1>r, <1>q, <1>s
  <2> QED
    BY <2>2, <2>3 DEF r
<1>2. CASE p # 1
  <2>1. h.begin = q[1] /\ h.prev[q[p]] = q[p - 1] /\ q[1] # q[p] /\ q[p - 1] # q[p]
    BY <1>2, <1>d, <1>r DEF Lists, Links
  <2>2. /\ Shape(g)
        /\ g.hash = h.hash /\ g.last = h.last /\ g.died = h.died
        /\ g.key = h.key /\ g.data = h.data /\ g.begin = q[p]
        /\ \A m \in Nodes : g.next[m] = IF m = q[p] THEN q[1]
                              ELSE IF m = q[p - 1] THEN h.next[q[p]] ELSE h.next[m]
        /\ \A m \in Nodes : g.prev[m] = IF m = q[p] THEN Null ELSE IF m = q[1] THEN q[p]
                              ELSE IF m = h.next[q[p]] THEN q[p - 1] ELSE h.prev[m]
    BY <1>2, <1>q, <1>n, <2>1, UpdateFields
  <2> HIDE DEF g
  <2>n. h.next[q[p]] = IF p = Len(q) THEN Null ELSE q[p + 1]
    BY DEF Lists, Links
  <2>3. Hashes(g, r)
    <3>1. \A i \in 1..Len(q) : \E j \in 1..Len(q) : r[i] = q[j]
      BY <1>r, <1>2
    <3>2. \A j \in 1..Len(q) : \E i \in 1..Len(q) : r[i] = q[j]
      <4> TAKE j \in 1..Len(q)
      <4>1. CASE j = p
        BY <1>r, <4>1
      <4>2. CASE j < p
        BY <1>r, <4>2, r[j + 1] = q[j], j + 1 \in 1..Len(q)
      <4>3. CASE j > p
        BY <1>r, <4>3
      <4> QED
        BY <4>1, <4>2, <4>3
    <3>3. Hashes(h, q)
      BY DEF Lists
    <3> QED
      <4>1. \A k \in DOMAIN g.hash : \E i \in 1..Len(r) : g.hash[k] = r[i]
        <5> TAKE k \in DOMAIN g.hash
        <5>1. PICK j \in 1..Len(q) : h.hash[k] = q[j]
          BY <3>3, <2>2 DEF Hashes
        <5> QED
          BY <3>2, <5>1, <2>2, <1>r
      <4>2. \A i \in 1..Len(r) : g.key[r[i]] \in DOMAIN g.hash /\ g.hash[g.key[r[i]]] = r[i]
        <5> TAKE i \in 1..Len(r)
        <5>1. PICK j \in 1..Len(q) : r[i] = q[j]
          BY <3>1, <1>r
        <5>2. h.key[q[j]] \in DOMAIN h.hash /\ h.hash[h.key[q[j]]] = q[j]
          BY <3>3 DEF Hashes
        <5>3. g.key = h.key /\ g.hash = h.hash
          BY <2>2
        <5> QED
          BY <5>1, <5>2, <5>3
      <4>3. DOMAIN g.hash \subseteq Keys /\ \A k \in DOMAIN g.hash : g.key[g.hash[k]] = k
        BY <3>3, <2>2 DEF Hashes
      <4> QED
        BY <4>1, <4>2, <4>3 DEF Hashes
  <2>4. g.begin = r[1] /\ Len(r) # 0
    BY <2>2, <1>r
  <2>5. \A i \in 1..Len(r) : g.prev[r[i]] = IF i = 1 THEN Null ELSE r[i - 1]
    <3> TAKE i \in 1..Len(r)
    <3>1. CASE i = 1
      BY <3>1, <1>r, <1>n, <2>2
    <3>2. CASE i = 2
      BY <3>2, <1>r, <1>n, <1>2, <2>1, <2>2
    <3>3. CASE 2 < i /\ i <= p
      <4>1. r[i] = q[i - 1] /\ r[i - 1] = q[i - 2] /\ i - 1 \in 1..Len(q) /\ i - 1 # 1 /\ i - 1 # p
        BY <3>3, <1>r
      <4>2. q[i - 1] # q[p] /\ q[i - 1] # q[1]
        BY <4>1, <1>d, <1>r
      <4>3. q[i - 1] # h.next[q[p]]
        BY <4>1, <3>3, <2>n, <1>d, <1>r, <1>n
      <4>4. h.prev[q[i - 1]] = q[i - 2]
        BY <4>1 DEF Lists, Links
      <4> QED
        BY <4>1, <4>2, <4>3, <4>4, <2>2, <1>n, <3>3
    <3>4. CASE 2 < i /\ i = p + 1
      <4>1. r[i] = q[p + 1] /\ r[i - 1] = q[p - 1] /\ i \in 1..Len(q)
        BY <3>4, <1>r, <1>2
      <4>2. q[p + 1] # q[p] /\ q[p + 1] # q[1] /\ h.next[q[p]] = q[p + 1]
        BY <4>1, <3>4, <1>d, <1>2, <2>n, <1>n, <1>r
      <4> QED
        BY <4>1, <4>2, <2>2, <1>n, <3>4
    <3>5. CASE 2 < i /\ p + 1 < i
      <4>1. r[i] = q[i] /\ r[i - 1] = q[i - 1] /\ i \in 1..Len(q)
        BY <3>5, <1>r, <1>2
      <4>2. q[i] # q[p] /\ q[i] # q[1] /\ q[i] # h.next[q[p]]
        BY <4>1, <3>5, <1>d, <1>2, <2>n, <1>n, <1>r
      <4>4. h.prev[q[i]] = q[i - 1]
        BY <4>1, <3>5 DEF Lists, Links
      <4> QED
        BY <4>1, <4>2, <4>4, <2>2, <1>n, <3>5
    <3> QED
      BY <3>1, <3>2, <3>3, <3>4, <3>5
  <2>6. \A i \in 1..Len(r) : g.next[r[i]] = IF i = Len(r) THEN Null ELSE r[i + 1]
    <3> TAKE i \in 1..Len(r)
    <3>1. CASE i = 1
      BY <3>1, <1>r, <1>n, <1>2, <2>2
    <3>2. CASE i # 1 /\ i < p
      <4>1. r[i] = q[i - 1] /\ r[i + 1] = q[i] /\ i - 1 \in 1..Len(q) /\ i + 1 \in 1..Len(q)
        BY <3>2, <1>r
      <4>2. q[i - 1] # q[p] /\ q[i - 1] # q[p - 1]
        BY <4>1, <3>2, <1>d, <1>r, <1>2
      <4>4. h.next[q[i - 1]] = q[i]
        BY <4>1 DEF Lists, Links
      <4> QED
        BY <4>1, <4>2, <4>4, <2>2, <1>n, <1>r, <3>2
    <3>3. CASE i # 1 /\ i = p
      <4>1. r[i] = q[p - 1] /\ (i # Len(r) => r[i + 1] = q[p + 1])
        BY <3>3, <1>r
      <4> QED
        BY <4>1, <2>1, <2>2, <2>n, <1>n, <1>r, <3>3
    <3>4. CASE p < i
      <4>1. r[i] = q[i] /\ (i # Len(r) => r[i + 1] = q[i + 1]) /\ i \in 1..Len(q)
        BY <3>4, <1>r
      <4>2. q[i] # q[p] /\ q[i] # q[p - 1]
        BY <4>1, <3>4, <1>d, <1>r, <1>2
      <4>4. h.next[q[i]] = IF i = Len(q) THEN Null ELSE q[i + 1]
        BY <4>1 DEF Lists, Links
      <4> QED
        BY <4>1, <4>2, <4>4, <2>2, <1>n, <1>r, <3>4
    <3> QED
      BY <3>1, <3>2, <3>3, <3>4
  <2>7. EndIn(g, r)
    <3>1. PICK i \in 1..Len(q) : h.last = q[i]
      BY DEF Lists, EndIn
    <3>2. \E j \in 1..Len(q) : r[j] = q[i]
      <4>1. CASE i = p
        BY <1>r, <4>1
      <4>2. CASE i < p
        BY <1>r, <4>2, r[i + 1] = q[i], i + 1 \in 1..Len(q)
      <4>3. CASE i > p
        BY <1>r, <4>3
      <4> QED
        BY <4>1, <4>2, <4>3
    <3> QED
      BY <3>1, <3>2, <2>2, <1>r DEF EndIn
  <2>8. EndAt(h, q) /\ (p # Len(q) \/ p = 1) => EndAt(g, r)
    BY <1>r, <1>2, <2>2 DEF EndAt
  <2>9. Lists(g, r)
    BY <1>r, <1>s, <1>q, <2>2, <2>3, <2>4, <2>5, <2>6, <2>7 DEF Lists, Links
  <2> QED
    BY <2>2, <2>8, <2>9 DEF g, r
<1> QED
  BY <1>1, <1>2

\* What a heap refers to: the nodes of its list.
LEMMA ReferredNodes ==
  ASSUME NEW h, NEW q, Lists(h, q)
  PROVE  /\ \A i \in 1..Len(q) : q[i] \in Referred(h)
         /\ \A x \in Referred(h) : x = Null \/ \E i \in 1..Len(q) : x = q[i]
<1> DEFINE held == {h.hash[k] : k \in DOMAIN h.hash} \cup ({h.begin, h.last} \ {Null})
<1>0. q \in Seq(Nodes) /\ Hashes(h, q) /\ Links(h, q) /\ EndIn(h, q)
  BY DEF Lists
<1>1. \A x \in held : \E i \in 1..Len(q) : x = q[i]
  <2>1. \A k \in DOMAIN h.hash : \E i \in 1..Len(q) : h.hash[k] = q[i]
    BY <1>0 DEF Hashes
  <2>2. h.begin # Null => \E i \in 1..Len(q) : h.begin = q[i]
    BY <1>0 DEF Links
  <2>3. h.last # Null => \E i \in 1..Len(q) : h.last = q[i]
    BY <1>0 DEF EndIn
  <2> QED
    BY <2>1, <2>2, <2>3
<1>2. \A i \in 1..Len(q) : q[i] \in held
  <2> TAKE i \in 1..Len(q)
  <2>1. h.key[q[i]] \in DOMAIN h.hash /\ h.hash[h.key[q[i]]] = q[i]
    BY <1>0 DEF Hashes
  <2> QED
    BY <2>1
<1> HIDE DEF held
<1>3. Referred(h) = held \cup {h.prev[n] : n \in held} \cup {h.next[n] : n \in held}
  BY DEF Referred, held
<1>4. \A n \in held : /\ h.prev[n] = Null \/ \E i \in 1..Len(q) : h.prev[n] = q[i]
                      /\ h.next[n] = Null \/ \E i \in 1..Len(q) : h.next[n] = q[i]
  <2> TAKE n \in held
  <2>1. PICK i \in 1..Len(q) : n = q[i]
    BY <1>1
  <2>2. /\ h.prev[n] = IF i = 1 THEN Null ELSE q[i - 1]
        /\ h.next[n] = IF i = Len(q) THEN Null ELSE q[i + 1]
    BY <1>0, <2>1 DEF Links
  <2>3. Len(q) \in Nat
    BY <1>0
  <2>4. (i # 1 => i - 1 \in 1..Len(q)) /\ (i # Len(q) => i + 1 \in 1..Len(q))
    BY <2>3
  <2> QED
    BY <2>2, <2>4
<1> QED
  BY <1>1, <1>2, <1>3, <1>4

\* Nodes that nothing refers to are collected.
LEMMA CollectedLists ==
  ASSUME NEW h, NEW q, Lists(h, q)
  PROVE  LET g == Collected(h)
         IN /\ Lists(g, q)
            /\ g.hash = h.hash /\ g.last = h.last
            /\ \A i \in 1..Len(q) : g.key[q[i]] = h.key[q[i]] /\ g.data[q[i]] = h.data[q[i]]
<1> DEFINE g == Collected(h)
           ky == [n \in Nodes |-> IF n \in Referred(h) THEN h.key[n] ELSE Null]
           dt == [n \in Nodes |-> IF n \in Referred(h) THEN h.data[n] ELSE Null]
           pv == [n \in Nodes |-> IF n \in Referred(h) THEN h.prev[n] ELSE Null]
           nx == [n \in Nodes |-> IF n \in Referred(h) THEN h.next[n] ELSE Null]
<1>0. Shape(h) /\ ~h.died /\ \A i \in 1..Len(q) : q[i] \in Nodes
  BY DEF Lists
<1>1. g = [h EXCEPT !.key = ky, !.data = dt, !.prev = pv, !.next = nx]
  BY DEF Collected
<1>2. /\ ky \in [Nodes -> Keys \cup {Null}] /\ dt = [n \in Nodes |-> dt[n]]
      /\ pv \in [Nodes -> Nodes \cup {Null}] /\ nx \in [Nodes -> Nodes \cup {Null}]
  BY <1>0 DEF Shape
<1>3. \A i \in 1..Len(q) : /\ ky[q[i]] = h.key[q[i]] /\ dt[q[i]] = h.data[q[i]]
                           /\ pv[q[i]] = h.prev[q[i]] /\ nx[q[i]] = h.next[q[i]]
  BY <1>0, ReferredNodes
<1> HIDE DEF ky, dt, pv, nx
<1>4. g = [hash |-> h.hash, begin |-> h.begin, last |-> h.last, died |-> h.died,
           key |-> ky, data |-> dt, prev |-> pv, next |-> nx]
  BY <1>0, <1>1 DEF Shape
<1> HIDE DEF g
<1>5. /\ g.hash = h.hash /\ g.begin = h.begin /\ g.last = h.last /\ g.died = h.died
      /\ g.key = ky /\ g.data = dt /\ g.prev = pv /\ g.next = nx
  BY <1>4
<1>6. Shape(g)
  BY <1>0, <1>2, <1>4, <1>5 DEF Shape
<1>7. Lists(g, q)
  BY <1>0, <1>3, <1>5, <1>6, SameList
<1> QED
  BY <1>3, <1>5, <1>7 DEF g

\* Non-empty sets of numbers have a least element.
LEMMA Least ==
  ASSUME NEW S \in SUBSET Nat, S # {}
  PROVE  LET x == CHOOSE n \in S : \A m \in S : n <= m IN x \in S /\ \A m \in S : x <= m
<1> DEFINE R == {ss \in Nat \X Nat : ss[1] < ss[2]}
<1>1. IsWellFoundedOn(R, Nat)
  BY NatLessThanWellFounded DEF OpToRel
<1>2. PICK x \in S : \A y \in S : ~(<<y, x>> \in R)
  BY <1>1, WFMin
<1>3. \A y \in S : ~(y < x)
  BY <1>2
<1>4. \A y \in S : x <= y
  BY <1>3
<1> QED
  BY <1>4

\* There is a node for another key.
LEMMA NewNodeIsNew ==
  ASSUME NEW h, NEW q, Lists(h, q)
  PROVE  NewNode(h) \in Nodes /\ \A i \in 1..Len(q) : q[i] # NewNode(h)
<1> DEFINE D == DOMAIN h.hash
<1>0. Hashes(h, q) /\ q \in Seq(Nodes) /\ h.hash = [k \in D |-> h.hash[k]]
  BY DEF Lists, Shape
<1>1. IsFiniteSet(D) /\ Cardinality(D) <= Cardinality(Keys)
  BY <1>0, FS_Subset, CacheAssumption DEF Hashes
<1>2. ASSUME Nodes \ Referred(h) = {} PROVE FALSE
  <2>1. \A n \in Nodes : \E k \in D : h.hash[k] = n
    <3> TAKE n \in Nodes
    <3>1. PICK i \in 1..Len(q) : n = q[i]
      BY <1>2, ReferredNodes, CacheAssumption
    <3> QED
      BY <3>1, <1>0 DEF Hashes
  <2>2. h.hash \in [D -> Nodes]
    <3>1. \A k \in D : h.hash[k] \in Nodes
      BY <1>0 DEF Hashes
    <3> QED
      BY <3>1, <1>0
  <2>3. h.hash \in Surjection(D, Nodes)
    BY <2>1, <2>2 DEF Surjection
  <2>4. Cardinality(Nodes) <= Cardinality(D)
    BY <2>3, <1>1, FS_Surjection
  <2>5. Cardinality(Nodes) \in Nat /\ Cardinality(Keys) \in Nat /\ Cardinality(D) \in Nat
    BY <1>1, FS_CardinalityType, CacheAssumption
  <2> QED
    BY <1>1, <2>4, <2>5, CacheAssumption
<1>3. NewNode(h) \in Nodes \ Referred(h)
  BY <1>2, Least, CacheAssumption DEF NewNode
<1> QED
  BY <1>3, ReferredNodes

\* A new first node.
LEMMA AddedLists ==
  ASSUME NEW h, NEW q, Lists(h, q), NEW k \in Keys, k \notin DOMAIN h.hash, NEW d
  PROVE  LET g == Added(h, k, d)
             r == Prepended(q, NewNode(h))
         IN /\ Lists(g, r)
            /\ DOMAIN g.hash = DOMAIN h.hash \cup {k}
            /\ g.key[NewNode(h)] = k /\ g.data[NewNode(h)] = d /\ g.hash[k] = NewNode(h)
            /\ \A j \in DOMAIN h.hash : g.hash[j] = h.hash[j]
            /\ \A i \in 1..Len(q) : g.key[q[i]] = h.key[q[i]] /\ g.data[q[i]] = h.data[q[i]]
            /\ (EndAt(h, q) => EndAt(g, r))
<1> DEFINE n  == NewNode(h)
           g  == Added(h, k, d)
           r  == Prepended(q, n)
           hs == [j \in DOMAIN h.hash \cup {k} |-> IF j = k THEN n ELSE h.hash[j]]
           ky == [h.key EXCEPT ![n] = k]
           dt == [h.data EXCEPT ![n] = d]
           nx == [h.next EXCEPT ![n] = h.begin]
           pv == [m \in Nodes |-> IF m = n THEN Null ELSE IF m = h.begin THEN n ELSE h.prev[m]]
           ls == IF h.begin = Null THEN n ELSE h.last
<1>0. /\ Shape(h) /\ ~h.died /\ q \in Seq(Nodes) /\ Distinct(q)
      /\ Hashes(h, q) /\ Links(h, q) /\ EndIn(h, q)
  BY DEF Lists
<1>n. n \in Nodes /\ n # Null /\ \A i \in 1..Len(q) : q[i] # n
  BY NewNodeIsNew, CacheAssumption
<1>1. g = [h EXCEPT !.hash = hs, !.key = ky, !.data = dt, !.next = nx, !.prev = pv,
                    !.begin = n, !.last = ls]
  <2>1. Added(h, k, d) =
        [h EXCEPT
        !.hash = [j \in DOMAIN @ \cup {k} |-> IF j = k THEN n ELSE @[j]],
        !.key[n] = k, !.data[n] = d,
        !.next[n] = h.begin,
        !.prev = [m \in Nodes |-> IF m = n THEN Null ELSE IF m = h.begin THEN n ELSE @[m]],
        !.begin = n,
        !.last = IF h.begin = Null THEN n ELSE @]
    BY DEF Added
  <2> QED
    BY <2>1, <1>0 DEF Shape
<1>b. h.begin \in Nodes \cup {Null}
  BY <1>0 DEF Links
<1>2. /\ ky \in [Nodes -> Keys \cup {Null}] /\ dt = [m \in Nodes |-> dt[m]]
      /\ pv \in [Nodes -> Nodes \cup {Null}] /\ nx \in [Nodes -> Nodes \cup {Null}]
  BY <1>0, <1>n, <1>b DEF Shape
<1>3. /\ DOMAIN hs = DOMAIN h.hash \cup {k} /\ hs[k] = n
      /\ \A j \in DOMAIN h.hash : hs[j] = h.hash[j]
      /\ hs = [j \in DOMAIN hs |-> hs[j]]
  OBVIOUS
<1>4. /\ ky[n] = k /\ dt[n] = d /\ nx[n] = h.begin /\ pv[n] = Null
      /\ \A m \in Nodes \ {n} : ky[m] = h.key[m] /\ dt[m] = h.data[m] /\ nx[m] = h.next[m]
      /\ \A m \in Nodes \ {n} : pv[m] = IF m = h.begin THEN n ELSE h.prev[m]
  BY <1>0, <1>n DEF Shape
<1>5. ls = IF Len(q) = 0 THEN n ELSE h.last
  BY <1>0, <1>n, CacheAssumption DEF Links
<1> HIDE DEF n, hs, ky, dt, nx, pv, ls
<1>6. g = [hash |-> hs, begin |-> n, last |-> ls, died |-> h.died,
           key |-> ky, data |-> dt, prev |-> pv, next |-> nx]
  BY <1>0, <1>1 DEF Shape
<1> HIDE DEF g
<1>7. /\ g.hash = hs /\ g.begin = n /\ g.last = ls /\ g.died = h.died
      /\ g.key = ky /\ g.data = dt /\ g.prev = pv /\ g.next = nx
  BY <1>6
<1>8. Shape(g)
  BY <1>2, <1>3, <1>6, <1>7 DEF Shape
<1>q. \A i \in 1..Len(q) : q[i] \in Nodes \ {n}
  BY <1>0, <1>n
<1>s. r \in Seq(Nodes) /\ Distinct(r)
  BY <1>0, <1>n, PrependedFacts
<1>r. /\ Len(r) = Len(q) + 1 /\ Len(q) \in Nat
      /\ \A i \in 1..(Len(q) + 1) : r[i] = IF i = 1 THEN n ELSE q[i - 1]
  BY <1>0, <1>n, PrependedFacts
<1> HIDE DEF r
<1>9. Hashes(g, r)
  <2>1. DOMAIN g.hash \subseteq Keys
    BY <1>0, <1>3, <1>7 DEF Hashes
  <2>2. \A j \in DOMAIN g.hash : (\E i \in 1..Len(r) : g.hash[j] = r[i]) /\ g.key[g.hash[j]] = j
    <3> TAKE j \in DOMAIN g.hash
    <3>1. CASE j = k
      <4>1. 1 \in 1..Len(r) /\ g.hash[j] = r[1]
        BY <3>1, <1>3, <1>7, <1>r
      <4> QED
        BY <4>1, <3>1, <1>3, <1>4, <1>7
    <3>2. CASE j # k
      <4>1. j \in DOMAIN h.hash /\ g.hash[j] = h.hash[j]
        BY <3>2, <1>3, <1>7
      <4>2. PICK i \in 1..Len(q) : h.hash[j] = q[i]
        BY <4>1, <1>0 DEF Hashes
      <4>3. i + 1 \in 1..Len(r) /\ r[i + 1] = q[i]
        BY <1>r
      <4>4. h.key[q[i]] = j
        BY <4>1, <4>2, <1>0 DEF Hashes
      <4>5. g.key[q[i]] = j
        BY <4>4, <1>4, <1>7, <1>q
      <4> QED
        BY <4>1, <4>2, <4>3, <4>5
    <3> QED
      BY <3>1, <3>2
  <2>3. \A i \in 1..Len(r) : g.key[r[i]] \in DOMAIN g.hash /\ g.hash[g.key[r[i]]] = r[i]
    <3> TAKE i \in 1..Len(r)
    <3>1. CASE i = 1
      BY <3>1, <1>3, <1>4, <1>7, <1>r
    <3>2. CASE i # 1
      <4>1. i - 1 \in 1..Len(q) /\ r[i] = q[i - 1]
        BY <3>2, <1>r
      <4>2. h.key[q[i - 1]] \in DOMAIN h.hash /\ h.hash[h.key[q[i - 1]]] = q[i - 1]
        BY <4>1, <1>0 DEF Hashes
      <4>3. g.key[q[i - 1]] = h.key[q[i - 1]]
        BY <4>1, <1>4, <1>7, <1>q
      <4> QED
        BY <4>1, <4>2, <4>3, <1>3, <1>7
    <3> QED
      BY <3>1, <3>2
  <2> QED
    BY <2>1, <2>2, <2>3 DEF Hashes
<1>10. Links(g, r)
  <2>0. h.begin = IF Len(q) = 0 THEN Null ELSE q[1]
    BY <1>0 DEF Links
  <2>1. \A i \in 1..Len(r) : g.prev[r[i]] = IF i = 1 THEN Null ELSE r[i - 1]
    <3> TAKE i \in 1..Len(r)
    <3>1. CASE i = 1
      BY <3>1, <1>4, <1>7, <1>r
    <3>2. CASE i = 2
      <4>1. 1 \in 1..Len(q) /\ r[2] = q[1] /\ r[1] = n /\ h.begin = q[1]
        BY <3>2, <1>r, <2>0
      <4> QED
        BY <3>2, <4>1, <1>4, <1>7, <1>q
    <3>3. CASE i > 2
      <4>1. i - 1 \in 1..Len(q) /\ r[i] = q[i - 1] /\ r[i - 1] = q[i - 2] /\ 1 \in 1..Len(q)
        BY <3>3, <1>r
      <4>2. h.begin = q[1] /\ q[i - 1] # q[1]
        BY <3>3, <4>1, <2>0, <1>0 DEF Distinct
      <4>3. h.prev[q[i - 1]] = q[i - 2]
        <5>1. h.prev[q[i - 1]] = IF i - 1 = 1 THEN Null ELSE q[(i - 1) - 1]
          BY <4>1, <1>0 DEF Links
        <5>2. i - 1 # 1 /\ (i - 1) - 1 = i - 2
          BY <3>3
        <5> QED
          BY <5>1, <5>2
      <4> QED
        BY <3>3, <4>1, <4>2, <4>3, <1>4, <1>7, <1>q
    <3> QED
      BY <3>1, <3>2, <3>3, <1>r
  <2>2. \A i \in 1..Len(r) : g.next[r[i]] = IF i = Len(r) THEN Null ELSE r[i + 1]
    <3> TAKE i \in 1..Len(r)
    <3>1. CASE i = 1
      BY <3>1, <2>0, <1>4, <1>7, <1>r
    <3>2. CASE i # 1
      <4>1. i - 1 \in 1..Len(q) /\ r[i] = q[i - 1] /\ (i # Len(r) => r[i + 1] = q[i])
        BY <3>2, <1>r
      <4>2. h.next[q[i - 1]] = IF i - 1 = Len(q) THEN Null ELSE q[i]
        BY <3>2, <4>1, <1>0, <1>r DEF Links
      <4>3. g.next[q[i - 1]] = h.next[q[i - 1]]
        BY <4>1, <1>4, <1>7, <1>q
      <4> QED
        BY <3>2, <4>1, <4>2, <4>3, <1>r
    <3> QED
      BY <3>1, <3>2
  <2> QED
    BY <2>1, <2>2, <1>7, <1>r DEF Links
<1>11. EndIn(g, r)
  <2>1. CASE Len(q) = 0
    BY <2>1, <1>5, <1>7, <1>r DEF EndIn
  <2>2. CASE Len(q) # 0
    <3>1. PICK i \in 1..Len(q) : h.last = q[i]
      BY <2>2, <1>0 DEF EndIn
    <3>2. i + 1 \in 1..Len(r) /\ r[i + 1] = q[i]
      BY <1>r
    <3> QED
      BY <2>2, <3>1, <3>2, <1>5, <1>7, <1>r DEF EndIn
  <2> QED
    BY <2>1, <2>2
<1>12. EndAt(h, q) => EndAt(g, r)
  BY <1>5, <1>7, <1>r DEF EndAt
<1>13. Lists(g, r)
  BY <1>0, <1>7, <1>8, <1>s, <1>9, <1>10, <1>11 DEF Lists
<1>14. \A i \in 1..Len(q) : g.key[q[i]] = h.key[q[i]] /\ g.data[q[i]] = h.data[q[i]]
  BY <1>4, <1>7, <1>q
<1> QED
  BY <1>3, <1>4, <1>7, <1>12, <1>13, <1>14 DEF g, r, n

\* A node taken out, where m_end is the last.
LEMMA EvictedLists ==
  ASSUME NEW h, NEW q, Lists(h, q), EndAt(h, q), NEW p \in 1..Len(q)
  PROVE  LET g == Evicted(h, h.key[q[p]])
             r == Dropped(q, p)
         IN /\ Lists(g, r) /\ EndAt(g, r)
            /\ DOMAIN g.hash = DOMAIN h.hash \ {h.key[q[p]]}
            /\ \A j \in DOMAIN g.hash : g.hash[j] = h.hash[j]
            /\ g.key = h.key /\ g.data = h.data
<1> DEFINE n  == q[p]
           k  == h.key[n]
           g  == Evicted(h, k)
           r  == Dropped(q, p)
           hs == [j \in DOMAIN h.hash \ {k} |-> h.hash[j]]
           bg == IF p = 1 THEN h.next[n] ELSE h.begin
           ls == IF p = Len(q) THEN h.prev[n] ELSE h.last
           nx == IF p = 1 THEN h.next ELSE [h.next EXCEPT ![h.prev[n]] = h.next[n]]
           pv == IF p = Len(q) THEN h.prev ELSE [h.prev EXCEPT ![h.next[n]] = h.prev[n]]
<1>0. /\ Shape(h) /\ ~h.died /\ q \in Seq(Nodes) /\ Distinct(q)
      /\ Hashes(h, q) /\ Links(h, q)
  BY DEF Lists
<1>l. Len(q) \in Nat /\ p \in 1..Len(q) /\ Len(q) # 0
  BY <1>0
<1>q. \A i \in 1..Len(q) : q[i] \in Nodes /\ q[i] # Null
  BY <1>0, CacheAssumption
<1>d. \A i, j \in 1..Len(q) : q[i] = q[j] => i = j
  BY <1>0 DEF Distinct
<1>k. k \in DOMAIN h.hash /\ h.hash[k] = n
  BY <1>0 DEF Hashes
<1>e. (h.begin = n <=> p = 1) /\ (h.last = n <=> p = Len(q))
  <2>1. h.begin = q[1] /\ h.last = q[Len(q)]
    BY <1>0, <1>l DEF Links, EndAt
  <2> QED
    BY <2>1, <1>d, <1>l
<1>p. h.prev[n] = IF p = 1 THEN Null ELSE q[p - 1]
  BY <1>0 DEF Links
<1>x. h.next[n] = IF p = Len(q) THEN Null ELSE q[p + 1]
  BY <1>0 DEF Links
<1>y. (p # 1 => p - 1 \in 1..Len(q)) /\ (p # Len(q) => p + 1 \in 1..Len(q))
  BY <1>l
<1>z. (p # 1 => h.prev[n] # Null) /\ (p # Len(q) => h.next[n] # Null)
  BY <1>p, <1>x, <1>y, <1>q
<1>1. g = [h EXCEPT !.hash = hs, !.begin = bg, !.last = ls, !.next = nx, !.prev = pv]
  <2>1. Exists(h, k)
    BY <1>k DEF Exists
  <2>2. ~((~(h.begin = n) /\ h.prev[n] = Null) \/ (~(h.last = n) /\ h.next[n] = Null))
    BY <1>e, <1>z
  <2>3. g = [h EXCEPT
             !.hash  = [j \in DOMAIN @ \ {k} |-> @[j]],
             !.begin = IF h.begin = n THEN h.next[n] ELSE @,
             !.last  = IF h.last = n THEN h.prev[n] ELSE @,
             !.next  = IF h.begin = n THEN @ ELSE [@ EXCEPT ![h.prev[n]] = h.next[n]],
             !.prev  = IF h.last = n THEN @ ELSE [@ EXCEPT ![h.next[n]] = h.prev[n]]]
    <3> HIDE DEF n
    <3> QED
      BY <2>1, <2>2, <1>k DEF Evicted
  <2> QED
    BY <2>3, <1>e, <1>0 DEF Shape
<1>2. /\ pv \in [Nodes -> Nodes \cup {Null}] /\ nx \in [Nodes -> Nodes \cup {Null}]
  <2>1. h.prev[n] \in Nodes \cup {Null} /\ h.next[n] \in Nodes \cup {Null}
    BY <1>0, <1>q DEF Shape
  <2> HIDE DEF n
  <2> QED
    BY <1>0, <2>1 DEF Shape
<1>3. DOMAIN hs = DOMAIN h.hash \ {k} /\ (\A j \in DOMAIN hs : hs[j] = h.hash[j])
      /\ hs = [j \in DOMAIN hs |-> hs[j]]
  OBVIOUS
<1>4. \A i \in 1..Len(q) : nx[q[i]] = IF i = p - 1 THEN h.next[n] ELSE h.next[q[i]]
  <2>1. CASE p = 1
    BY <2>1
  <2>2. CASE p # 1
    <3>1. h.prev[n] = q[p - 1] /\ p - 1 \in 1..Len(q)
      BY <2>2, <1>p, <1>y
    <3> HIDE DEF n
    <3>2. h.next \in [Nodes -> Nodes \cup {Null}]
      BY <1>0 DEF Shape
    <3>3. \A m \in Nodes : nx[m] = IF m = q[p - 1] THEN h.next[n] ELSE h.next[m]
      BY <2>2, <3>1, <3>2
    <3> HIDE DEF nx
    <3> QED
      BY <3>1, <3>3, <1>d, <1>q
  <2> QED
    BY <2>1, <2>2
<1>5. \A i \in 1..Len(q) : pv[q[i]] = IF i = p + 1 THEN h.prev[n] ELSE h.prev[q[i]]
  <2>1. CASE p = Len(q)
    BY <2>1, <1>l
  <2>2. CASE p # Len(q)
    <3>1. h.next[n] = q[p + 1] /\ p + 1 \in 1..Len(q)
      BY <2>2, <1>x, <1>y
    <3> HIDE DEF n
    <3>2. h.prev \in [Nodes -> Nodes \cup {Null}]
      BY <1>0 DEF Shape
    <3>3. \A m \in Nodes : pv[m] = IF m = q[p + 1] THEN h.prev[n] ELSE h.prev[m]
      BY <2>2, <3>1, <3>2
    <3> HIDE DEF pv
    <3> QED
      BY <3>1, <3>3, <1>d, <1>q
  <2> QED
    BY <2>1, <2>2
<1> HIDE DEF hs, bg, ls, nx, pv
<1>6. g = [hash |-> hs, begin |-> bg, last |-> ls, died |-> h.died,
           key |-> h.key, data |-> h.data, prev |-> pv, next |-> nx]
  BY <1>0, <1>1 DEF Shape
<1> HIDE DEF g
<1>7. /\ g.hash = hs /\ g.begin = bg /\ g.last = ls /\ g.died = h.died
      /\ g.key = h.key /\ g.data = h.data /\ g.prev = pv /\ g.next = nx
  BY <1>6
<1>8. Shape(g)
  BY <1>0, <1>2, <1>3, <1>6, <1>7 DEF Shape
<1>s. r \in Seq(Nodes) /\ Distinct(r)
  BY <1>0, DroppedFacts
<1>r. /\ Len(r) = Len(q) - 1
      /\ \A i \in 1..(Len(q) - 1) : r[i] = IF i < p THEN q[i] ELSE q[i + 1]
  BY <1>0, DroppedFacts
<1> HIDE DEF r
<1>9. Hashes(g, r)
  <2>1. DOMAIN g.hash \subseteq Keys
    BY <1>0, <1>3, <1>7 DEF Hashes
  <2>2. \A j \in DOMAIN g.hash : (\E i \in 1..Len(r) : g.hash[j] = r[i]) /\ g.key[g.hash[j]] = j
    <3> TAKE j \in DOMAIN g.hash
    <3>1. j \in DOMAIN h.hash /\ g.hash[j] = h.hash[j] /\ j # k
      BY <1>3, <1>7
    <3>2. PICK i \in 1..Len(q) : h.hash[j] = q[i]
      BY <3>1, <1>0 DEF Hashes
    <3>3. h.key[h.hash[j]] = j
      BY <3>1, <1>0 DEF Hashes
    <3>4. i # p
      BY <3>1, <3>2, <3>3
    <3>5. CASE i < p
      <4>1. i \in 1..Len(r) /\ r[i] = q[i]
        BY <3>5, <1>l, <1>r
      <4> QED
        BY <4>1, <3>1, <3>2, <3>3, <1>7
    <3>6. CASE i > p
      <4>1. i - 1 \in 1..Len(r) /\ r[i - 1] = q[i]
        BY <3>6, <1>l, <1>r
      <4> QED
        BY <4>1, <3>1, <3>2, <3>3, <1>7
    <3> QED
      BY <3>4, <3>5, <3>6
  <2>3. \A i \in 1..Len(r) : g.key[r[i]] \in DOMAIN g.hash /\ g.hash[g.key[r[i]]] = r[i]
    <3> TAKE i \in 1..Len(r)
    <3>1. PICK j \in 1..Len(q) : r[i] = q[j] /\ j # p
      <4>1. CASE i < p
        BY <4>1, <1>r, <1>l
      <4>2. CASE ~(i < p)
        BY <4>2, <1>r, <1>l
      <4> QED
        BY <4>1, <4>2
    <3>2. h.key[q[j]] \in DOMAIN h.hash /\ h.hash[h.key[q[j]]] = q[j]
      BY <1>0 DEF Hashes
    <3>3. h.key[q[j]] # k
      BY <3>1, <3>2, <1>k, <1>d
    <3> QED
      BY <3>1, <3>2, <3>3, <1>3, <1>7
  <2> QED
    BY <2>1, <2>2, <2>3 DEF Hashes
<1>10. Links(g, r)
  <2>1. g.begin = IF Len(r) = 0 THEN Null ELSE r[1]
    <3>1. CASE p = 1
      BY <3>1, <1>7, <1>x, <1>r, <1>l DEF bg
    <3>2. CASE p # 1
      <4>1. Len(r) # 0 /\ r[1] = q[1] /\ h.begin = q[1]
        BY <3>2, <1>r, <1>l, <1>0 DEF Links
      <4> QED
        BY <3>2, <4>1, <1>7 DEF bg
    <3> QED
      BY <3>1, <3>2
  <2>2. \A i \in 1..Len(r) : g.prev[r[i]] = IF i = 1 THEN Null ELSE r[i - 1]
    <3> TAKE i \in 1..Len(r)
    <3>1. CASE i < p
      <4>1. r[i] = q[i] /\ i \in 1..Len(q) /\ i # p + 1 /\ (i # 1 => r[i - 1] = q[i - 1])
        BY <3>1, <1>r, <1>l
      <4>2. h.prev[q[i]] = IF i = 1 THEN Null ELSE q[i - 1]
        BY <4>1, <1>0 DEF Links
      <4> QED
        BY <4>1, <4>2, <1>5, <1>7
    <3>2. CASE i = p
      <4>1. r[i] = q[p + 1] /\ p + 1 \in 1..Len(q) /\ (i # 1 => r[i - 1] = q[p - 1])
        BY <3>2, <1>r, <1>l
      <4> QED
        BY <3>2, <4>1, <1>p, <1>5, <1>7
    <3>3. CASE i > p
      <4>1. r[i] = q[i + 1] /\ i + 1 \in 1..Len(q) /\ i + 1 # p + 1 /\ i # 1 /\ r[i - 1] = q[i]
        <5>1. i + 1 \in 1..Len(q) /\ i + 1 # p + 1 /\ i # 1 /\ i - 1 \in 1..Len(r)
          BY <3>3, <1>r, <1>l
        <5>2. r[i] = q[i + 1]
          BY <3>3, <1>r, <1>l
        <5>3. r[i - 1] = q[i]
          BY <3>3, <5>1, <1>r, <1>l
        <5> QED
          BY <5>1, <5>2, <5>3
      <4>2. h.prev[q[i + 1]] = q[i]
        <5>1. h.prev[q[i + 1]] = IF i + 1 = 1 THEN Null ELSE q[(i + 1) - 1]
          BY <4>1, <1>0 DEF Links
        <5>2. i + 1 # 1 /\ (i + 1) - 1 = i
          BY <3>3, <1>l
        <5> QED
          BY <5>1, <5>2
      <4> QED
        BY <4>1, <4>2, <1>5, <1>7
    <3> QED
      BY <3>1, <3>2, <3>3, <1>l, <1>r
  <2>3. \A i \in 1..Len(r) : g.next[r[i]] = IF i = Len(r) THEN Null ELSE r[i + 1]
    <3> TAKE i \in 1..Len(r)
    <3>1. CASE i < p - 1
      <4>1. /\ r[i] = q[i] /\ i \in 1..Len(q) /\ i # p - 1 /\ i # Len(q) /\ i # Len(r)
            /\ r[i + 1] = q[i + 1]
        BY <3>1, <1>r, <1>l
      <4>2. h.next[q[i]] = q[i + 1]
        BY <4>1, <1>0 DEF Links
      <4> QED
        BY <4>1, <4>2, <1>4, <1>7
    <3>2. CASE i = p - 1
      <4>1. /\ r[i] = q[i] /\ i \in 1..Len(q) /\ (i = Len(r) <=> p = Len(q))
            /\ (i # Len(r) => r[i + 1] = q[p + 1])
        BY <3>2, <1>r, <1>l
      <4> QED
        BY <3>2, <4>1, <1>x, <1>4, <1>7
    <3>3. CASE i > p - 1
      <4>1. /\ r[i] = q[i + 1] /\ i + 1 \in 1..Len(q) /\ i + 1 # p - 1
            /\ (i = Len(r) <=> i + 1 = Len(q)) /\ (i # Len(r) => r[i + 1] = q[i + 2])
        <5>1. i + 1 \in 1..Len(q) /\ i + 1 # p - 1 /\ (i = Len(r) <=> i + 1 = Len(q))
          BY <3>3, <1>r, <1>l
        <5>2. r[i] = q[i + 1]
          BY <3>3, <1>r, <1>l
        <5>3. ASSUME i # Len(r) PROVE r[i + 1] = q[i + 2]
          <6>1. i + 1 \in 1..Len(r) /\ ~(i + 1 < p) /\ (i + 1) + 1 = i + 2
            BY <3>3, <5>3, <1>r, <1>l
          <6>2. r[i + 1] = q[(i + 1) + 1]
            BY <6>1, <1>r
          <6> QED
            BY <6>1, <6>2
        <5> QED
          BY <5>1, <5>2, <5>3
      <4>2. h.next[q[i + 1]] = IF i + 1 = Len(q) THEN Null ELSE q[(i + 1) + 1]
        BY <4>1, <1>0 DEF Links
      <4>3. (i + 1) + 1 = i + 2
        BY <1>l, <1>r
      <4> QED
        BY <4>1, <4>2, <4>3, <1>4, <1>7
    <3> QED
      BY <3>1, <3>2, <3>3, <1>l, <1>r
  <2> QED
    BY <2>1, <2>2, <2>3 DEF Links
<1>11. EndAt(g, r)
  <2>1. CASE p = Len(q)
    <3>1. Len(r) # 0 => p # 1 /\ r[Len(r)] = q[p - 1]
      BY <2>1, <1>r, <1>l
    <3>2. Len(r) = 0 => p = 1
      <4>1. Len(r) = Len(q) - 1 /\ Len(q) \in Nat
        BY <1>r, <1>l
      <4> QED
        BY <4>1, <2>1
    <3> QED
      BY <2>1, <3>1, <3>2, <1>7, <1>p DEF EndAt, ls
  <2>2. CASE p # Len(q)
    <3>1. Len(r) # 0 /\ r[Len(r)] = q[Len(q)]
      BY <2>2, <1>r, <1>l
    <3> QED
      BY <2>2, <3>1, <1>7, <1>l DEF EndAt, ls
  <2> QED
    BY <2>1, <2>2
<1>12. EndIn(g, r)
  <2>1. Len(r) # 0 => Len(r) \in 1..Len(r)
    BY <1>r, <1>l
  <2> QED
    BY <1>11, <2>1 DEF EndIn, EndAt
<1>13. Lists(g, r)
  BY <1>0, <1>7, <1>8, <1>s, <1>9, <1>10, <1>12 DEF Lists
<1> QED
  BY <1>3, <1>7, <1>11, <1>13 DEF g, r

-----------------------------------------------------------------------------
(* The list read from m_begin, and its length. *)

LessNat == {ss \in Nat \X Nat : ss[1] < ss[2]}

\* Induction on the natural numbers, for a set instead of a predicate.
LEMMA SetInduction ==
  ASSUME NEW T, 0 \in T, \A n \in Nat : n \in T => n + 1 \in T
  PROVE  Nat \subseteq T
<1> DEFINE M == Nat \ T
<1>1. IsWellFoundedOn(LessNat, Nat)
  BY NatLessThanWellFounded DEF OpToRel, LessNat
<1>2. \A x, y \in Nat : <<y, x>> \in LessNat <=> y < x
  BY DEF LessNat
<1> SUFFICES ASSUME M # {} PROVE FALSE
  OBVIOUS
<1>3. PICK x \in M : \A y \in M : ~(<<y, x>> \in LessNat)
  BY <1>1, WFMin
<1>4. x # 0
  BY <1>3
<1>5. x - 1 \in Nat /\ x - 1 < x
  BY <1>3, <1>4
<1>6. x - 1 \in T
  BY <1>2, <1>3, <1>5
<1> QED
  BY <1>3, <1>5, <1>6

LEMMA SizeIs ==
  ASSUME NEW h, NEW q, Lists(h, q)
  PROVE  Size(h) = Len(q) /\ Len(q) \in Nat /\ Len(q) < Cardinality(Nodes)
<1> DEFINE f == [i \in 1..Len(q) |-> h.key[q[i]]]
           D == DOMAIN h.hash
<1>0. Hashes(h, q) /\ q \in Seq(Nodes) /\ Distinct(q)
  BY DEF Lists
<1>1. Len(q) \in Nat
  BY <1>0
<1>2. \A i \in 1..Len(q) : h.key[q[i]] \in D
  BY <1>0 DEF Hashes
<1>3. \A i, j \in 1..Len(q) : h.key[q[i]] = h.key[q[j]] => i = j
  <2> SUFFICES ASSUME NEW i \in 1..Len(q), NEW j \in 1..Len(q), h.key[q[i]] = h.key[q[j]]
               PROVE  i = j
    OBVIOUS
  <2>1. h.hash[h.key[q[i]]] = q[i] /\ h.hash[h.key[q[j]]] = q[j]
    BY <1>0 DEF Hashes
  <2>2. q[i] = q[j]
    BY <2>1
  <2> QED
    BY <2>2, <1>0 DEF Distinct
<1>4. \A k \in D : \E i \in 1..Len(q) : h.key[q[i]] = k
  BY <1>0, SMTT(30) DEF Hashes
<1>5. f \in Bijection(1..Len(q), D)
  BY <1>2, <1>3, <1>4 DEF Bijection, Injection, Surjection, IsInjective
<1>6. Cardinality(D) = Len(q)
  BY <1>1, <1>5, FS_CountingElements DEF ExistsBijection
<1>7. IsFiniteSet(D) /\ Cardinality(D) <= Cardinality(Keys)
  BY <1>0, FS_Subset, CacheAssumption DEF Hashes
<1>8. Cardinality(Keys) \in Nat /\ Cardinality(Nodes) \in Nat
  BY FS_CardinalityType, CacheAssumption
<1> QED
  BY <1>1, <1>6, <1>7, <1>8, CacheAssumption DEF Size

\* The keys of a list of nodes.
Names(h, q) == [i \in 1..Len(q) |-> h.key[q[i]]]

LEMMA ListedIs ==
  ASSUME NEW h, NEW q, Lists(h, q)
  PROVE  Listed(h) = Names(h, q)
<1> DEFINE N == Cardinality(Nodes)
           Follows(f) == f = [i \in 1..N |-> IF i = 1 THEN h.begin
                                ELSE IF f[i - 1] = Null THEN Null ELSE h.next[f[i - 1]]]
           e == [i \in 1..N |-> IF i <= Len(q) THEN q[i] ELSE Null]
           node == CHOOSE f : Follows(f)
<1>0. q \in Seq(Nodes) /\ Links(h, q)
  BY DEF Lists
<1>l. Len(q) \in Nat /\ N \in Nat /\ Len(q) < N
  BY SizeIs, FS_CardinalityType, CacheAssumption
<1>q. \A i \in 1..Len(q) : q[i] \in Nodes /\ q[i] # Null
  BY <1>0, CacheAssumption
<1> HIDE DEF N
<1>1. Follows(e)
  <2>1. ASSUME NEW i \in 1..N
        PROVE  e[i] = IF i = 1 THEN h.begin
                      ELSE IF e[i - 1] = Null THEN Null ELSE h.next[e[i - 1]]
    <3>1. CASE i = 1
      BY <3>1, <1>0, <1>l DEF Links
    <3>2. CASE i # 1 /\ i - 1 <= Len(q)
      <4>1. i - 1 \in 1..Len(q) /\ i - 1 \in 1..N /\ e[i - 1] = q[i - 1]
        BY <3>2, <1>l
      <4>2. h.next[q[i - 1]] = IF i - 1 = Len(q) THEN Null ELSE q[(i - 1) + 1]
        BY <4>1, <1>0 DEF Links
      <4>3. (i - 1) + 1 = i /\ (i - 1 = Len(q) <=> ~(i <= Len(q)))
        BY <3>2, <1>l
      <4> QED
        BY <3>2, <4>1, <4>2, <4>3, <1>q
    <3>3. CASE i # 1 /\ ~(i - 1 <= Len(q))
      <4>1. i - 1 \in 1..N /\ e[i - 1] = Null /\ e[i] = Null
        BY <3>3, <1>l
      <4> QED
        BY <3>3, <4>1
    <3> QED
      BY <3>1, <3>2, <3>3
  <2>2. e = [i \in 1..N |-> e[i]]
    OBVIOUS
  <2> HIDE DEF e
  <2> QED
    BY <2>1, <2>2
<1>2. Follows(node)
  <2> HIDE DEF Follows, e
  <2>1. \E f : Follows(f)
    BY <1>1
  <2> QED
    BY <2>1
<1>e. \A i \in 1..N : e[i] = IF i <= Len(q) THEN q[i] ELSE Null
  OBVIOUS
<1> HIDE DEF e
<1>3. ASSUME NEW f, Follows(f), NEW i \in 1..N
      PROVE  f[i] = IF i = 1 THEN h.begin
                    ELSE IF f[i - 1] = Null THEN Null ELSE h.next[f[i - 1]]
  BY <1>3
<1>4. \A i \in 1..N : node[i] = e[i]
  <2> DEFINE T == {n \in Nat : n + 1 \in 1..N => node[n + 1] = e[n + 1]}
  <2> HIDE DEF node, Follows
  <2>1. 0 \in T
    BY <1>1, <1>2, <1>3
  <2>2. ASSUME NEW n \in Nat, n \in T PROVE n + 1 \in T
    <3> SUFFICES ASSUME n + 2 \in 1..N PROVE node[n + 2] = e[n + 2]
      BY (n + 1) + 1 = n + 2
    <3>1. n + 1 \in 1..N /\ (n + 2) - 1 = n + 1 /\ n + 2 # 1
      BY <1>l
    <3>2. node[n + 1] = e[n + 1]
      BY <2>2, <3>1
    <3>3. node[n + 2] = IF node[n + 1] = Null THEN Null ELSE h.next[node[n + 1]]
      BY <1>2, <1>3, <3>1
    <3>4. e[n + 2] = IF e[n + 1] = Null THEN Null ELSE h.next[e[n + 1]]
      BY <1>1, <1>3, <3>1
    <3> QED
      BY <3>2, <3>3, <3>4
  <2>3. Nat \subseteq T
    <3> HIDE DEF T
    <3> QED
      BY <2>1, <2>2, SetInduction
  <2> TAKE i \in 1..N
  <2>4. i - 1 \in T /\ (i - 1) + 1 = i
    BY <2>3, <1>l
  <2> QED
    BY <2>4
<1>5. Listed(h) = [i \in 1..Cardinality({j \in 1..N : node[j] # Null}) |-> h.key[node[i]]]
  BY DEF Listed, N
<1> HIDE DEF node
<1>6. {j \in 1..N : node[j] # Null} = 1..Len(q)
  BY <1>4, <1>e, <1>q, <1>l
<1>7. Cardinality(1..Len(q)) = Len(q)
  <2>1. 1 \in Int /\ Len(q) \in Int
    BY <1>l
  <2>2. Cardinality(1..Len(q)) = IF 1 > Len(q) THEN 0 ELSE Len(q) - 1 + 1
    BY <2>1, FS_Interval
  <2> QED
    BY <2>2, <1>l
<1>8. \A i \in 1..Len(q) : node[i] = q[i]
  BY <1>4, <1>e, <1>l
<1> QED
  BY <1>5, <1>6, <1>7, <1>8 DEF Names

-----------------------------------------------------------------------------
(* Evicting again and again: evict_to_max and flush. *)

\* The loop of evict_to_max, unfolded.
LEMMA TrimmedUnfold ==
  ASSUME NEW h, NEW max, Size(h) \in Nat
  PROVE  \E after : /\ after[0] = h
                    /\ \A i \in 1..Size(h) : after[i] = EvictLast(after[i - 1], max)
                    /\ Trimmed(h, max) = IF max # 0 /\ max < Size(after[Size(h)])
                                          THEN Dies(after[Size(h)]) ELSE after[Size(h)]
<1> DEFINE Turns(x, m) == x = [i \in 0..m |-> IF i = 0 THEN h ELSE EvictLast(x[i - 1], max)]
           T == {m \in Nat : \E x : Turns(x, m)}
           after == CHOOSE x : Turns(x, Size(h))
<1>1. 0 \in T
  <2> DEFINE e == [i \in 0..0 |-> h]
  <2>1. Turns(e, 0)
    OBVIOUS
  <2> QED
    BY <2>1
<1>2. ASSUME NEW m \in Nat, m \in T PROVE m + 1 \in T
  <2>1. PICK e : Turns(e, m)
    BY <1>2
  <2> DEFINE g == [i \in 0..(m + 1) |-> IF i <= m THEN e[i] ELSE EvictLast(e[m], max)]
  <2>2. \A i \in 0..m : e[i] = IF i = 0 THEN h ELSE EvictLast(e[i - 1], max)
    BY <2>1
  <2>3. ASSUME NEW i \in 0..(m + 1)
        PROVE  g[i] = IF i = 0 THEN h ELSE EvictLast(g[i - 1], max)
    <3>1. CASE i = m + 1
      BY <3>1
    <3>2. CASE i \in 0..m
      BY <2>2, <3>2
    <3> QED
      BY <3>1, <3>2
  <2>4. Turns(g, m + 1)
    <3>1. g = [i \in 0..(m + 1) |-> g[i]]
      OBVIOUS
    <3> HIDE DEF g
    <3> QED
      BY <2>3, <3>1
  <2>5. \E x : Turns(x, m + 1)
    <3> HIDE DEF Turns, g
    <3> QED
      BY <2>4
  <2> HIDE DEF Turns
  <2> QED
    BY <2>5
<1>3. \E x : Turns(x, Size(h))
  <2>1. Nat \subseteq T
    <3> HIDE DEF T
    <3> QED
      BY <1>1, <1>2, SetInduction
  <2> QED
    BY <2>1
<1>4. Turns(after, Size(h))
  <2> HIDE DEF Turns
  <2> QED
    BY <1>3
<1>5. Trimmed(h, max) = IF max # 0 /\ max < Size(after[Size(h)])
                 THEN Dies(after[Size(h)]) ELSE after[Size(h)]
  BY DEF Trimmed
<1> HIDE DEF after, T
<1>6. 0 \in 0..Size(h) /\ \A i \in 1..Size(h) : i \in 0..Size(h) /\ i # 0
  OBVIOUS
<1>7. after[0] = h /\ \A i \in 1..Size(h) : after[i] = EvictLast(after[i - 1], max)
  BY <1>4, <1>6
<1> HIDE DEF Turns
<1> QED
  BY <1>5, <1>7

\* The loop of flush, unfolded.
LEMMA FlushedUnfold ==
  ASSUME NEW h, Size(h) \in Nat
  PROVE  \E after : /\ after[0] = h
                    /\ \A i \in 1..Size(h) : after[i] = EvictFirst(after[i - 1])
                    /\ Flushed(h) = after[Size(h)]
<1> DEFINE Turns(x, m) == x = [i \in 0..m |-> IF i = 0 THEN h ELSE EvictFirst(x[i - 1])]
           T == {m \in Nat : \E x : Turns(x, m)}
           after == CHOOSE x : Turns(x, Size(h))
<1>1. 0 \in T
  <2> DEFINE e == [i \in 0..0 |-> h]
  <2>1. Turns(e, 0)
    OBVIOUS
  <2> QED
    BY <2>1
<1>2. ASSUME NEW m \in Nat, m \in T PROVE m + 1 \in T
  <2>1. PICK e : Turns(e, m)
    BY <1>2
  <2> DEFINE g == [i \in 0..(m + 1) |-> IF i <= m THEN e[i] ELSE EvictFirst(e[m])]
  <2>2. \A i \in 0..m : e[i] = IF i = 0 THEN h ELSE EvictFirst(e[i - 1])
    BY <2>1
  <2>3. ASSUME NEW i \in 0..(m + 1)
        PROVE  g[i] = IF i = 0 THEN h ELSE EvictFirst(g[i - 1])
    <3>1. CASE i = m + 1
      BY <3>1
    <3>2. CASE i \in 0..m
      BY <2>2, <3>2
    <3> QED
      BY <3>1, <3>2
  <2>4. Turns(g, m + 1)
    <3>1. g = [i \in 0..(m + 1) |-> g[i]]
      OBVIOUS
    <3> HIDE DEF g
    <3> QED
      BY <2>3, <3>1
  <2>5. \E x : Turns(x, m + 1)
    <3> HIDE DEF Turns, g
    <3> QED
      BY <2>4
  <2> HIDE DEF Turns
  <2> QED
    BY <2>5
<1>3. \E x : Turns(x, Size(h))
  <2>1. Nat \subseteq T
    <3> HIDE DEF T
    <3> QED
      BY <1>1, <1>2, SetInduction
  <2> QED
    BY <2>1
<1>4. Turns(after, Size(h))
  <2> HIDE DEF Turns
  <2> QED
    BY <1>3
<1>5. Flushed(h) = after[Size(h)]
  BY DEF Flushed
<1> HIDE DEF after, T
<1>6. 0 \in 0..Size(h) /\ \A i \in 1..Size(h) : i \in 0..Size(h) /\ i # 0
  OBVIOUS
<1>7. after[0] = h /\ \A i \in 1..Size(h) : after[i] = EvictFirst(after[i - 1])
  BY <1>4, <1>6
<1> HIDE DEF Turns
<1> QED
  BY <1>5, <1>7

\* The first m of a sequence.
First(q, m) == [i \in 1..m |-> q[i]]

LEMMA FirstFacts ==
  ASSUME NEW S, NEW q \in Seq(S), Distinct(q), NEW m \in 0..Len(q)
  PROVE  /\ First(q, m) \in Seq(S) /\ Distinct(First(q, m)) /\ Len(First(q, m)) = m
         /\ First(q, Len(q)) = q
         /\ (m # 0 => Dropped(First(q, m), m) = First(q, m - 1))
<1>1. First(q, m) \in [1..m -> S]
  BY DEF First
<1>2. First(q, m) \in Seq(S) /\ Len(First(q, m)) = m
  BY <1>1
<1>3. \A i \in 1..m : First(q, m)[i] = q[i]
  BY DEF First
<1>4. Distinct(First(q, m))
  BY <1>2, <1>3 DEF Distinct
<1>5. First(q, Len(q)) = q
  BY DEF First
<1>6. ASSUME m # 0 PROVE Dropped(First(q, m), m) = First(q, m - 1)
  <2>1. Dropped(First(q, m), m) = [i \in 1..(m - 1) |-> IF i < m THEN First(q, m)[i]
                                                       ELSE First(q, m)[i + 1]]
    BY <1>2 DEF Dropped
  <2>2. \A i \in 1..(m - 1) : i \in 1..m /\ i < m
    OBVIOUS
  <2> QED
    BY <2>1, <2>2, <1>3 DEF First
<1> QED
  BY <1>2, <1>4, <1>5, <1>6

\* g is h without nodes of its list; r is those that are left.
Rest(h, g, r) ==
  /\ Lists(g, r) /\ EndAt(g, r)
  /\ g.key = h.key /\ g.data = h.data
  /\ DOMAIN g.hash \subseteq DOMAIN h.hash
  /\ \A k \in DOMAIN g.hash : g.hash[k] = h.hash[k]

LEMMA EvictedRest ==
  ASSUME NEW h, NEW g, NEW r, Rest(h, g, r), NEW p \in 1..Len(r)
  PROVE  Rest(h, Evicted(g, g.key[r[p]]), Dropped(r, p))
BY EvictedLists DEF Rest

LEMMA EvictLastRest ==
  ASSUME NEW h, NEW q \in Seq(Nodes), Distinct(q), NEW max \in Nat, NEW g,
         NEW m \in 0..Len(q), Rest(h, g, First(q, m))
  PROVE  Rest(h, EvictLast(g, max), First(q, IF max = 0 \/ m <= max THEN m ELSE m - 1))
<1> DEFINE r == First(q, m)
<1>1. Len(r) = m /\ m \in Nat /\ ~g.died /\ Size(g) = m
  BY FirstFacts, SizeIs DEF Rest, Lists
<1>2. CASE max = 0 \/ m <= max
  BY <1>1, <1>2 DEF EvictLast
<1>3. CASE ~(max = 0 \/ m <= max)
  <2>1. m # 0 /\ m \in 1..Len(r)
    BY <1>1, <1>3
  <2>2. g.last = r[m] /\ r[m] # Null
    <3>1. r \in Seq(Nodes)
      BY DEF Rest, Lists
    <3>2. r[m] \in Nodes
      BY <2>1, <3>1
    <3>3. g.last = r[m]
      BY <1>1, <2>1 DEF Rest, EndAt
    <3> QED
      BY <3>2, <3>3, CacheAssumption
  <2>3. EvictLast(g, max) = Evicted(g, g.key[r[m]])
    BY <1>1, <1>3, <2>2 DEF EvictLast
  <2>4. Dropped(r, m) = First(q, m - 1)
    BY <2>1, FirstFacts
  <2>5. Rest(h, Evicted(g, g.key[r[m]]), Dropped(r, m))
    BY <2>1, EvictedRest
  <2> QED
    BY <1>3, <2>3, <2>4, <2>5
<1> QED
  BY <1>2, <1>3

\* evict_to_max keeps the first of the list.
LEMMA TrimmedRest ==
  ASSUME NEW h, NEW q, Lists(h, q), EndAt(h, q), NEW max \in Nat
  PROVE  Rest(h, Trimmed(h, max),
              First(q, IF max # 0 /\ max < Len(q) THEN max ELSE Len(q)))
<1> DEFINE left(i) == IF max = 0 \/ Len(q) <= max THEN Len(q)
                      ELSE IF Len(q) - i <= max THEN max ELSE Len(q) - i
<1>0. q \in Seq(Nodes) /\ Distinct(q) /\ Len(q) \in Nat /\ Size(h) = Len(q)
  BY SizeIs DEF Lists
<1>1. PICK after : /\ after[0] = h
                   /\ \A i \in 1..Size(h) : after[i] = EvictLast(after[i - 1], max)
                   /\ Trimmed(h, max) = IF max # 0 /\ max < Size(after[Size(h)])
                                        THEN Dies(after[Size(h)]) ELSE after[Size(h)]
  BY <1>0, TrimmedUnfold
<1> DEFINE T == {i \in Nat : i <= Len(q) => Rest(h, after[i], First(q, left(i)))}
<1>2. 0 \in T
  <2>1. left(0) = Len(q)
    BY <1>0
  <2>2. First(q, Len(q)) = q
    BY <1>0, FirstFacts, Len(q) \in 0..Len(q)
  <2>3. Rest(h, h, q)
    BY DEF Rest
  <2> HIDE DEF left
  <2> QED
    BY <1>1, <2>1, <2>2, <2>3
<1>3. ASSUME NEW i \in Nat, i \in T PROVE i + 1 \in T
  <2> SUFFICES ASSUME i + 1 <= Len(q) PROVE Rest(h, after[i + 1], First(q, left(i + 1)))
    OBVIOUS
  <2>1. Rest(h, after[i], First(q, left(i)))
    BY <1>3, <1>0
  <2>2. after[i + 1] = EvictLast(after[i], max)
    BY <1>0, <1>1, (i + 1) - 1 = i, i + 1 \in 1..Len(q)
  <2>3. left(i) \in 0..Len(q)
    BY <1>0
  <2>4. left(i + 1) = IF max = 0 \/ left(i) <= max THEN left(i) ELSE left(i) - 1
    BY <1>0
  <2> HIDE DEF left
  <2>5. Rest(h, EvictLast(after[i], max),
             First(q, IF max = 0 \/ left(i) <= max THEN left(i) ELSE left(i) - 1))
    BY <1>0, <2>1, <2>3, EvictLastRest
  <2> QED
    BY <2>2, <2>4, <2>5
<1>4. Len(q) \in T
  <2>1. Nat \subseteq T
    <3> HIDE DEF T
    <3> QED
      BY <1>2, <1>3, SetInduction
  <2> HIDE DEF T
  <2> QED
    BY <2>1, <1>0
<1>5. left(Len(q)) = IF max # 0 /\ max < Len(q) THEN max ELSE Len(q)
  BY <1>0
<1>6. Rest(h, after[Len(q)], First(q, left(Len(q))))
  BY <1>4, <1>0
<1>7. left(Len(q)) \in 0..Len(q) /\ ~(max # 0 /\ max < left(Len(q)))
  BY <1>0, <1>5
<1> HIDE DEF left
<1>8. Size(after[Len(q)]) = left(Len(q))
  BY <1>0, <1>6, <1>7, SizeIs, FirstFacts DEF Rest
<1>9. Trimmed(h, max) = after[Len(q)]
  BY <1>0, <1>1, <1>7, <1>8
<1> QED
  BY <1>5, <1>6, <1>9

\* It keeps all where they are not too many, wherever m_end is.
LEMMA TrimmedNone ==
  ASSUME NEW h, NEW q, Lists(h, q), NEW max \in Nat, max = 0 \/ Size(h) <= max
  PROVE  Trimmed(h, max) = h
<1>0. Len(q) \in Nat /\ Size(h) = Len(q)
  BY SizeIs
<1>1. PICK after : /\ after[0] = h
                   /\ \A i \in 1..Size(h) : after[i] = EvictLast(after[i - 1], max)
                   /\ Trimmed(h, max) = IF max # 0 /\ max < Size(after[Size(h)])
                                        THEN Dies(after[Size(h)]) ELSE after[Size(h)]
  BY <1>0, TrimmedUnfold
<1> DEFINE T == {i \in Nat : i <= Len(q) => after[i] = h}
<1>2. 0 \in T
  BY <1>1
<1>3. ASSUME NEW i \in Nat, i \in T PROVE i + 1 \in T
  <2> SUFFICES ASSUME i + 1 <= Len(q) PROVE after[i + 1] = h
    OBVIOUS
  <2>1. after[i] = h
    BY <1>3, <1>0
  <2>2. after[i + 1] = EvictLast(after[i], max)
    BY <1>0, <1>1, (i + 1) - 1 = i, i + 1 \in 1..Len(q)
  <2> QED
    BY <2>1, <2>2 DEF EvictLast
<1>4. Len(q) \in T
  <2>1. Nat \subseteq T
    <3> HIDE DEF T
    <3> QED
      BY <1>2, <1>3, SetInduction
  <2> HIDE DEF T
  <2> QED
    BY <2>1, <1>0
<1>5. after[Len(q)] = h
  BY <1>4, <1>0
<1> QED
  BY <1>0, <1>1, <1>5

\* flush leaves no key, whatever the order of the keys.
LEMMA FlushedRest ==
  ASSUME NEW h, NEW q, Lists(h, q), EndAt(h, q)
  PROVE  Rest(h, Flushed(h), <<>>)
<1>0. q \in Seq(Nodes) /\ Len(q) \in Nat /\ Size(h) = Len(q)
  BY SizeIs DEF Lists
<1>1. PICK after : /\ after[0] = h
                   /\ \A i \in 1..Size(h) : after[i] = EvictFirst(after[i - 1])
                   /\ Flushed(h) = after[Size(h)]
  BY <1>0, FlushedUnfold
<1> DEFINE T == {i \in Nat : i <= Len(q) =>
                              \E r : Rest(h, after[i], r) /\ Len(r) = Len(q) - i}
<1>2. 0 \in T
  <2>1. Rest(h, h, q)
    BY DEF Rest
  <2> QED
    BY <1>0, <1>1, <2>1
<1>3. ASSUME NEW i \in Nat, i \in T PROVE i + 1 \in T
  <2> SUFFICES ASSUME i + 1 <= Len(q)
               PROVE  \E r : Rest(h, after[i + 1], r) /\ Len(r) = Len(q) - (i + 1)
    OBVIOUS
  <2> DEFINE g == after[i]
             k == CHOOSE k \in DOMAIN g.hash : \A j \in DOMAIN g.hash : k <= j
  <2>1. PICK r : Rest(h, g, r) /\ Len(r) = Len(q) - i
    BY <1>3, <1>0
  <2>2. after[i + 1] = EvictFirst(g)
    BY <1>0, <1>1, (i + 1) - 1 = i, i + 1 \in 1..Len(q)
  <2>3. Lists(g, r) /\ ~g.died /\ Hashes(g, r) /\ r \in Seq(Nodes) /\ Distinct(r)
    BY <2>1 DEF Rest, Lists
  <2>4. 1 \in 1..Len(r)
    BY <1>0, <2>1
  <2>5. DOMAIN g.hash # {} /\ DOMAIN g.hash \subseteq Nat
    BY <2>3, <2>4, CacheAssumption DEF Hashes
  <2>6. k \in DOMAIN g.hash
    <3> HIDE DEF g
    <3> QED
      BY <2>5, Least
  <2>7. PICK p \in 1..Len(r) : k = g.key[r[p]]
    <3> HIDE DEF g, k
    <3> QED
      BY <2>3, <2>6, ListedKey
  <2>8. EvictFirst(g) = Evicted(g, k)
    <3> HIDE DEF g
    <3> QED
      BY <2>3, <2>5 DEF EvictFirst
  <2> HIDE DEF k, g
  <2>9. Rest(h, Evicted(g, g.key[r[p]]), Dropped(r, p))
    BY <2>1, EvictedRest
  <2>10. Len(Dropped(r, p)) = Len(r) - 1
    BY <2>3, DroppedFacts
  <2>11. Len(r) - 1 = Len(q) - (i + 1)
    BY <1>0, <2>1
  <2> QED
    BY <2>2, <2>7, <2>8, <2>9, <2>10, <2>11
<1>4. Len(q) \in T
  <2>1. Nat \subseteq T
    <3> HIDE DEF T
    <3> QED
      BY <1>2, <1>3, SetInduction
  <2> HIDE DEF T
  <2> QED
    BY <2>1, <1>0
<1>5. PICK r : Rest(h, after[Len(q)], r) /\ Len(r) = Len(q) - Len(q)
  BY <1>4, <1>0
<1>6. r \in Seq(Nodes) /\ Len(r) = 0
  BY <1>0, <1>5 DEF Rest, Lists
<1>7. r = <<>>
  BY <1>6
<1> QED
  BY <1>0, <1>1, <1>5, <1>7

-----------------------------------------------------------------------------
(* The order of the keys, as RecencyCache writes it. *)

LEMMA SequenceForms ==
  ASSUME NEW S, NEW s \in Seq(S)
  PROVE  /\ \A p \in 1..Len(s) : /\ RemoveAt(s, p) = Dropped(s, p)
                                 /\ <<s[p]>> \o RemoveAt(s, p) = ToFront(s, p)
         /\ \A x \in S : <<x>> \o s = Prepended(s, x)
         /\ \A m \in 0..Len(s) : SubSeq(s, 1, m) = First(s, m)
<1>l. Len(s) \in Nat /\ \A i \in 1..Len(s) : s[i] \in S
  OBVIOUS
<1>1. ASSUME NEW x \in S, NEW t \in Seq(S)
      PROVE  /\ <<x>> \o t \in Seq(S) /\ Len(<<x>> \o t) = Len(t) + 1
             /\ \A i \in 1..(Len(t) + 1) : (<<x>> \o t)[i] = IF i = 1 THEN x ELSE t[i - 1]
  <2>1. <<x>> \in Seq(S) /\ Len(<<x>>) = 1 /\ <<x>>[1] = x
    OBVIOUS
  <2>2. /\ <<x>> \o t \in Seq(S) /\ Len(<<x>> \o t) = 1 + Len(t)
        /\ \A i \in 1..(1 + Len(t)) : (<<x>> \o t)[i] = IF i <= 1 THEN <<x>>[i] ELSE t[i - 1]
    BY <2>1, ConcatProperties
  <2>3. Len(t) \in Nat
    OBVIOUS
  <2> QED
    BY <2>1, <2>2, <2>3
<1>2. ASSUME NEW f \in Seq(S) PROVE f = [i \in 1..Len(f) |-> f[i]]
  OBVIOUS
<1>3. ASSUME NEW p \in 1..Len(s)
      PROVE  /\ RemoveAt(s, p) = Dropped(s, p)
             /\ <<s[p]>> \o RemoveAt(s, p) = ToFront(s, p)
  <2> DEFINE a == SubSeq(s, 1, p - 1)
             b == SubSeq(s, p + 1, Len(s))
  <2>1. /\ a \in Seq(S) /\ Len(a) = p - 1
        /\ \A i \in 1..(p - 1) : a[i] = s[i]
    <3>1. /\ a \in Seq(S) /\ Len(a) = IF 1 <= p - 1 THEN (p - 1) - 1 + 1 ELSE 0
          /\ \A i \in 1..((p - 1) - 1 + 1) : a[i] = s[1 + i - 1]
      <4>1. 1 \in Int /\ p - 1 \in Int /\ \A i \in 1..(p - 1) : s[i] \in S
        BY <1>l
      <4> QED
        BY <4>1, SubSeqProperties
    <3>2. (p - 1) - 1 + 1 = p - 1 /\ \A i \in 1..(p - 1) : 1 + i - 1 = i
      BY <1>l
    <3> QED
      BY <3>1, <3>2
  <2>2. /\ b \in Seq(S) /\ Len(b) = Len(s) - p
        /\ \A i \in 1..(Len(s) - p) : b[i] = s[p + i]
    <3>1. /\ b \in Seq(S) /\ Len(b) = IF p + 1 <= Len(s) THEN Len(s) - (p + 1) + 1 ELSE 0
          /\ \A i \in 1..(Len(s) - (p + 1) + 1) : b[i] = s[(p + 1) + i - 1]
      <4>1. p + 1 \in Int /\ Len(s) \in Int /\ \A i \in (p + 1)..Len(s) : s[i] \in S
        BY <1>l
      <4> QED
        BY <4>1, SubSeqProperties
    <3>2. /\ Len(s) - (p + 1) + 1 = Len(s) - p
          /\ \A i \in 1..(Len(s) - p) : (p + 1) + i - 1 = p + i
      BY <1>l
    <3>3. Len(b) = Len(s) - p
      <4> HIDE DEF b
      <4> QED
        BY <3>1, <1>l
    <3> HIDE DEF b
    <3> QED
      BY <3>1, <3>2, <3>3
  <2> DEFINE t == a \o b
  <2>3. RemoveAt(s, p) = t
    BY DEF RemoveAt
  <2> HIDE DEF a, b
  <2>4. /\ t \in Seq(S) /\ Len(t) = Len(s) - 1
        /\ \A i \in 1..(Len(s) - 1) : t[i] = IF i < p THEN s[i] ELSE s[i + 1]
    <3>1. /\ a \o b \in Seq(S) /\ Len(a \o b) = Len(a) + Len(b)
          /\ \A i \in 1..(Len(a) + Len(b)) : (a \o b)[i] =
               IF i <= Len(a) THEN a[i] ELSE b[i - Len(a)]
      BY <2>1, <2>2, ConcatProperties
    <3>2. Len(a) + Len(b) = Len(s) - 1
      BY <2>1, <2>2, <1>l
    <3>3. ASSUME NEW i \in 1..(Len(s) - 1)
          PROVE  (a \o b)[i] = IF i < p THEN s[i] ELSE s[i + 1]
      <4>1. CASE i < p
        BY <4>1, <3>1, <3>2, <2>1, <1>l
      <4>2. CASE ~(i < p)
        <5>1. i - (p - 1) \in 1..(Len(s) - p) /\ p + (i - (p - 1)) = i + 1
          BY <4>2, <1>l
        <5>2. b[i - (p - 1)] = s[i + 1]
          BY <5>1, <2>2
        <5> QED
          BY <4>2, <3>1, <3>2, <2>1, <5>2, <1>l
      <4> QED
        BY <4>1, <4>2
    <3> QED
      BY <3>1, <3>2, <3>3
  <2> HIDE DEF t
  <2>5. t = Dropped(s, p)
    <3>1. t = [i \in 1..(Len(s) - 1) |-> t[i]]
      BY <2>4, <1>2
    <3> QED
      BY <3>1, <2>4 DEF Dropped
  <2>6. <<s[p]>> \o t = ToFront(s, p)
    <3> DEFINE c == <<s[p]>> \o t
    <3>1. /\ c \in Seq(S) /\ Len(c) = Len(s)
          /\ \A i \in 1..Len(s) : c[i] = IF i = 1 THEN s[p] ELSE t[i - 1]
      <4>1. s[p] \in S /\ (Len(s) - 1) + 1 = Len(s)
        BY <1>l
      <4>2. t \in Seq(S) /\ Len(t) = Len(s) - 1
        BY <2>4
      <4>3. /\ c \in Seq(S) /\ Len(c) = Len(t) + 1
            /\ \A i \in 1..(Len(t) + 1) : c[i] = IF i = 1 THEN s[p] ELSE t[i - 1]
        BY <4>1, <4>2, <1>1
      <4>4. Len(t) + 1 = Len(s)
        BY <4>1, <4>2
      <4> QED
        BY <4>3, <4>4
    <3> HIDE DEF c
    <3>2. /\ ToFront(s, p) = [i \in 1..Len(s) |-> ToFront(s, p)[i]]
          /\ \A i \in 1..Len(s) : ToFront(s, p)[i] =
               IF i = 1 THEN s[p] ELSE IF i <= p THEN s[i - 1] ELSE s[i]
      BY DEF ToFront
    <3>3. ASSUME NEW i \in 1..Len(s) PROVE c[i] = ToFront(s, p)[i]
      <4>1. CASE i = 1
        BY <4>1, <3>1, <3>2
      <4>2. CASE i # 1
        <5>1. i - 1 \in 1..(Len(s) - 1) /\ (i - 1) + 1 = i /\ (i - 1 < p <=> i <= p)
          BY <4>2, <1>l
        <5> QED
          BY <4>2, <5>1, <3>1, <3>2, <2>4
      <4> QED
        BY <4>1, <4>2
    <3>4. c = ToFront(s, p)
      <4>1. c = [i \in 1..Len(s) |-> c[i]]
        BY <3>1, <1>2
      <4> QED
        BY <4>1, <3>2, <3>3
    <3> QED
      BY <3>4 DEF c
  <2> QED
    BY <2>3, <2>5, <2>6
<1>4. ASSUME NEW x \in S PROVE <<x>> \o s = Prepended(s, x)
  <2> DEFINE c == <<x>> \o s
  <2>1. /\ c \in Seq(S) /\ Len(c) = Len(s) + 1
        /\ \A i \in 1..(Len(s) + 1) : c[i] = IF i = 1 THEN x ELSE s[i - 1]
    BY <1>1
  <2> HIDE DEF c
  <2>2. c = [i \in 1..(Len(s) + 1) |-> c[i]]
    BY <2>1, <1>2
  <2>3. c = Prepended(s, x)
    BY <2>1, <2>2 DEF Prepended
  <2> QED
    BY <2>3 DEF c
<1>5. ASSUME NEW m \in 0..Len(s) PROVE SubSeq(s, 1, m) = First(s, m)
  <2>1. /\ SubSeq(s, 1, m) \in Seq(S) /\ Len(SubSeq(s, 1, m)) = m
        /\ \A i \in 1..m : SubSeq(s, 1, m)[i] = s[i]
    <3>1. 1 \in Int /\ m \in Int /\ \A i \in 1..m : s[i] \in S
      BY <1>l
    <3>2. /\ SubSeq(s, 1, m) \in Seq(S)
          /\ Len(SubSeq(s, 1, m)) = IF 1 <= m THEN m - 1 + 1 ELSE 0
          /\ \A i \in 1..(m - 1 + 1) : SubSeq(s, 1, m)[i] = s[1 + i - 1]
      BY <3>1, SubSeqProperties
    <3>3. m - 1 + 1 = m /\ \A i \in 1..m : 1 + i - 1 = i
      OBVIOUS
    <3> QED
      BY <3>2, <3>3
  <2> DEFINE c == SubSeq(s, 1, m)
  <2> HIDE DEF c
  <2>2. c = [i \in 1..m |-> c[i]]
    BY <2>1, <1>2 DEF c
  <2>3. c = First(s, m)
    BY <2>1, <2>2 DEF First, c
  <2> QED
    BY <2>3 DEF c
<1> QED
  BY <1>3, <1>4, <1>5

LEMMA NamesFacts ==
  ASSUME NEW h, NEW q, Lists(h, q)
  PROVE  /\ Names(h, q) \in Seq(Keys) /\ Len(Names(h, q)) = Len(q) /\ Distinct(Names(h, q))
         /\ DOMAIN Names(h, q) = 1..Len(q)
         /\ \A i \in 1..Len(q) : Names(h, q)[i] = h.key[q[i]] /\ h.hash[Names(h, q)[i]] = q[i]
         /\ DOMAIN h.hash = ToSet(Names(h, q))
<1>0. Hashes(h, q) /\ q \in Seq(Nodes) /\ Distinct(q) /\ Len(q) \in Nat
  BY DEF Lists
<1>1. \A i \in 1..Len(q) : h.key[q[i]] \in Keys /\ h.hash[h.key[q[i]]] = q[i]
  BY <1>0 DEF Hashes
<1>2. Names(h, q) \in [1..Len(q) -> Keys]
  BY <1>1 DEF Names
<1>3. \A i \in 1..Len(q) : Names(h, q)[i] = h.key[q[i]]
  BY DEF Names
<1>4. Names(h, q) \in Seq(Keys) /\ Len(Names(h, q)) = Len(q)
  BY <1>0, <1>2
<1>5. Distinct(Names(h, q))
  <2> SUFFICES ASSUME NEW i \in 1..Len(q), NEW j \in 1..Len(q),
                      Names(h, q)[i] = Names(h, q)[j]
               PROVE  i = j
    BY <1>4 DEF Distinct
  <2>1. q[i] = q[j]
    BY <1>1, <1>3
  <2> QED
    BY <2>1, <1>0 DEF Distinct
<1>6. \A k : k \in DOMAIN h.hash <=> \E i \in 1..Len(q) : k = h.key[q[i]]
  <2>1. \A i \in 1..Len(q) : h.key[q[i]] \in DOMAIN h.hash
    BY <1>0 DEF Hashes
  <2>2. \A k \in DOMAIN h.hash : \E i \in 1..Len(q) : k = h.key[q[i]]
    BY ListedKey
  <2> QED
    BY <2>1, <2>2
<1>7. DOMAIN Names(h, q) = 1..Len(q)
  BY <1>2
<1>8. \A k : k \in ToSet(Names(h, q)) <=> \E i \in 1..Len(q) : k = h.key[q[i]]
  BY <1>3, <1>7 DEF ToSet
<1> QED
  BY <1>1, <1>2, <1>3, <1>4, <1>5, <1>6, <1>8

LEMMA NamesForms ==
  ASSUME NEW h, NEW q, Lists(h, q), NEW g,
         \A i \in 1..Len(q) : g.key[q[i]] = h.key[q[i]]
  PROVE  /\ \A p \in 1..Len(q) : /\ Names(g, ToFront(q, p)) = ToFront(Names(h, q), p)
                                 /\ Names(g, Dropped(q, p)) = Dropped(Names(h, q), p)
         /\ \A m \in 0..Len(q) : Names(g, First(q, m)) = First(Names(h, q), m)
         /\ \A n \in Nodes : (\A i \in 1..Len(q) : q[i] # n) =>
              Names(g, Prepended(q, n)) = Prepended(Names(h, q), g.key[n])
<1>0. q \in Seq(Nodes) /\ Distinct(q) /\ Len(q) \in Nat
  BY DEF Lists
<1>1. Len(Names(h, q)) = Len(q) /\ \A i \in 1..Len(q) : Names(h, q)[i] = g.key[q[i]]
  BY NamesFacts
<1>2. ASSUME NEW p \in 1..Len(q)
      PROVE  Names(g, ToFront(q, p)) = ToFront(Names(h, q), p)
  <2>1. /\ Len(ToFront(q, p)) = Len(q)
        /\ \A i \in 1..Len(q) : ToFront(q, p)[i] =
             IF i = 1 THEN q[p] ELSE IF i <= p THEN q[i - 1] ELSE q[i]
    BY <1>0, ToFrontFacts
  <2>2. \A i \in 1..Len(q) : i # 1 => i - 1 \in 1..Len(q)
    BY <1>0
  <2>3. \A i \in 1..Len(q) : g.key[ToFront(q, p)[i]] =
          IF i = 1 THEN Names(h, q)[p]
          ELSE IF i <= p THEN Names(h, q)[i - 1] ELSE Names(h, q)[i]
    BY <1>1, <2>1, <2>2
  <2> QED
    BY <1>1, <2>1, <2>3, SMTT(30) DEF Names, ToFront
<1>3. ASSUME NEW p \in 1..Len(q)
      PROVE  Names(g, Dropped(q, p)) = Dropped(Names(h, q), p)
  <2>1. /\ Len(Dropped(q, p)) = Len(q) - 1
        /\ \A i \in 1..(Len(q) - 1) : Dropped(q, p)[i] = IF i < p THEN q[i] ELSE q[i + 1]
    BY <1>0, DroppedFacts
  <2>2. \A i \in 1..(Len(q) - 1) : i \in 1..Len(q) /\ i + 1 \in 1..Len(q)
    BY <1>0
  <2>3. \A i \in 1..(Len(q) - 1) : g.key[Dropped(q, p)[i]] =
          IF i < p THEN Names(h, q)[i] ELSE Names(h, q)[i + 1]
    BY <1>1, <2>1, <2>2
  <2> QED
    BY <1>1, <2>1, <2>3 DEF Names, Dropped
<1>4. ASSUME NEW m \in 0..Len(q)
      PROVE  Names(g, First(q, m)) = First(Names(h, q), m)
  <2>1. Len(First(q, m)) = m /\ \A i \in 1..m : First(q, m)[i] = q[i]
    BY <1>0, FirstFacts DEF First
  <2>2. \A i \in 1..m : i \in 1..Len(q)
    BY <1>0
  <2>3. \A i \in 1..m : g.key[First(q, m)[i]] = Names(h, q)[i]
    BY <1>1, <2>1, <2>2
  <2> QED
    BY <2>1, <2>3 DEF Names, First
<1>5. ASSUME NEW n \in Nodes, \A i \in 1..Len(q) : q[i] # n
      PROVE  Names(g, Prepended(q, n)) = Prepended(Names(h, q), g.key[n])
  <2>1. /\ Len(Prepended(q, n)) = Len(q) + 1
        /\ \A i \in 1..(Len(q) + 1) : Prepended(q, n)[i] = IF i = 1 THEN n ELSE q[i - 1]
    BY <1>0, <1>5, PrependedFacts
  <2>2. \A i \in 1..(Len(q) + 1) : i # 1 => i - 1 \in 1..Len(q)
    BY <1>0
  <2>3. \A i \in 1..(Len(q) + 1) : g.key[Prepended(q, n)[i]] =
          IF i = 1 THEN g.key[n] ELSE Names(h, q)[i - 1]
    BY <1>1, <2>1, <2>2
  <2> QED
    BY <1>1, <2>1, <2>3 DEF Names, Prepended
<1> QED
  BY <1>2, <1>3, <1>4, <1>5

-----------------------------------------------------------------------------
(* The calls. *)

\* Whoever has keys evicted does not use the last of several: otherwise m_end
\* may be left behind, and what is evicted is not the last (run lru_oldest).
TrustedCallers == \A c \in Callers : ~(c.uses_last /\ c.evicts)

CacheInv ==
  /\ caller \in Callers
  /\ \E q : Lists(heap, q) /\ (caller.uses_last \/ EndAt(heap, q))

LEMMA ChainIs ==
  ASSUME NEW q, Lists(heap, q)
  PROVE  /\ Chain = Names(heap, q) /\ Chain \in Seq(Keys) /\ Len(Chain) = Len(q)
         /\ Recency!InCache = DOMAIN heap.hash
         /\ \A k \in Keys : k \notin DOMAIN heap.hash => Recency!Without(k) = Chain
         /\ \A p \in 1..Len(q) :
              /\ Recency!Without(heap.key[q[p]]) = Dropped(Chain, p)
              /\ <<heap.key[q[p]]>> \o Recency!Without(heap.key[q[p]]) = ToFront(Chain, p)
<1>1. Chain = Names(heap, q)
  BY ListedIs DEF Chain
<1>2. /\ Chain \in Seq(Keys) /\ Len(Chain) = Len(q) /\ Distinct(Chain)
      /\ DOMAIN Chain = 1..Len(q) /\ DOMAIN heap.hash = ToSet(Chain)
      /\ \A i \in 1..Len(q) : Chain[i] = heap.key[q[i]]
  BY <1>1, NamesFacts
<1>3. Recency!InCache = DOMAIN heap.hash
  BY <1>2 DEF Recency!InCache, Recency!ToSet, ToSet
<1>4. ASSUME NEW k \in Keys, k \notin DOMAIN heap.hash PROVE Recency!Without(k) = Chain
  BY <1>3, <1>4 DEF Recency!Without
<1>5. ASSUME NEW p \in 1..Len(q)
      PROVE  /\ Recency!Without(heap.key[q[p]]) = Dropped(Chain, p)
             /\ <<heap.key[q[p]]>> \o Recency!Without(heap.key[q[p]]) = ToFront(Chain, p)
  <2> DEFINE k == heap.key[q[p]]
  <2>1. k = Chain[p] /\ k \in Recency!InCache
    BY <1>2, <1>3 DEF ToSet
  <2>2. \A i \in DOMAIN Chain : Chain[i] = k => i = p
    BY <1>2, <2>1 DEF Distinct
  <2>3. (CHOOSE i \in DOMAIN Chain : Chain[i] = k) = p
    BY <1>2, <2>1, <2>2
  <2> HIDE DEF k
  <2>4. Recency!Without(k) = RemoveAt(Chain, p)
    BY <2>1, <2>3 DEF Recency!Without, Recency!RemoveAt, RemoveAt
  <2>5. /\ RemoveAt(Chain, p) = Dropped(Chain, p)
        /\ <<Chain[p]>> \o RemoveAt(Chain, p) = ToFront(Chain, p)
    BY <1>2, SequenceForms
  <2> QED
    BY <2>1, <2>4, <2>5 DEF k
<1> QED
  BY <1>1, <1>2, <1>3, <1>4, <1>5

LEMMA HeldFacts ==
  ASSUME NEW h
  PROVE  DOMAIN Held(h) = DOMAIN h.hash /\ \A k \in DOMAIN h.hash : Held(h)[k] = h.data[h.hash[k]]
BY DEF Held

\* After a call that leaves a list.
LEMMA BecomesLists ==
  ASSUME NEW h, NEW q, Lists(h, q), Becomes(h)
  PROVE  /\ Lists(heap', q) /\ Chain' = Names(h, q)
         /\ Held(heap') = Held(h) /\ heap'.hash = h.hash
         /\ (EndAt(h, q) => EndAt(heap', q))
<1>1. heap' = Collected(h)
  BY DEF Becomes, Lists
<1>2. /\ Lists(heap', q) /\ heap'.hash = h.hash /\ heap'.last = h.last
      /\ \A i \in 1..Len(q) :
           heap'.key[q[i]] = h.key[q[i]] /\ heap'.data[q[i]] = h.data[q[i]]
  BY <1>1, CollectedLists
<1>3. Chain' = Names(heap', q)
  BY <1>2, ListedIs DEF Chain
<1>4. Names(heap', q) = Names(h, q)
  BY <1>2 DEF Names
<1>5. \A k \in DOMAIN h.hash : heap'.data[h.hash[k]] = h.data[h.hash[k]]
  BY <1>2 DEF Lists, Hashes
<1>6. Held(heap') = Held(h)
  BY <1>2, <1>5 DEF Held
<1>7. EndAt(h, q) => EndAt(heap', q)
  BY <1>2 DEF EndAt
<1> QED
  BY <1>2, <1>3, <1>4, <1>6, <1>7

\* Where a key may be used, using it leaves m_end at the end.
LEMMA MayUseEnd ==
  ASSUME NEW q, Lists(heap, q), EndAt(heap, q), NEW p \in 1..Len(q),
         NEW k \in DOMAIN heap.hash, heap.hash[k] = q[p], MayUse(k), ~caller.uses_last
  PROVE  p # Len(q) \/ p = 1
<1>1. Len(q) \in Nat /\ Size(heap) = Len(q)
  BY SizeIs
<1>2. q[p] # heap.last \/ Len(q) = 1
  BY <1>1 DEF MayUse, Exists
<1>3. heap.last = q[Len(q)]
  BY <1>1 DEF EndAt
<1> QED
  BY <1>1, <1>2, <1>3

LEMMA GetStep ==
  ASSUME CacheInv, NEW k \in Keys, get(k), UNCHANGED caller
  PROVE  CacheInv' /\ Recency!Get(k) /\ Held(heap') = Held(heap)
<1>1. PICK q : Lists(heap, q) /\ (caller.uses_last \/ EndAt(heap, q))
  BY DEF CacheInv
<1>c. caller' \in Callers /\ caller' = caller /\ caller.uses_last \in BOOLEAN
  BY CacheAssumption DEF CacheInv
<1>g. answer' = DataOf(k) /\ m_max_size' = m_max_size /\ MayUse(k)
  BY DEF get
<1>2. CASE k \in DOMAIN heap.hash
  <2>1. PICK p \in 1..Len(q) : k = heap.key[q[p]] /\ heap.hash[k] = q[p]
    BY <1>1, <1>2, ListedKey
  <2> DEFINE h == m_update(heap, q[p])
             r == ToFront(q, p)
  <2>2. Becomes(h)
    BY <1>2, <2>1 DEF get, Exists
  <2>3. /\ Lists(h, r) /\ h.hash = heap.hash /\ h.key = heap.key /\ h.data = heap.data
        /\ (EndAt(heap, q) /\ (p # Len(q) \/ p = 1) => EndAt(h, r))
    BY <1>1, UpdateLists
  <2> HIDE DEF h, r
  <2>4. /\ Lists(heap', r) /\ Chain' = Names(h, r)
        /\ Held(heap') = Held(h) /\ (EndAt(h, r) => EndAt(heap', r))
    BY <2>2, <2>3, BecomesLists
  <2>5. Names(h, r) = ToFront(Names(heap, q), p)
    BY <1>1, <2>3, NamesForms DEF r
  <2>6. Chain' = <<k>> \o Recency!Without(k) /\ k \in Recency!InCache
    BY <1>1, <1>2, <2>1, <2>4, <2>5, ChainIs
  <2>7. Held(heap') = Held(heap)
    BY <2>3, <2>4 DEF Held
  <2>8. answer' = {Held(heap)[k]}
    BY <1>2, <1>g DEF DataOf, Exists
  <2>9. Recency!Get(k)
    BY <2>6, <2>7, <2>8, <1>g DEF Recency!Get, Recency!Used
  <2>10. CacheInv'
    <3>1. caller.uses_last \/ EndAt(h, r)
      BY <1>1, <1>2, <1>c, <1>g, <2>1, <2>3, MayUseEnd
    <3> QED
      BY <3>1, <2>4, <1>c DEF CacheInv
  <2> QED
    BY <2>7, <2>9, <2>10
<1>3. CASE k \notin DOMAIN heap.hash
  <2>1. Becomes(heap)
    BY <1>3 DEF get, Exists
  <2>2. /\ Lists(heap', q) /\ Chain' = Names(heap, q)
        /\ Held(heap') = Held(heap) /\ (EndAt(heap, q) => EndAt(heap', q))
    BY <1>1, <2>1, BecomesLists
  <2>3. Chain' = Chain /\ k \notin Recency!InCache
    BY <1>1, <1>3, <2>2, ChainIs
  <2>4. answer' = {}
    BY <1>3, <1>g DEF DataOf, Exists
  <2>5. Recency!Get(k)
    BY <2>2, <2>3, <2>4, <1>g DEF Recency!Get
  <2>6. CacheInv'
    BY <1>1, <2>2, <1>c DEF CacheInv
  <2> QED
    BY <2>2, <2>5, <2>6
<1> QED
  BY <1>2, <1>3

LEMMA PutStep ==
  ASSUME CacheInv, NEW k \in Keys, NEW d, put(k, d), UNCHANGED caller
  PROVE  /\ CacheInv' /\ Recency!Put(k, d)
         /\ Held(heap') = [j \in DOMAIN heap.hash \cup {k} |-> IF j = k THEN d ELSE Held(heap)[j]]
<1> DEFINE after == [j \in DOMAIN heap.hash \cup {k} |-> IF j = k THEN d ELSE Held(heap)[j]]
<1>1. PICK q : Lists(heap, q) /\ (caller.uses_last \/ EndAt(heap, q))
  BY DEF CacheInv
<1>c. caller' \in Callers /\ caller' = caller /\ caller.uses_last \in BOOLEAN
  BY CacheAssumption DEF CacheInv
<1>g. answer' = {} /\ m_max_size' = m_max_size /\ MayUse(k)
  BY DEF put
<1>i. Recency!InCache = DOMAIN heap.hash
  BY <1>1, ChainIs
<1>q. \A i \in 1..Len(q) : q[i] \in Nodes
  BY <1>1 DEF Lists
<1>2. CASE k \in DOMAIN heap.hash
  <2>1. PICK p \in 1..Len(q) : k = heap.key[q[p]] /\ heap.hash[k] = q[p]
    BY <1>1, <1>2, ListedKey
  <2> DEFINE h == m_update(heap, q[p])
             g == [h EXCEPT !.data[q[p]] = d]
             dt == [h.data EXCEPT ![q[p]] = d]
             r == ToFront(q, p)
  <2>2. Becomes(g)
    BY <1>2, <2>1 DEF put, Exists
  <2>3. /\ Lists(h, r) /\ h.hash = heap.hash /\ h.key = heap.key /\ h.data = heap.data
        /\ (EndAt(heap, q) /\ (p # Len(q) \/ p = 1) => EndAt(h, r))
    BY <1>1, UpdateLists
  <2> HIDE DEF h, r
  <2>s. Shape(h) /\ ~h.died
    BY <2>3 DEF Lists
  <2>4. g = [hash |-> h.hash, begin |-> h.begin, last |-> h.last, died |-> h.died,
             key |-> h.key, data |-> dt, prev |-> h.prev, next |-> h.next]
    BY <2>s DEF Shape
  <2>d. /\ dt = [n \in Nodes |-> dt[n]] /\ dt[q[p]] = d
        /\ \A n \in Nodes \ {q[p]} : dt[n] = h.data[n]
    BY <2>s, <1>q DEF Shape
  <2> HIDE DEF g, dt
  <2>5. /\ g.hash = h.hash /\ g.begin = h.begin /\ g.last = h.last /\ g.died = h.died
        /\ g.key = h.key /\ g.data = dt /\ g.prev = h.prev /\ g.next = h.next
    BY <2>4
  <2>6. Shape(g)
    BY <2>s, <2>4, <2>5, <2>d DEF Shape
  <2>7. Lists(g, r)
    BY <2>3, <2>5, <2>6, <2>s, SameList
  <2>8. /\ Lists(heap', r) /\ Chain' = Names(g, r)
        /\ Held(heap') = Held(g) /\ (EndAt(g, r) => EndAt(heap', r))
    BY <2>2, <2>7, BecomesLists
  <2>9. Names(g, r) = ToFront(Names(heap, q), p)
    BY <1>1, <2>3, <2>5, NamesForms DEF r
  <2>10. Chain' = <<k>> \o Recency!Without(k)
    BY <1>1, <2>1, <2>8, <2>9, ChainIs
  <2>11. Held(heap') = after
    <3>1. \A j \in DOMAIN heap.hash : dt[heap.hash[j]] = IF j = k THEN d ELSE heap.data[heap.hash[j]]
      <4> TAKE j \in DOMAIN heap.hash
      <4>1. heap.hash[j] \in Nodes
        BY <1>1, <1>q DEF Lists, Hashes
      <4>2. heap.hash[j] = q[p] => j = k
        BY <1>1, <1>2, <2>1 DEF Lists, Hashes
      <4> QED
        BY <4>1, <4>2, <2>1, <2>3, <2>d
    <3>2. DOMAIN heap.hash \cup {k} = DOMAIN heap.hash
      BY <1>2
    <3>3. Held(g) = [j \in DOMAIN heap.hash |-> dt[heap.hash[j]]]
      BY <2>3, <2>5 DEF Held
    <3> QED
      BY <3>1, <3>2, <3>3, <2>8, HeldFacts
  <2>12. Recency!Put(k, d)
    BY <2>10, <2>11, <1>g, <1>i DEF Recency!Put, Recency!Used
  <2>13. CacheInv'
    <3>1. caller.uses_last \/ EndAt(h, r)
      BY <1>1, <1>2, <1>c, <1>g, <2>1, <2>3, MayUseEnd
    <3>2. EndAt(h, r) => EndAt(g, r)
      BY <2>5 DEF EndAt
    <3> QED
      BY <3>1, <3>2, <2>8, <1>c DEF CacheInv
  <2> QED
    BY <2>11, <2>12, <2>13
<1>3. CASE k \notin DOMAIN heap.hash
  <2> DEFINE g == Added(heap, k, d)
             n == NewNode(heap)
             r == Prepended(q, n)
  <2>1. Becomes(g)
    BY <1>3 DEF put, Exists
  <2>2. /\ Lists(g, r)
        /\ DOMAIN g.hash = DOMAIN heap.hash \cup {k}
        /\ g.key[n] = k /\ g.data[n] = d /\ g.hash[k] = n
        /\ \A j \in DOMAIN heap.hash : g.hash[j] = heap.hash[j]
        /\ \A i \in 1..Len(q) : g.key[q[i]] = heap.key[q[i]] /\ g.data[q[i]] = heap.data[q[i]]
        /\ (EndAt(heap, q) => EndAt(g, r))
    BY <1>1, <1>3, AddedLists
  <2>n. n \in Nodes /\ \A i \in 1..Len(q) : q[i] # n
    BY <1>1, NewNodeIsNew
  <2> HIDE DEF g, r, n
  <2>3. /\ Lists(heap', r) /\ Chain' = Names(g, r)
        /\ Held(heap') = Held(g) /\ (EndAt(g, r) => EndAt(heap', r))
    BY <2>1, <2>2, BecomesLists
  <2>4. Names(g, r) = Prepended(Names(heap, q), k)
    BY <1>1, <2>2, <2>n, NamesForms DEF r
  <2>5. Chain' = <<k>> \o Recency!Without(k)
    <3>1. Chain \in Seq(Keys) /\ Chain = Names(heap, q) /\ Recency!Without(k) = Chain
      BY <1>1, <1>3, ChainIs
    <3>2. <<k>> \o Chain = Prepended(Chain, k)
      BY <3>1, SequenceForms
    <3> QED
      BY <3>1, <3>2, <2>3, <2>4
  <2>6. Held(heap') = after
    <3>1. \A j \in DOMAIN heap.hash : g.data[heap.hash[j]] = heap.data[heap.hash[j]]
      <4> TAKE j \in DOMAIN heap.hash
      <4>1. PICK i \in 1..Len(q) : heap.hash[j] = q[i]
        BY <1>1 DEF Lists, Hashes
      <4> QED
        BY <4>1, <2>2
    <3>2. \A j \in DOMAIN heap.hash \cup {k} :
             g.data[g.hash[j]] = IF j = k THEN d ELSE heap.data[heap.hash[j]]
      BY <3>1, <2>2, <1>3
    <3> QED
      BY <3>2, <2>2, <2>3 DEF Held
  <2>7. Recency!Put(k, d)
    BY <2>5, <2>6, <1>g, <1>i DEF Recency!Put, Recency!Used
  <2>8. CacheInv'
    BY <1>1, <2>2, <2>3, <1>c DEF CacheInv
  <2> QED
    BY <2>6, <2>7, <2>8
<1> QED
  BY <1>2, <1>3

\* Keys that are left keep their data.
Shrinks ==
  /\ DOMAIN heap'.hash \subseteq DOMAIN heap.hash
  /\ Held(heap') = [j \in DOMAIN heap'.hash |-> Held(heap)[j]]

LEMMA RestStep ==
  ASSUME NEW q, Lists(heap, q), NEW g, NEW r, Rest(heap, g, r), Becomes(g),
         caller \in Callers, UNCHANGED caller
  PROVE  /\ CacheInv' /\ Shrinks /\ ~heap'.died
         /\ Chain' = Names(heap, r) /\ DOMAIN heap'.hash = Recency!ToSet(Names(heap, r))
<1>1. /\ Lists(g, r) /\ EndAt(g, r) /\ g.key = heap.key /\ g.data = heap.data
      /\ DOMAIN g.hash \subseteq DOMAIN heap.hash
      /\ \A k \in DOMAIN g.hash : g.hash[k] = heap.hash[k]
  BY DEF Rest
<1>2. /\ Lists(heap', r) /\ Chain' = Names(g, r)
      /\ Held(heap') = Held(g) /\ heap'.hash = g.hash /\ EndAt(heap', r)
  BY <1>1, BecomesLists
<1>3. Names(g, r) = Names(heap, r)
  BY <1>1 DEF Names
<1>4. DOMAIN g.hash = ToSet(Names(g, r))
  BY <1>1, NamesFacts
<1>5. Held(g) = [j \in DOMAIN g.hash |-> Held(heap)[j]]
  BY <1>1, HeldFacts DEF Held
<1>6. CacheInv'
  BY <1>2 DEF CacheInv
<1>7. ~heap'.died
  BY <1>2 DEF Lists
<1> QED
  BY <1>1, <1>2, <1>3, <1>4, <1>5, <1>6, <1>7 DEF Shrinks, ToSet, Recency!ToSet

LEMMA EvictStep ==
  ASSUME TrustedCallers, CacheInv, NEW k \in Keys, evict(k), UNCHANGED caller
  PROVE  CacheInv' /\ Recency!Evict(k) /\ Shrinks
<1>0. caller \in Callers /\ ~caller.uses_last
  BY CacheAssumption DEF CacheInv, TrustedCallers, evict
<1>1. PICK q : Lists(heap, q) /\ EndAt(heap, q)
  BY <1>0 DEF CacheInv
<1>i. Recency!InCache = DOMAIN heap.hash
  BY <1>1, ChainIs
<1>g. /\ Becomes(Evicted(heap, k)) /\ m_max_size' = m_max_size
      /\ answer' = IF heap'.died THEN {} ELSE DataOf(k)
  BY DEF evict
<1>2. \E r : Rest(heap, Evicted(heap, k), r) /\ Names(heap, r) = Recency!Without(k)
  <2>1. CASE k \in DOMAIN heap.hash
    <3>1. PICK p \in 1..Len(q) : k = heap.key[q[p]] /\ heap.hash[k] = q[p]
      BY <1>1, <2>1, ListedKey
    <3>2. Rest(heap, heap, q)
      BY <1>1 DEF Rest
    <3>3. Rest(heap, Evicted(heap, k), Dropped(q, p))
      BY <3>1, <3>2, EvictedRest
    <3>4. Names(heap, Dropped(q, p)) = Dropped(Names(heap, q), p)
      BY <1>1, NamesForms
    <3> QED
      BY <1>1, <3>1, <3>3, <3>4, ChainIs
  <2>2. CASE k \notin DOMAIN heap.hash
    <3>1. Evicted(heap, k) = heap
      BY <2>2 DEF Evicted, Exists
    <3>2. Rest(heap, heap, q)
      BY <1>1 DEF Rest
    <3> QED
      BY <1>1, <2>2, <3>1, <3>2, ChainIs
  <2> QED
    BY <2>1, <2>2
<1>3. PICK r : Rest(heap, Evicted(heap, k), r) /\ Names(heap, r) = Recency!Without(k)
  BY <1>2
<1>4. /\ CacheInv' /\ Shrinks /\ ~heap'.died
      /\ Chain' = Names(heap, r) /\ DOMAIN heap'.hash = Recency!ToSet(Names(heap, r))
  BY <1>0, <1>1, <1>3, <1>g, RestStep
<1>5. answer' = IF k \in Recency!InCache THEN {Held(heap)[k]} ELSE {}
  BY <1>4, <1>g, <1>i DEF DataOf, Exists
<1>6. Recency!Evict(k)
  BY <1>3, <1>4, <1>5, <1>g DEF Recency!Evict, Recency!KeepOnly, Shrinks
<1> QED
  BY <1>4, <1>6

LEMMA SetMaxSizeStep ==
  ASSUME TrustedCallers, CacheInv, NEW max \in MaxSizes, set_max_size(max), UNCHANGED caller
  PROVE  CacheInv' /\ Recency!SetMaxSize(max) /\ Shrinks
<1>0. caller \in Callers /\ (caller.evicts => ~caller.uses_last) /\ max \in Nat
  BY CacheAssumption DEF CacheInv, TrustedCallers
<1>1. PICK q : Lists(heap, q) /\ (caller.uses_last \/ EndAt(heap, q))
  BY DEF CacheInv
<1>g. /\ Becomes(Trimmed(heap, max)) /\ m_max_size' = max /\ answer' = {}
      /\ (caller.evicts \/ max = 0 \/ Size(heap) <= max)
  BY DEF set_max_size
<1>l. Len(q) \in Nat /\ Size(heap) = Len(q) /\ Len(Chain) = Len(q) /\ Chain \in Seq(Keys)
      /\ Chain = Names(heap, q) /\ Recency!InCache = DOMAIN heap.hash
  BY <1>1, SizeIs, ChainIs
<1>2. CASE EndAt(heap, q)
  <2> DEFINE m == IF max # 0 /\ max < Len(q) THEN max ELSE Len(q)
  <2>1. Rest(heap, Trimmed(heap, max), First(q, m))
    BY <1>0, <1>1, <1>2, TrimmedRest
  <2>2. m \in 0..Len(q)
    BY <1>0, <1>l
  <2>3. Names(heap, First(q, m)) = First(Chain, m)
    <3> HIDE DEF m
    <3> QED
      BY <1>1, <1>l, <2>2, NamesForms
  <2>4. First(Chain, m) = IF max # 0 /\ max < Len(Chain) THEN SubSeq(Chain, 1, max) ELSE Chain
    <3>1. SubSeq(Chain, 1, m) = First(Chain, m)
      <4> HIDE DEF m
      <4> QED
        BY <1>l, <2>2, SequenceForms
    <3>2. First(Chain, Len(Chain)) = Chain
      BY <1>l DEF First
    <3> QED
      BY <1>l, <3>1, <3>2
  <2>5. /\ CacheInv' /\ Shrinks
        /\ Chain' = First(Chain, m) /\ DOMAIN heap'.hash = Recency!ToSet(First(Chain, m))
    <3> HIDE DEF m
    <3> QED
      BY <1>0, <1>1, <1>g, <2>1, <2>3, RestStep
  <2>6. Recency!SetMaxSize(max)
    BY <2>4, <2>5, <1>g DEF Recency!SetMaxSize, Recency!KeepOnly, Shrinks
  <2> QED
    BY <2>5, <2>6
<1>3. CASE ~EndAt(heap, q)
  <2>1. max = 0 \/ Len(q) <= max
    BY <1>0, <1>1, <1>3, <1>g, <1>l
  <2>2. Becomes(heap)
    BY <1>0, <1>1, <1>g, <1>l, <2>1, TrimmedNone
  <2>3. /\ Lists(heap', q) /\ Chain' = Names(heap, q)
        /\ Held(heap') = Held(heap) /\ heap'.hash = heap.hash
        /\ (EndAt(heap, q) => EndAt(heap', q))
    BY <1>1, <2>2, BecomesLists
  <2>4. CacheInv'
    BY <1>0, <1>1, <1>3, <2>3 DEF CacheInv
  <2>5. Held(heap') = [j \in DOMAIN heap'.hash |-> Held(heap)[j]]
    BY <2>3 DEF Held
  <2>6. ~(max # 0 /\ max < Len(Chain))
    BY <1>0, <1>l, <2>1
  <2>7. Recency!ToSet(Chain) = DOMAIN heap'.hash
    BY <1>l, <2>3 DEF Recency!InCache
  <2>8. Recency!SetMaxSize(max)
    BY <1>l, <2>3, <2>5, <2>6, <2>7, <1>g DEF Recency!SetMaxSize, Recency!KeepOnly
  <2> QED
    BY <2>3, <2>4, <2>5, <2>8 DEF Shrinks
<1> QED
  BY <1>2, <1>3

LEMMA FlushStep ==
  ASSUME TrustedCallers, CacheInv, flush, UNCHANGED caller
  PROVE  CacheInv' /\ Recency!Flush /\ Shrinks
<1>0. caller \in Callers /\ ~caller.uses_last
  BY CacheAssumption DEF CacheInv, TrustedCallers, flush
<1>1. PICK q : Lists(heap, q) /\ EndAt(heap, q)
  BY <1>0 DEF CacheInv
<1>g. Becomes(Flushed(heap)) /\ answer' = {} /\ m_max_size' = m_max_size
  BY DEF flush
<1>2. Rest(heap, Flushed(heap), <<>>)
  BY <1>1, FlushedRest
<1>3. Names(heap, <<>>) = <<>>
  BY DEF Names
<1>4. /\ CacheInv' /\ Shrinks
      /\ Chain' = <<>> /\ DOMAIN heap'.hash = Recency!ToSet(<<>>)
  BY <1>0, <1>1, <1>2, <1>3, <1>g, RestStep
<1>5. Recency!Flush
  BY <1>4, <1>g DEF Recency!Flush, Recency!KeepOnly, Shrinks
<1> QED
  BY <1>4, <1>5

-----------------------------------------------------------------------------
(* The specification. *)

\* What is compiled is what the cache holds, each of it from a key and a deglob
\* that compile.
Owned ==
  owner = "matcher" =>
    /\ \A d \in DOMAIN compiled : \E k \in DOMAIN heap.hash : d = Held(heap)[k]
    /\ \A k \in DOMAIN heap.hash :
         /\ Held(heap)[k] \in DOMAIN compiled
         /\ \E g \in Deglobs : /\ <<k, g>> \in Correct
                               /\ compiled[Held(heap)[k]] = [re |-> k, deglob |-> g]
    /\ \A j, k \in DOMAIN heap.hash : Held(heap)[j] = Held(heap)[k] => j = k

Inv == CacheInv /\ Owned

LEMMA InitInv == RegexInit => Inv /\ Recency!Init /\ SameAnswer
<1> SUFFICES ASSUME RegexInit PROVE Inv /\ Recency!Init /\ SameAnswer
  OBVIOUS
<1>1. heap = EmptyHeap /\ caller \in Callers /\ compiled = <<>>
      /\ asked = [re |-> Null, deglob |-> 0, found |-> {}]
      /\ m_max_size \in MaxSizes /\ answer = {}
  BY DEF RegexInit, Init
<1>2. /\ heap.hash = <<>> /\ heap.begin = Null /\ heap.last = Null /\ heap.died = FALSE
      /\ heap.key = [n \in Nodes |-> Null] /\ heap.data = [n \in Nodes |-> Null]
      /\ heap.prev = [n \in Nodes |-> Null] /\ heap.next = [n \in Nodes |-> Null]
  BY <1>1 DEF EmptyHeap
<1>3. DOMAIN <<>> = {} /\ Len(<<>>) = 0 /\ <<>> \in Seq(Nodes)
  OBVIOUS
<1>4. Shape(heap)
  <2>1. heap = [hash |-> heap.hash, begin |-> heap.begin, last |-> heap.last,
                died |-> heap.died, key |-> heap.key, data |-> heap.data,
                prev |-> heap.prev, next |-> heap.next]
    BY <1>1 DEF EmptyHeap
  <2>2. heap.hash = [k \in DOMAIN heap.hash |-> heap.hash[k]]
    BY <1>2, <1>3
  <2> QED
    BY <1>2, <2>1, <2>2 DEF Shape
<1>5. Lists(heap, <<>>) /\ EndAt(heap, <<>>)
  <2>1. Distinct(<<>>) /\ Hashes(heap, <<>>) /\ Links(heap, <<>>) /\ EndIn(heap, <<>>)
    BY <1>2, <1>3 DEF Distinct, Hashes, Links, EndIn
  <2> QED
    BY <1>2, <1>3, <1>4, <2>1 DEF Lists, EndAt
<1>6. CacheInv
  BY <1>1, <1>5 DEF CacheInv
<1>7. Owned
  BY <1>1, <1>2, <1>3 DEF Owned
<1>8. Chain = <<>>
  BY <1>5, ChainIs DEF Names
<1>9. Held(heap) = <<>>
  BY <1>2, <1>3 DEF Held
<1>10. SameAnswer
  <2>1. <<Null, 0>> \notin Correct
    BY CacheAssumption, RegexAssumption
  <2> QED
    BY <1>1, <2>1 DEF SameAnswer
<1> QED
  BY <1>1, <1>6, <1>7, <1>8, <1>9, <1>10 DEF Inv, Recency!Init

\* Calls that evict.
LEMMA EvictionsStep ==
  ASSUME TrustedCallers, CacheInv, Evictions, UNCHANGED caller
  PROVE  CacheInv' /\ Recency!Next /\ Shrinks
<1>1. CASE \E k \in Keys : evict(k)
  BY <1>1, EvictStep DEF Recency!Next
<1>2. CASE \E max \in MaxSizes : set_max_size(max)
  BY <1>2, SetMaxSizeStep DEF Recency!Next
<1>3. CASE flush
  BY <1>3, FlushStep DEF Recency!Next
<1> QED
  BY <1>1, <1>2, <1>3 DEF Evictions

LEMMA EvictAndFreeStep ==
  ASSUME TrustedCallers, Inv, owner = "matcher", EvictAndFree, UNCHANGED <<caller, owner>>
  PROVE  Inv' /\ Recency!Next /\ UNCHANGED asked
<1> DEFINE D == DOMAIN heap.hash
           E == DOMAIN heap'.hash
           F == {Held(heap)[k] : k \in D \ E}
<1>1. Evictions /\ compiled' = Freed(F) /\ asked' = asked
  BY DEF EvictAndFree
<1>2. CacheInv' /\ Recency!Next /\ Shrinks
  BY <1>1, EvictionsStep DEF Inv
<1>3. E \subseteq D /\ \A k \in E : Held(heap')[k] = Held(heap)[k]
  BY <1>2 DEF Shrinks
<1>4. /\ \A d \in DOMAIN compiled : \E k \in D : d = Held(heap)[k]
      /\ \A k \in D : /\ Held(heap)[k] \in DOMAIN compiled
                      /\ \E g \in Deglobs : /\ <<k, g>> \in Correct
                                            /\ compiled[Held(heap)[k]] = [re |-> k, deglob |-> g]
      /\ \A j, k \in D : Held(heap)[j] = Held(heap)[k] => j = k
  BY DEF Inv, Owned
<1>5. DOMAIN compiled' = DOMAIN compiled \ F /\ \A d \in DOMAIN compiled' : compiled'[d] = compiled[d]
  BY <1>1 DEF Freed
<1>6. \A k \in E : Held(heap)[k] \notin F
  BY <1>3, <1>4
<1>7. \A d \in DOMAIN compiled \ F : \E k \in E : d = Held(heap)[k]
  BY <1>4
<1> HIDE DEF D, E, F
<1>8. /\ \A d \in DOMAIN compiled' : \E k \in E : d = Held(heap')[k]
      /\ \A k \in E :
           /\ Held(heap')[k] \in DOMAIN compiled'
           /\ \E g \in Deglobs : /\ <<k, g>> \in Correct
                                 /\ compiled'[Held(heap')[k]] = [re |-> k, deglob |-> g]
      /\ \A j, k \in E : Held(heap')[j] = Held(heap')[k] => j = k
  <2>1. \A d \in DOMAIN compiled' : \E k \in E : d = Held(heap')[k]
    BY <1>3, <1>5, <1>7
  <2>2. \A j, k \in E : Held(heap')[j] = Held(heap')[k] => j = k
    BY <1>3, <1>4
  <2>3. ASSUME NEW k \in E
        PROVE  /\ Held(heap')[k] \in DOMAIN compiled'
               /\ \E g \in Deglobs : /\ <<k, g>> \in Correct
                                     /\ compiled'[Held(heap')[k]] = [re |-> k, deglob |-> g]
    <3>1. k \in D /\ Held(heap')[k] = Held(heap)[k] /\ Held(heap)[k] \notin F
      BY <1>3, <1>6
    <3>2. Held(heap)[k] \in DOMAIN compiled'
      BY <3>1, <1>4, <1>5
    <3>3. compiled'[Held(heap)[k]] = compiled[Held(heap)[k]]
      BY <3>2, <1>5
    <3> QED
      BY <3>1, <3>2, <3>3, <1>4
  <2> QED
    BY <2>1, <2>2, <2>3
<1>9. Owned'
  BY <1>8 DEF Owned, E
<1> QED
  BY <1>1, <1>2, <1>9 DEF Inv

\* There is a handle for another expression.
LEMMA NewHandleIsNew ==
  ASSUME Inv, owner = "matcher"
  PROVE  NewHandle \in Data \ DOMAIN compiled
<1> DEFINE D == DOMAIN heap.hash
<1>1. /\ \A d \in DOMAIN compiled : \E k \in D : d = Held(heap)[k]
      /\ \A k \in D : Held(heap)[k] \in DOMAIN compiled
  BY DEF Inv, Owned
<1>2. D \subseteq Keys
  BY DEF Inv, CacheInv, Lists, Hashes
<1>3. IsFiniteSet(D) /\ Cardinality(D) <= Cardinality(Keys)
  BY <1>2, FS_Subset, CacheAssumption
<1>4. Held(heap) \in Surjection(D, DOMAIN compiled)
  <2>1. Held(heap) \in [D -> DOMAIN compiled]
    BY <1>1 DEF Held
  <2> QED
    BY <1>1, <2>1 DEF Surjection
<1>5. IsFiniteSet(DOMAIN compiled) /\ Cardinality(DOMAIN compiled) <= Cardinality(D)
  BY <1>3, <1>4, FS_Surjection
<1>6. ASSUME Data \ DOMAIN compiled = {} PROVE FALSE
  <2>1. Data \subseteq DOMAIN compiled
    BY <1>6
  <2>2. Cardinality(Data) <= Cardinality(DOMAIN compiled)
    BY <1>5, <2>1, FS_Subset
  <2>3. /\ Cardinality(Data) \in Nat /\ Cardinality(Keys) \in Nat /\ Cardinality(D) \in Nat
        /\ Cardinality(DOMAIN compiled) \in Nat
    BY <1>3, <1>5, FS_CardinalityType, CacheAssumption, RegexAssumption
  <2>4. Cardinality(Keys) < Cardinality(Data)
    BY RegexAssumption
  <2> QED
    BY <1>3, <1>5, <2>2, <2>3, <2>4
<1>7. Data \ DOMAIN compiled \in SUBSET Nat
  BY RegexAssumption
<1> QED
  BY <1>6, <1>7, Least DEF NewHandle

\* A match with an expression that is in the cache.
LEMMA HitStep ==
  ASSUME Inv, owner = "matcher", NEW re \in Keys, NEW deglob \in Deglobs, Hit(re, deglob),
         UNCHANGED <<caller, owner>>
  PROVE  /\ Inv' /\ Recency!Next
         /\ \E g \in Deglobs : /\ <<re, g>> \in Correct
                               /\ asked' = [re |-> re, deglob |-> deglob,
                                            found |-> {[re |-> re, deglob |-> g]}]
<1>1. /\ re \in DOMAIN heap.hash /\ get(re) /\ compiled' = compiled
      /\ asked' = [re |-> re, deglob |-> deglob, found |-> Exec(Held(heap)[re])]
  BY DEF Hit, Exists
<1>2. CacheInv' /\ Recency!Get(re) /\ Held(heap') = Held(heap)
  BY <1>1, GetStep DEF Inv
<1>3. DOMAIN heap'.hash = DOMAIN heap.hash
  BY <1>2, HeldFacts
<1>4. Owned'
  BY <1>1, <1>2, <1>3 DEF Inv, Owned
<1>5. PICK g \in Deglobs : /\ <<re, g>> \in Correct /\ Held(heap)[re] \in DOMAIN compiled
                           /\ compiled[Held(heap)[re]] = [re |-> re, deglob |-> g]
  BY <1>1 DEF Inv, Owned
<1>6. Exec(Held(heap)[re]) = {[re |-> re, deglob |-> g]}
  BY <1>5 DEF Exec
<1> QED
  BY <1>1, <1>2, <1>4, <1>5, <1>6 DEF Inv, Recency!Next

\* A match with one that is not.
LEMMA MissStep ==
  ASSUME Inv, owner = "matcher", NEW re \in Keys, NEW deglob \in Deglobs, Miss(re, deglob),
         UNCHANGED <<caller, owner>>
  PROVE  /\ Inv' /\ (Recency!Next \/ UNCHANGED Recency!vars)
         /\ asked' = [re |-> re, deglob |-> deglob,
                      found |-> IF <<re, deglob>> \in Correct
                                THEN {[re |-> re, deglob |-> deglob]} ELSE {}]
<1>0. re \notin DOMAIN heap.hash
  BY DEF Miss, Exists
<1>1. CASE <<re, deglob>> \in Correct
  <2> DEFINE n == NewHandle
             D == DOMAIN heap.hash
             rec == [re |-> re, deglob |-> deglob]
  <2>1. /\ put(re, n) /\ asked' = [re |-> re, deglob |-> deglob, found |-> {rec}]
        /\ compiled' = Allocated(n, rec)
    BY <1>1 DEF Miss
  <2>n. n \in Data \ DOMAIN compiled
    BY NewHandleIsNew
  <2>2. /\ DOMAIN compiled' = DOMAIN compiled \cup {n} /\ compiled'[n] = rec
        /\ \A d \in DOMAIN compiled : compiled'[d] = compiled[d]
    <3> HIDE DEF n, rec
    <3>1. compiled' = [d \in DOMAIN compiled \cup {n} |-> IF d = n THEN rec ELSE compiled[d]]
      BY <2>1 DEF Allocated
    <3> QED
      BY <3>1, <2>n
  <2> HIDE DEF n
  <2>3. /\ CacheInv' /\ Recency!Put(re, n)
        /\ Held(heap') = [j \in D \cup {re} |-> IF j = re THEN n ELSE Held(heap)[j]]
    BY <2>1, PutStep DEF Inv
  <2>4. /\ DOMAIN heap'.hash = D \cup {re} /\ Held(heap')[re] = n
        /\ \A j \in D : Held(heap')[j] = Held(heap)[j]
    BY <2>3, <1>0, HeldFacts
  <2>5. /\ \A d \in DOMAIN compiled : \E k \in D : d = Held(heap)[k]
        /\ \A k \in D : /\ Held(heap)[k] \in DOMAIN compiled
                        /\ \E g \in Deglobs : /\ <<k, g>> \in Correct
                                              /\ compiled[Held(heap)[k]] = [re |-> k, deglob |-> g]
        /\ \A j, k \in D : Held(heap)[j] = Held(heap)[k] => j = k
    BY DEF Inv, Owned
  <2> HIDE DEF D, rec
  <2>6. \A d \in DOMAIN compiled' : \E k \in DOMAIN heap'.hash : d = Held(heap')[k]
    BY <2>2, <2>4, <2>5
  <2>7. ASSUME NEW k \in DOMAIN heap'.hash
        PROVE  /\ Held(heap')[k] \in DOMAIN compiled'
               /\ \E g \in Deglobs : /\ <<k, g>> \in Correct
                                     /\ compiled'[Held(heap')[k]] = [re |-> k, deglob |-> g]
    <3>1. CASE k = re
      BY <3>1, <1>1, <2>2, <2>4 DEF rec
    <3>2. CASE k \in D
      <4>1. Held(heap')[k] = Held(heap)[k] /\ Held(heap)[k] \in DOMAIN compiled
        BY <3>2, <2>4, <2>5
      <4>2. compiled'[Held(heap)[k]] = compiled[Held(heap)[k]]
        BY <4>1, <2>2
      <4> QED
        BY <3>2, <4>1, <4>2, <2>2, <2>5
    <3> QED
      BY <3>1, <3>2, <2>4
  <2>8. \A j, k \in DOMAIN heap'.hash : Held(heap')[j] = Held(heap')[k] => j = k
    <3> SUFFICES ASSUME NEW j \in DOMAIN heap'.hash, NEW k \in DOMAIN heap'.hash,
                        Held(heap')[j] = Held(heap')[k]
                 PROVE  j = k
      OBVIOUS
    <3>1. \A i \in D : Held(heap')[i] # n
      BY <2>4, <2>5, <2>n DEF n
    <3>2. CASE j = re \/ k = re
      BY <3>1, <3>2, <2>4
    <3>3. CASE j \in D /\ k \in D
      BY <3>3, <2>4, <2>5
    <3> QED
      BY <3>2, <3>3, <2>4
  <2>9. Owned'
    BY <2>6, <2>7, <2>8 DEF Owned
  <2>10. n \in Data
    BY <2>n DEF n
  <2> QED
    BY <1>1, <2>1, <2>3, <2>9, <2>10 DEF Inv, Recency!Next, rec
<1>2. CASE <<re, deglob>> \notin Correct
  <2>1. /\ asked' = [re |-> re, deglob |-> deglob, found |-> {}]
        /\ heap' = heap /\ m_max_size' = m_max_size /\ answer' = answer /\ compiled' = compiled
    BY <1>2 DEF Miss, cacheVars
  <2>2. Inv'
    BY <2>1 DEF Inv, CacheInv, Owned
  <2>3. UNCHANGED Recency!vars
    BY <2>1 DEF Recency!vars, Chain
  <2> QED
    BY <1>2, <2>1, <2>2, <2>3
<1> QED
  BY <1>1, <1>2

\* A call by a testbench.
LEMMA TestbenchStep ==
  ASSUME TrustedCallers, Inv, Testbench, UNCHANGED <<caller, owner>>
  PROVE  Inv' /\ Recency!Next /\ UNCHANGED asked
<1>0. CacheInv /\ owner = "testbench" /\ owner' = owner /\ CacheCall
      /\ asked' = asked /\ caller' = caller
  BY DEF Inv, Testbench
<1>1. CacheInv' /\ Recency!Next
  <2>1. ASSUME NEW k \in Keys, get(k) PROVE CacheInv' /\ Recency!Next
    BY <2>1, <1>0, GetStep DEF Recency!Next
  <2>2. ASSUME NEW k \in Keys, NEW d \in Stored, put(k, d) PROVE CacheInv' /\ Recency!Next
    <3>1. d \in Data
      BY CacheAssumption
    <3> QED
      BY <3>1, <2>2, <1>0, PutStep DEF Recency!Next
  <2>3. CASE Evictions
    BY <2>3, <1>0, EvictionsStep
  <2> QED
    BY <1>0, <2>1, <2>2, <2>3 DEF CacheCall
<1>2. Owned'
  BY <1>0 DEF Owned
<1> QED
  BY <1>0, <1>1, <1>2 DEF Inv

\* What a match answers: by compiling, or with what was compiled for g.
AnswersAnew(re, deglob) ==
  asked' = [re |-> re, deglob |-> deglob,
            found |-> IF <<re, deglob>> \in Correct
                      THEN {[re |-> re, deglob |-> deglob]} ELSE {}]
AnswersFromCache(re, deglob) ==
  \E g \in Deglobs : /\ <<re, g>> \in Correct
                     /\ asked' = [re |-> re, deglob |-> deglob,
                                  found |-> {[re |-> re, deglob |-> g]}]

LEMMA NextInv ==
  ASSUME TrustedCallers, Inv, [Next]_vars
  PROVE  /\ Inv' /\ (Recency!Next \/ UNCHANGED Recency!vars)
         /\ \/ UNCHANGED asked
            \/ \E re \in Keys, deglob \in Deglobs :
                 AnswersAnew(re, deglob) \/ AnswersFromCache(re, deglob)
<1>1. CASE Matcher /\ UNCHANGED <<caller, owner>>
  <2>1. CASE EvictAndFree
    BY <1>1, <2>1, EvictAndFreeStep DEF Matcher
  <2>2. ASSUME NEW re \in Keys, NEW deglob \in Deglobs, Hit(re, deglob)
        PROVE  Inv' /\ Recency!Next /\ AnswersFromCache(re, deglob)
    BY <1>1, <2>2, HitStep DEF Matcher, AnswersFromCache
  <2>3. ASSUME NEW re \in Keys, NEW deglob \in Deglobs, Miss(re, deglob)
        PROVE  Inv' /\ (Recency!Next \/ UNCHANGED Recency!vars) /\ AnswersAnew(re, deglob)
    BY <1>1, <2>3, MissStep DEF Matcher, AnswersAnew
  <2>4. EvictAndFree \/ \E re \in Keys, deglob \in Deglobs : Hit(re, deglob) \/ Miss(re, deglob)
    BY <1>1 DEF Matcher, uvm_re_match
  <2> QED
    BY <2>1, <2>2, <2>3, <2>4
<1>2. CASE Testbench /\ UNCHANGED <<caller, owner>>
  BY <1>2, TestbenchStep
<1>3. CASE UNCHANGED vars
  <2>1. /\ heap' = heap /\ m_max_size' = m_max_size /\ answer' = answer
        /\ compiled' = compiled /\ asked' = asked /\ caller' = caller /\ owner' = owner
    BY <1>3 DEF vars, cacheVars
  <2>2. Inv'
    BY <2>1 DEF Inv, CacheInv, Owned
  <2>3. UNCHANGED Recency!vars
    BY <2>1 DEF Recency!vars, Chain
  <2> QED
    BY <2>1, <2>2, <2>3
<1> QED
  BY <1>1, <1>2, <1>3 DEF Next

\* The invariant holds for callers who do not mix the two.
LEMMA SpecInv ==
  ASSUME TrustedCallers
  PROVE  Spec => []Inv
<1>1. RegexInit => Inv
  BY InitInv
<1>2. Inv /\ [Next]_vars => Inv'
  BY NextInv
<1> QED
  BY <1>1, <1>2, PTL DEF Spec

\* No call follows a null reference, whatever keys, sizes and nodes there are.
THEOREM CallsReturnCorrect ==
  ASSUME TrustedCallers
  PROVE  Spec => []CallsReturn
<1>1. Inv => CallsReturn
  BY DEF Inv, CacheInv, Lists, CallsReturn
<1> QED
  BY <1>1, SpecInv, PTL

\* The hash, the list read in both directions and m_end agree at every call.
THEOREM ListIntactCorrect ==
  ASSUME TrustedCallers
  PROVE  Spec => []ListIntact
<1>1. ASSUME Inv PROVE ListIntact
  <2>1. PICK q : Lists(heap, q) /\ (caller.uses_last \/ EndAt(heap, q))
    BY <1>1 DEF Inv, CacheInv
  <2>2. /\ Chain = Names(heap, q) /\ Len(Chain) = Len(q) /\ Chain \in Seq(Keys)
    BY <2>1, ChainIs
  <2>3. /\ Distinct(Chain) /\ DOMAIN Chain = 1..Len(q) /\ DOMAIN heap.hash = ToSet(Chain)
        /\ \A i \in 1..Len(q) : heap.hash[Chain[i]] = q[i]
    BY <2>1, <2>2, NamesFacts
  <2> DEFINE at == [i \in DOMAIN Chain |-> heap.hash[Chain[i]]]
  <2>4. q \in Seq(Nodes) /\ Len(q) \in Nat /\ Links(heap, q)
    BY <2>1 DEF Lists
  <2>5. at = q
    <3>1. q = [i \in 1..Len(q) |-> q[i]]
      BY <2>4
    <3> QED
      BY <2>3, <3>1
  <2> HIDE DEF at
  <2>6. IsInjective(Chain)
    BY <2>2, <2>3 DEF IsInjective, Distinct
  <2>7. Chain = <<>> <=> Len(q) = 0
    BY <2>2
  <2>8. ~caller.uses_last => heap.last = IF Chain = <<>> THEN Null ELSE Last(at)
    BY <2>1, <2>5, <2>7 DEF EndAt, Last
  <2>9. \A i \in DOMAIN at : heap.prev[at[i]] = IF i = 1 THEN Null ELSE at[i - 1]
    <3>1. DOMAIN q = 1..Len(q)
      BY <2>4
    <3> QED
      BY <2>4, <2>5, <3>1 DEF Links
  <2> QED
    BY <2>3, <2>6, <2>8, <2>9 DEF ListIntact, at
<1> QED
  BY <1>1, SpecInv, PTL

\* What is compiled is freed when, and only when, it leaves the cache.
THEOREM HandlesOwnedCorrect ==
  ASSUME TrustedCallers
  PROVE  Spec => []HandlesOwned
<1>1. ASSUME Inv, owner = "matcher"
      PROVE  DOMAIN compiled = {Held(heap)[k] : k \in DOMAIN heap.hash} /\ IsInjective(Held(heap))
  <2>1. /\ \A d \in DOMAIN compiled : \E k \in DOMAIN heap.hash : d = Held(heap)[k]
        /\ \A k \in DOMAIN heap.hash : Held(heap)[k] \in DOMAIN compiled
        /\ \A j, k \in DOMAIN heap.hash : Held(heap)[j] = Held(heap)[k] => j = k
    BY <1>1 DEF Inv, Owned
  <2>2. DOMAIN Held(heap) = DOMAIN heap.hash
    BY HeldFacts
  <2> QED
    BY <2>1, <2>2 DEF IsInjective
<1>2. Inv => HandlesOwned
  BY <1>1 DEF HandlesOwned
<1> QED
  BY <1>2, SpecInv, PTL

\* An expression is used as a glob or as a regular expression, not as both: the
\* cache does not tell them apart.
OneDeglob == \A d, e \in Deglobs : d = e

\* Matching answers as without the cache.
THEOREM SameAnswerCorrect ==
  ASSUME TrustedCallers, OneDeglob
  PROVE  Spec => []SameAnswer
<1>1. RegexInit => SameAnswer
  BY InitInv
<1>2. ASSUME Inv, SameAnswer, [Next]_vars PROVE SameAnswer'
  <2>1. CASE UNCHANGED asked
    BY <1>2, <2>1 DEF SameAnswer
  <2>2. ASSUME NEW re \in Keys, NEW deglob \in Deglobs,
               AnswersAnew(re, deglob)
        PROVE  SameAnswer'
    BY <2>2 DEF SameAnswer, AnswersAnew
  <2>3. ASSUME NEW re \in Keys, NEW deglob \in Deglobs, AnswersFromCache(re, deglob)
        PROVE  SameAnswer'
    <3>1. PICK g \in Deglobs : /\ <<re, g>> \in Correct
                               /\ asked' = [re |-> re, deglob |-> deglob,
                                            found |-> {[re |-> re, deglob |-> g]}]
      BY <2>3 DEF AnswersFromCache
    <3>2. g = deglob
      BY OneDeglob DEF OneDeglob
    <3> QED
      BY <3>1, <3>2 DEF SameAnswer
  <2> QED
    BY <1>2, <2>1, <2>2, <2>3, NextInv
<1> QED
  BY <1>1, <1>2, SpecInv, PTL DEF Spec

\* The cache is the least recently used cache: its list is the order of use.
THEOREM KeepsRecencyCorrect ==
  ASSUME TrustedCallers
  PROVE  Spec => KeepsRecency
<1>1. RegexInit => Recency!Init
  BY InitInv
<1>2. Inv /\ [Next]_vars => [Recency!Next]_(Recency!vars)
  BY NextInv
<1> QED
  BY <1>1, <1>2, SpecInv, PTL DEF Spec, KeepsRecency, Recency!Spec
=============================================================================
