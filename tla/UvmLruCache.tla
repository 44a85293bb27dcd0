----------------------------- MODULE UvmLruCache -----------------------------
(***************************************************************************)
(* uvm_lru_cache (base/uvm_lru_cache.svh, base/uvm_cache.svh): a hash from *)
(* keys to the nodes of a doubly linked list, kept in the order of use.    *)
(* Every call is one step.  Following a null reference ends the simulation *)
(* (died).                                                                 *)
(***************************************************************************)
EXTENDS Integers, FiniteSets, SequencesExt

CONSTANTS
  Keys, Data,
  Stored,          \* the data that a caller of its own puts
  Nodes,           \* nodes that are made: more than there are keys
  Null,
  MaxSizes,        \* arguments of set_max_size, and initial maximal sizes
  Callers          \* what callers may do with a cache: use the last key of
                   \* several (uses_last), have keys evicted (evicts)

ASSUME CacheAssumption ==
  /\ Keys \subseteq Nat /\ Nodes \subseteq Nat /\ Null \notin Keys \cup Nodes
  /\ IsFiniteSet(Nodes) /\ IsFiniteSet(Keys) /\ Cardinality(Keys) < Cardinality(Nodes)
  /\ Stored \subseteq Data /\ MaxSizes \subseteq Nat
  /\ Callers \subseteq [uses_last : BOOLEAN, evicts : BOOLEAN]

VARIABLES
  heap,            \* m_hash, m_begin, m_end and the nodes
  m_max_size,
  answer,          \* what the last call returned: the data, or nothing
  caller           \* who has the cache; never changed

cacheVars == <<heap, m_max_size, answer>>

-----------------------------------------------------------------------------
(* The list. *)

EmptyHeap ==
  [hash |-> <<>>, begin |-> Null, last |-> Null, died |-> FALSE,
   key |-> [n \in Nodes |-> Null], data |-> [n \in Nodes |-> Null],
   prev |-> [n \in Nodes |-> Null], next |-> [n \in Nodes |-> Null]]

Exists(h, k) == k \in DOMAIN h.hash

Dies(h) == [h EXCEPT !.died = TRUE]

\* Node n becomes the head.  m_end is not looked at.
m_update(h, n) ==
  IF h.begin = n THEN h
  ELSE IF h.prev[n] = Null THEN Dies(h)
  ELSE [h EXCEPT
          !.next = [@ EXCEPT ![h.prev[n]] = h.next[n], ![n] = h.begin],
          !.prev = [m \in Nodes |-> IF m = n THEN Null
                                    ELSE IF m = h.begin THEN n
                                    ELSE IF m = h.next[n] THEN h.prev[n] ELSE @[m]],
          !.begin = n]

\* Nodes that nothing refers to.
Referred(h) ==
  LET held == {h.hash[k] : k \in DOMAIN h.hash} \cup ({h.begin, h.last} \ {Null})
  IN held \cup {h.prev[n] : n \in held} \cup {h.next[n] : n \in held}
NewNode(h) == CHOOSE n \in Nodes \ Referred(h) : \A m \in Nodes \ Referred(h) : n <= m

Fault_Added(h, k, d) ==                \* m_end is not set for the first node
  LET n == NewNode(h)
  IN [h EXCEPT
        !.hash = [j \in DOMAIN @ \cup {k} |-> IF j = k THEN n ELSE @[j]],
        !.key[n] = k, !.data[n] = d, !.next[n] = h.begin,
        !.prev = [m \in Nodes |-> IF m = n THEN Null ELSE IF m = h.begin THEN n ELSE @[m]],
        !.begin = n]
Added(h, k, d) ==
  LET n == NewNode(h)
  IN [h EXCEPT
        !.hash = [j \in DOMAIN @ \cup {k} |-> IF j = k THEN n ELSE @[j]],
        !.key[n] = k, !.data[n] = d,
        !.next[n] = h.begin,
        !.prev = [m \in Nodes |-> IF m = n THEN Null ELSE IF m = h.begin THEN n ELSE @[m]],
        !.begin = n,
        !.last = IF h.begin = Null THEN n ELSE @]

Fault_Evicted(h, k) ==                 \* the list does not close behind the last
  LET n == h.hash[k]
  IN IF ~Exists(h, k) THEN h
     ELSE [h EXCEPT
             !.hash = [j \in DOMAIN @ \ {k} |-> @[j]],
             !.begin = IF h.begin = n THEN h.next[n] ELSE @,
             !.next  = IF h.begin = n THEN @ ELSE [@ EXCEPT ![h.prev[n]] = h.next[n]],
             !.prev  = IF h.last = n THEN @ ELSE [@ EXCEPT ![h.next[n]] = h.prev[n]]]
Evicted(h, k) ==
  LET n     == h.hash[k]
      first == h.begin = n
      last  == h.last = n
  IN IF ~Exists(h, k) THEN h
     ELSE IF (~first /\ h.prev[n] = Null) \/ (~last /\ h.next[n] = Null) THEN Dies(h)
     ELSE [h EXCEPT
             !.hash  = [j \in DOMAIN @ \ {k} |-> @[j]],
             !.begin = IF first THEN h.next[n] ELSE @,
             !.last  = IF last THEN h.prev[n] ELSE @,
             !.next  = IF first THEN @ ELSE [@ EXCEPT ![h.prev[n]] = h.next[n]],
             !.prev  = IF last THEN @ ELSE [@ EXCEPT ![h.next[n]] = h.prev[n]]]

Size(h) == Cardinality(DOMAIN h.hash)

\* The data by key.
Held(h) == [k \in DOMAIN h.hash |-> h.data[h.hash[k]]]

\* One turn of the loop in evict_to_max: the last key goes.
Fault_EvictLast(h, max) ==             \* max itself is too many
  IF h.died \/ max = 0 \/ Size(h) < max THEN h
  ELSE IF h.last = Null THEN Dies(h) ELSE Evicted(h, h.key[h.last])
EvictLast(h, max) ==
  IF h.died \/ max = 0 \/ Size(h) <= max THEN h
  ELSE IF h.last = Null THEN Dies(h) ELSE Evicted(h, h.key[h.last])

\* evict_to_max: again and again, for ever if that removes none.
Trimmed(h, max) ==
  LET after[i \in 0..Size(h)] == IF i = 0 THEN h ELSE EvictLast(after[i - 1], max)
      rest == after[Size(h)]
  IN IF max # 0 /\ max < Size(rest) THEN Dies(rest) ELSE rest

\* One turn of the loop in flush, which has the keys in their order.
EvictFirst(h) ==
  IF h.died \/ DOMAIN h.hash = {} THEN h
  ELSE Evicted(h, CHOOSE k \in DOMAIN h.hash : \A j \in DOMAIN h.hash : k <= j)

Flushed(h) ==
  LET after[i \in 0..Size(h)] == IF i = 0 THEN h ELSE EvictFirst(after[i - 1])
  IN after[Size(h)]

-----------------------------------------------------------------------------
(* The calls. *)

MayUse(k) ==
  Exists(heap, k) => caller.uses_last \/ heap.hash[k] # heap.last \/ Size(heap) = 1

DataOf(k) == IF Exists(heap, k) THEN {Held(heap)[k]} ELSE {}

\* Nodes that nothing refers to are collected.  A call that dies leaves nothing
\* behind that could be looked at.
Collected(h) ==
  LET Kept(f) == [n \in Nodes |-> IF n \in Referred(h) THEN f[n] ELSE Null]
  IN [h EXCEPT !.key = Kept(@), !.data = Kept(@), !.prev = Kept(@), !.next = Kept(@)]
Becomes(h) == heap' = IF h.died THEN Dies(heap) ELSE Collected(h)

get(k) ==
  /\ MayUse(k)
  /\ Becomes(IF Exists(heap, k) THEN m_update(heap, heap.hash[k]) ELSE heap)
  /\ answer' = DataOf(k)
  /\ UNCHANGED m_max_size

put(k, d) ==
  /\ MayUse(k)
  /\ Becomes(IF Exists(heap, k)
             THEN [m_update(heap, heap.hash[k]) EXCEPT !.data[heap.hash[k]] = d]
             ELSE Added(heap, k, d))
  /\ answer' = {}
  /\ UNCHANGED m_max_size

evict(k) ==
  /\ caller.evicts
  /\ Becomes(Evicted(heap, k))
  /\ answer' = IF heap'.died THEN {} ELSE DataOf(k)
  /\ UNCHANGED m_max_size

set_max_size(max) ==
  /\ caller.evicts \/ max = 0 \/ Size(heap) <= max
  /\ m_max_size' = max
  /\ Becomes(Trimmed(heap, max))
  /\ answer' = {}

flush ==
  /\ caller.evicts
  /\ Becomes(Flushed(heap))
  /\ answer' = {}
  /\ UNCHANGED m_max_size

Init ==
  /\ heap = EmptyHeap
  /\ m_max_size \in MaxSizes
  /\ answer = {}
  /\ caller \in Callers

Evictions ==
  \/ \E k \in Keys : evict(k)
  \/ \E max \in MaxSizes : set_max_size(max)
  \/ flush

CacheCall ==
  /\ ~heap.died
  /\ \/ \E k \in Keys : get(k) \/ \E d \in Stored : put(k, d)
     \/ Evictions

-----------------------------------------------------------------------------
(* Properties. *)

\* The keys from m_begin on.
Listed(h) ==
  LET node[i \in 1..Cardinality(Nodes)] ==
        IF i = 1 THEN h.begin
        ELSE IF node[i - 1] = Null THEN Null ELSE h.next[node[i - 1]]
      len == Cardinality({i \in 1..Cardinality(Nodes) : node[i] # Null})
  IN [i \in 1..len |-> h.key[node[i]]]
Chain == Listed(heap)

\* The hash, the list read forwards, the list read backwards and m_end are
\* four accounts of the same keys, and no reference leads out of the list.
\* Using the last key leaves m_end behind.
ListIntact ==
  LET at == [i \in DOMAIN Chain |-> heap.hash[Chain[i]]]
  IN /\ DOMAIN heap.hash = ToSet(Chain) /\ IsInjective(Chain)
     /\ ~caller.uses_last => heap.last = IF Chain = <<>> THEN Null ELSE Last(at)
     /\ \A i \in DOMAIN at : heap.prev[at[i]] = IF i = 1 THEN Null ELSE at[i - 1]

\* The list is the keys in the order of their use, get and evict answer with
\* the data last put, and set_max_size drops the least recently used keys.
Recency == INSTANCE RecencyCache WITH
  order <- Chain,
  data  <- Held(heap),
  max_size <- m_max_size
KeepsRecency == Recency!Spec

\* "Evicts least recently used keys until size is less than or equal to max
\* size" (uvm_lru_cache.svh:122-123).
TrimsOldest ==
  [][ m_max_size' # m_max_size /\ ~heap'.died
        => Chain' = IF m_max_size' # 0 /\ m_max_size' < Len(Chain)
                    THEN SubSeq(Chain, 1, m_max_size') ELSE Chain ]_cacheVars

\* "If key exists within the cache, then the data is returned"
\* (uvm_lru_cache.svh:110-111): no call ends the simulation instead.
CallsReturn == ~heap.died
=============================================================================
