---------------------------- MODULE RecencyCache ----------------------------
(***************************************************************************)
(* What a least recently used cache is for its callers: keys in the order  *)
(* of their last use, the most recent first, each with its data.  Lowering *)
(* the maximal size drops keys from the far end.  Putting drops nothing:   *)
(* this is the cache that uvm_lru_cache is, not the one its comment on put *)
(* describes.                                                              *)
(***************************************************************************)
EXTENDS Naturals, Sequences, SequencesExt

CONSTANTS Keys, Data, MaxSizes

VARIABLES order, data, max_size, answer

vars == <<order, data, max_size, answer>>

InCache == ToSet(order)

\* The keys without k, if it is one of them.
Without(k) ==
  IF k \in InCache THEN RemoveAt(order, CHOOSE i \in DOMAIN order : order[i] = k) ELSE order

Used(k) == order' = <<k>> \o Without(k)

Get(k) ==
  /\ IF k \in InCache
     THEN Used(k) /\ answer' = {data[k]}
     ELSE UNCHANGED order /\ answer' = {}
  /\ UNCHANGED <<data, max_size>>

Put(k, d) ==
  /\ Used(k)
  /\ data' = [j \in InCache \cup {k} |-> IF j = k THEN d ELSE data[j]]
  /\ answer' = {}
  /\ UNCHANGED max_size

\* Only the keys in q are left.
KeepOnly(q) ==
  /\ order' = q
  /\ data' = [j \in ToSet(q) |-> data[j]]

Evict(k) ==
  /\ KeepOnly(Without(k))
  /\ answer' = IF k \in InCache THEN {data[k]} ELSE {}
  /\ UNCHANGED max_size

SetMaxSize(n) ==
  /\ max_size' = n
  /\ KeepOnly(IF n # 0 /\ n < Len(order) THEN SubSeq(order, 1, n) ELSE order)
  /\ answer' = {}

Flush == KeepOnly(<<>>) /\ answer' = {} /\ UNCHANGED max_size

Init == order = <<>> /\ data = <<>> /\ max_size \in MaxSizes /\ answer = {}

Next ==
  \/ \E k \in Keys : Get(k) \/ Evict(k) \/ \E d \in Data : Put(k, d)
  \/ \E n \in MaxSizes : SetMaxSize(n)
  \/ Flush

Spec == Init /\ [][Next]_vars
=============================================================================
