---------------------------- MODULE UvmRegexMatch ----------------------------
(***************************************************************************)
(* uvm_re_match as it is with UVM_ENABLE_RE_MATCH_CACHE (dpi/uvm_regex.    *)
(* svh): expressions that were compiled on the C side (uvm_regex.cc) stay  *)
(* there until the cache evicts them (base/uvm_regex_cache.svh).  Keys are *)
(* the expressions, data the handles of what they were compiled to.        *)
(*                                                                         *)
(* What matching finds is left to regcomp and regexec: an answer is the    *)
(* set of the [re, deglob] that the string was matched with, empty if it   *)
(* was matched with none and the answer is "no match".                     *)
(*                                                                         *)
(* A testbench may also make a cache of its own and call it.               *)
(***************************************************************************)
EXTENDS UvmLruCache

CONSTANTS
  Deglobs,         \* values of deglob that callers pass
  Correct          \* <<re, deglob>> that compile

ASSUME RegexAssumption ==
  /\ Deglobs \subseteq {0, 1} /\ Correct \subseteq Keys \X {0, 1}
  /\ Data \subseteq Nat /\ IsFiniteSet(Data) /\ Cardinality(Keys) < Cardinality(Data)

VARIABLES
  compiled,        \* the compiled expressions that are not freed, by handle
  asked,           \* the last match: what was asked and what was answered
  owner            \* "matcher", or "testbench" for a cache of its own

vars == <<cacheVars, compiled, asked, caller, owner>>

Freed(D) == [d \in DOMAIN compiled \ D |-> compiled[d]]

Allocated(e, rexp) ==
  [d \in DOMAIN compiled \cup {e} |-> IF d = e THEN rexp ELSE compiled[d]]

\* Memory that is free may be what malloc hands out next.
NewHandle == CHOOSE d \in Data \ DOMAIN compiled : \A e \in Data \ DOMAIN compiled : d <= e

\* uvm_re_exec; what it answers for a handle that is freed is not known.
Exec(d) == {IF d \in DOMAIN compiled THEN compiled[d] ELSE [re |-> Null, deglob |-> 0]}

Hit(re, deglob) ==
  /\ Exists(heap, re)
  /\ get(re)
  /\ asked' = [re |-> re, deglob |-> deglob,
               found |-> Exec(Held(heap)[re])]
  /\ UNCHANGED compiled

Fault_Miss(re, deglob) ==              \* compiled, executed, freed, and cached
  /\ ~Exists(heap, re)
  /\ <<re, deglob>> \in Correct /\ put(re, NewHandle)
  /\ asked' = [re |-> re, deglob |-> deglob, found |-> {[re |-> re, deglob |-> deglob]}]
  /\ UNCHANGED compiled
Miss(re, deglob) ==
  /\ ~Exists(heap, re)
  /\ \/ /\ <<re, deglob>> \in Correct
        /\ put(re, NewHandle)
        /\ compiled' = Allocated(NewHandle, [re |-> re, deglob |-> deglob])
        /\ asked' = [re |-> re, deglob |-> deglob, found |-> {[re |-> re, deglob |-> deglob]}]
     \/ /\ <<re, deglob>> \notin Correct
        /\ asked' = [re |-> re, deglob |-> deglob, found |-> {}]
        /\ UNCHANGED <<cacheVars, compiled>>

uvm_re_match(re, deglob) == Hit(re, deglob) \/ Miss(re, deglob)

\* The calls that evict, each handle freed when it leaves the cache.
Fault_EvictAndFree ==                  \* keys dropped for their number stay compiled
  /\ Evictions
  /\ compiled' = IF m_max_size' = m_max_size /\ ~heap'.died
                 THEN Freed({Held(heap)[k] : k \in DOMAIN heap.hash \ DOMAIN heap'.hash})
                 ELSE compiled
  /\ UNCHANGED asked
EvictAndFree ==
  /\ Evictions
  /\ compiled' = Freed({Held(heap)[k] : k \in DOMAIN heap.hash \ DOMAIN heap'.hash})
  /\ UNCHANGED asked

RegexInit ==
  /\ Init
  /\ owner \in {"matcher", "testbench"}
  /\ compiled = <<>>
  /\ asked = [re |-> Null, deglob |-> 0, found |-> {}]

Matcher ==
  /\ owner = "matcher" /\ ~heap.died
  /\ EvictAndFree \/ \E re \in Keys, deglob \in Deglobs : uvm_re_match(re, deglob)

Testbench == owner = "testbench" /\ CacheCall /\ UNCHANGED <<compiled, asked>>

Next == (Matcher \/ Testbench) /\ UNCHANGED <<caller, owner>>

Spec == RegexInit /\ [][Next]_vars

-----------------------------------------------------------------------------
(* Properties. *)

\* What is compiled and not freed is exactly what the cache holds, each under
\* one key: nothing leaks, and no handle outlives its expression.
HandlesOwned ==
  owner = "matcher" =>
    DOMAIN compiled = {Held(heap)[k] : k \in DOMAIN heap.hash} /\ IsInjective(Held(heap))

\* "When enabled, uvm_re_match should be significantly faster" (uvm_regex.svh:
\* 47-48): and its answer is that of the version without the cache, which
\* compiles what it is asked for.
SameAnswer ==
  asked.found = IF <<asked.re, asked.deglob>> \in Correct
                THEN {[re |-> asked.re, deglob |-> asked.deglob]} ELSE {}
=============================================================================
