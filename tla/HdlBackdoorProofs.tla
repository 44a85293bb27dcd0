-------------------------- MODULE HdlBackdoorProofs ---------------------------
(***************************************************************************)
(* Backdoor access in the nine builds of HdlBackdoor: proofs for a signal  *)
(* of every size that fits into a uvm_hdl_data_t, chunks of every width,   *)
(* and any set of calls that each build serves as it says (Straight).      *)
(***************************************************************************)
EXTENDS HdlBackdoor, FiniteSetTheorems, TLAPS

USE SizesAssumption, WidthsAssumption

-----------------------------------------------------------------------------
(* Paths.                                                                  *)

\* The bits of a path are counted from 0, and lead to different places.
Counted(p) ==
  /\ Width(p) \in Nat
  /\ DOMAIN Places(p) = 0..(Width(p) - 1)
  /\ Places(p) \in [0..(Width(p) - 1) -> Int]
  /\ \A j, k \in 0..(Width(p) - 1) : Places(p)[j] = Places(p)[k] => j = k
  /\ p.kind = "nowhere" <=> Width(p) = 0

(* The width of a path whose bits are numbered from 0.                     *)
LEMMA CountedFrom ==
  ASSUME NEW p, NEW n \in Nat, DOMAIN Places(p) = 0..(n - 1)
  PROVE  Width(p) = n
<1>1. Cardinality(0..(n - 1)) = n
  BY FS_Interval
<1> QED
  BY <1>1 DEF Width

(* Every path is counted, and one that exists fits.                        *)
LEMMA PlacesFacts ==
  ASSUME NEW p \in Path
  PROVE  Counted(p) /\ (Exists(p) => Width(p) \in 1..Size /\ Width(p) <= MaxWidth)
<1>1. CASE p.kind = "whole"
  <2>1. Places(p) = [k \in 0..(Size - 1) |-> k]
    BY <1>1 DEF Places, Index
  <2>2. Width(p) = Size
    BY <2>1, CountedFrom
  <2> QED
    BY <1>1, <2>1, <2>2 DEF Counted
<1>2. CASE p.kind = "bit"
  <2>1. Places(p) = [k \in 0..(1 - 1) |-> p.lhs]
    BY <1>2 DEF Places
  <2>2. Width(p) = 1
    BY <2>1, CountedFrom
  <2> QED
    BY <1>2, <2>1, <2>2 DEF Counted, Path
<1>3. CASE p.kind = "slice" /\ p.lhs > p.rhs
  <2>1. Places(p) = [k \in 0..(p.lhs - p.rhs) |-> p.rhs + k]
    BY <1>3 DEF Places
  <2>2. Width(p) = p.lhs - p.rhs + 1
    BY <1>3, <2>1, CountedFrom DEF Path
  <2>3. Exists(p) => Width(p) <= Size
    BY <1>3, <2>1, <2>2 DEF Exists, Index, Path
  <2>4. p.rhs \in Nat /\ p.kind # "nowhere" /\ Width(p) \in Nat \ {0}
    BY <1>3, <2>2 DEF Path
  <2>5. /\ DOMAIN Places(p) = 0..(Width(p) - 1)
        /\ \A k \in 0..(Width(p) - 1) : Places(p)[k] = p.rhs + k
    BY <2>1, <2>2, <2>4, <1>3 DEF Path
  <2>6. Places(p) \in [0..(Width(p) - 1) -> Int]
    BY <2>1, <2>2, <2>4, <1>3 DEF Path
  <2>7. Counted(p)
    BY <2>4, <2>5, <2>6 DEF Counted
  <2> QED
    BY <2>3, <2>4, <2>7
<1>4. CASE p.kind = "slice" /\ ~(p.lhs > p.rhs)
  <2>1. Places(p) = [k \in 0..(p.rhs - p.lhs) |-> p.rhs - k]
    BY <1>4 DEF Places
  <2>2. Width(p) = p.rhs - p.lhs + 1
    BY <1>4, <2>1, CountedFrom DEF Path
  <2>3. Exists(p) => Width(p) <= Size
    BY <1>4, <2>1, <2>2 DEF Exists, Index, Path
  <2> QED
    BY <1>4, <2>1, <2>2, <2>3 DEF Counted, Path
<1>5. CASE p.kind = "nowhere"
  <2>1. Places(p) = [k \in 0..(0 - 1) |-> 0]
    BY <1>5 DEF Places
  <2>2. Width(p) = 0
    BY <2>1, CountedFrom
  <2> QED
    BY <1>5, <2>1, <2>2 DEF Counted, Exists
<1> QED
  BY <1>1, <1>2, <1>3, <1>4, <1>5 DEF Path

(* A loop over single bits gets to the end of a path just if it exists.    *)
LEMMA ReachedFacts ==
  ASSUME NEW p \in Path
  PROVE  /\ Reached(p) \subseteq {k \in DOMAIN Places(p) : Places(p)[k] \in Index}
         /\ Exists(p) => Reached(p) = DOMAIN Places(p)
         /\ p.kind # "nowhere" /\ Reached(p) = DOMAIN Places(p) => Exists(p)
<1> USE PlacesFacts DEF Counted
<1>1. Reached(p) \subseteq {k \in DOMAIN Places(p) : Places(p)[k] \in Index}
  BY DEF Reached
<1>2. Exists(p) => Reached(p) = DOMAIN Places(p)
  <2>1. ASSUME Exists(p), NEW k \in DOMAIN Places(p), NEW j \in 0..k
        PROVE  Places(p)[j] \in Index
    <3>1. j \in DOMAIN Places(p)
      OBVIOUS
    <3> QED
      BY <2>1, <3>1 DEF Exists
  <2> QED
    BY <2>1 DEF Reached
<1>3. p.kind # "nowhere" /\ Reached(p) = DOMAIN Places(p) => Exists(p)
  BY <1>1 DEF Exists
<1> QED
  BY <1>1, <1>2, <1>3

-----------------------------------------------------------------------------
(* Putting.                                                                *)

SignalOK == sig \in [Index -> Logic] /\ forced \subseteq Index

Flags == {"deposit", "force", "release"}

\* The bits of the signal behind the places K of a path.
Targets(p, K) == {Places(p)[k] : k \in K}

(* What is put leaves a signal.                                            *)
LEMMA PutTypes ==
  ASSUME SignalOK, NEW flag \in Flags, NEW D \in SUBSET Index, NEW f \in [D -> Logic],
         PutValue(flag, f)
  PROVE  SignalOK'
<1>1. sig' \in [Index -> Logic]
  <2>1. sig' = [i \in Index |->
                  IF i \in D /\ (flag = "force" \/ (flag = "deposit" /\ i \notin forced))
                  THEN f[i] ELSE sig[i]]
    BY DEF PutValue
  <2> QED
    BY <2>1 DEF SignalOK
<1>2. forced' = forced \cup D \/ forced' = forced \ D \/ forced' = forced
  BY DEF PutValue, Flags
<1> QED
  BY <1>1, <1>2 DEF SignalOK

(* A released signal keeps its value.                                      *)
LEMMA ReleaseKeeps ==
  ASSUME SignalOK, NEW f, PutValue("release", f)
  PROVE  sig' = sig
<1>1. sig' = [i \in Index |-> sig[i]]
  BY DEF PutValue
<1> QED
  BY <1>1 DEF SignalOK

(* Of what is put in a release, only the places matter.                    *)
LEMMA ReleaseAny ==
  ASSUME NEW p \in Path, NEW K \in SUBSET DOMAIN Places(p), NEW v \in Data, NEW f,
         DOMAIN f = Targets(p, K), PutValue("release", f)
  PROVE  \E g \in Written(p, K, v) : PutValue("release", g)
<1> DEFINE From(i) == CHOOSE k \in K : Places(p)[k] = i
           g == [i \in Targets(p, K) |-> IF From(i) < MaxWidth THEN v[From(i)] ELSE "0"]
<1>1. ASSUME NEW k \in K
      PROVE  From(Places(p)[k]) = k /\ k \in Nat
  BY PlacesFacts DEF Counted
<1>2. \A k \in K : k < MaxWidth => v[k] \in Logic
  BY <1>1 DEF Data
<1>3. g \in [Targets(p, K) -> Logic]
  <2>1. ASSUME NEW i \in Targets(p, K)
        PROVE  g[i] \in Logic
    <3>1. PICK k \in K : i = Places(p)[k]
      BY DEF Targets
    <3>2. From(i) = k
      BY <1>1, <3>1
    <3> HIDE DEF From
    <3> QED
      BY <1>2, <3>2 DEF Logic
  <2> QED
    BY <2>1
<1>4. \A k \in K : k < MaxWidth => g[Places(p)[k]] = v[k]
  <2>1. ASSUME NEW k \in K
        PROVE  k < MaxWidth => g[Places(p)[k]] = v[k]
    <3>1. Places(p)[k] \in Targets(p, K)
      BY DEF Targets
    <3>2. From(Places(p)[k]) = k
      BY <1>1
    <3> HIDE DEF From
    <3> QED
      BY <3>1, <3>2
  <2> QED
    BY <2>1
<1>5. g \in Written(p, K, v)
  <2> HIDE DEF g
  <2> QED
    BY <1>3, <1>4 DEF Written, Targets
<1>6. DOMAIN g = DOMAIN f
  OBVIOUS
<1>7. PutValue("release", g)
  <2> HIDE DEF g
  <2> QED
    BY <1>6 DEF PutValue
<1> HIDE DEF g
<1> QED
  BY <1>5, <1>7

-----------------------------------------------------------------------------
(* What a call does, and answers.                                          *)

\* Part of the places that are there, or all of them, have been put.
Tried(flag, c, ret) ==
  \E K \in SUBSET {k \in DOMAIN Places(c.path) : Places(c.path)[k] \in Index} :
    /\ ret = 1 => Exists(c.path) /\ K = DOMAIN Places(c.path)
    /\ \E f \in Written(c.path, K, c.value) : PutValue(flag, f)

Held(p, value) == Exists(p) /\ Width(p) <= MaxWidth /\ Agrees(value, p)

Served(c, ret, value) ==
  /\ ret \in {0, 1} /\ value \in Data
  /\ \/ c.op = "check_path" /\ NoPut /\ (ret = 1 <=> Exists(c.path))
     \/ c.op = "read" /\ NoPut /\ (ret = 1 => Held(c.path, value))
     \/ c.op = "deposit" /\ Tried("deposit", c, ret) /\ value = c.value
     \/ c.op = "force" /\ Tried("force", c, ret) /\ value = c.value
     \/ c.op = "release" /\ Tried("release", c, ret)
     \/ c.op = "release_and_read" /\ Tried("release", c, ret)
          /\ (ret = 1 => Held(c.path, value))

(* A try leaves a signal.                                                  *)
LEMMA TriedTypes ==
  ASSUME SignalOK, NEW flag \in Flags, NEW c, NEW ret, Tried(flag, c, ret)
  PROVE  SignalOK'
<1>1. PICK K \in SUBSET {k \in DOMAIN Places(c.path) : Places(c.path)[k] \in Index} :
        \E f \in Written(c.path, K, c.value) : PutValue(flag, f)
  BY DEF Tried
<1>2. PICK f \in Written(c.path, K, c.value) : PutValue(flag, f)
  BY <1>1
<1>3. Targets(c.path, K) \subseteq Index
  BY DEF Targets
<1>4. f \in [Targets(c.path, K) -> Logic]
  BY DEF Written, Targets
<1> QED
  BY <1>2, <1>3, <1>4, PutTypes

(* Nothing put is a try that failed.                                       *)
LEMMA NothingTried ==
  ASSUME SignalOK, NEW flag \in Flags, NEW c, NoPut
  PROVE  Tried(flag, c, 0)
<1> DEFINE f == [i \in {} |-> "0"]
<1>1. f \in Written(c.path, {}, c.value)
  BY DEF Written
<1>2. PutValue(flag, f)
  <2>1. sig = [i \in Index |-> sig[i]]
    BY DEF SignalOK
  <2>2. sig' = sig /\ forced' = forced /\ DOMAIN f = {}
    BY DEF NoPut
  <2> HIDE DEF f
  <2> QED
    BY <2>1, <2>2 DEF PutValue, Flags
<1> HIDE DEF f
<1> QED
  BY <1>1, <1>2 DEF Tried

(* All of a path, or what a loop over its bits has reached, is a try.      *)
LEMMA AllTried ==
  ASSUME NEW flag, NEW c, c.path \in Path, Exists(c.path),
         NEW f \in Written(c.path, DOMAIN Places(c.path), c.value), PutValue(flag, f), NEW ret
  PROVE  Tried(flag, c, ret)
<1>1. DOMAIN Places(c.path) \in SUBSET {k \in DOMAIN Places(c.path) :
                                           Places(c.path)[k] \in Index}
  BY DEF Exists
<1> QED
  BY <1>1 DEF Tried

(* What a loop over the bits has put before one is missing is a try.       *)
LEMMA PartTried ==
  ASSUME NEW flag, NEW c, c.path \in Path, NEW ret, ret = 1 => Exists(c.path),
         NEW f \in Written(c.path, Reached(c.path), c.value), PutValue(flag, f)
  PROVE  Tried(flag, c, ret)
<1>1. /\ Reached(c.path) \in SUBSET {k \in DOMAIN Places(c.path) :
                                        Places(c.path)[k] \in Index}
      /\ ret = 1 => Reached(c.path) = DOMAIN Places(c.path)
  BY ReachedFacts
<1> QED
  BY <1>1 DEF Tried

(* Releasing, whatever is put.                                             *)
LEMMA ReleaseTried ==
  ASSUME NEW c, c.path \in Path, c.value \in Data, Exists(c.path), NEW ret,
         NEW f, DOMAIN f = Targets(c.path, DOMAIN Places(c.path)), PutValue("release", f)
  PROVE  Tried("release", c, ret)
<1>1. PICK g \in Written(c.path, DOMAIN Places(c.path), c.value) : PutValue("release", g)
  BY ReleaseAny
<1> QED
  BY <1>1, AllTried

(* What a call is made of.                                                 *)
LEMMA CallFacts ==
  ASSUME NEW c \in Calls
  PROVE  c.op \in Ops /\ c.path \in Path /\ c.value \in Data
OBVIOUS

CallTypeOK ==
  call.op \in Ops \cup {"none"} /\ call.path \in Path /\ call.value \in Data /\ call.ret \in {0, 1}

(* A call that is served leaves a signal and an answer.                    *)
LEMMA ServedTypes ==
  ASSUME SignalOK, NEW c \in Calls, NEW ret, NEW value,
         Answer(c, ret, value), Served(c, ret, value)
  PROVE  SignalOK' /\ CallTypeOK'
<1>1. CallTypeOK'
  BY CallFacts DEF Answer, Served, CallTypeOK
<1>2. NoPut => SignalOK'
  BY DEF NoPut, SignalOK
<1>3. \A flag \in Flags : Tried(flag, c, ret) => SignalOK'
  BY TriedTypes
<1>4. NoPut \/ \E flag \in Flags : Tried(flag, c, ret)
  BY DEF Served, Flags
<1> QED
  BY <1>1, <1>2, <1>3, <1>4

(* The promise, in the terms of the signal.                                *)
LEMMA PromiseSame ==
  /\ Promise!Index = Index /\ Promise!NoCall = NoCall
  /\ \A p : Promise!Places(p) = Places(p)
  /\ \A p : Promise!Exists(p) <=> Exists(p)
  /\ \A p : Promise!Width(p) = Width(p)
  /\ \A p, K, v : Promise!Written(p, K, v) = Written(p, K, v)
<1>1. Promise!Index = Index /\ Promise!NoCall = NoCall
  BY DEF Promise!Index, Index, Promise!NoCall, NoCall
<1>2. \A p : Promise!Places(p) = Places(p)
  BY DEF Promise!Places, Places, Promise!Index, Index
<1>3. \A p : Promise!Exists(p) <=> Exists(p)
  BY <1>1, <1>2 DEF Promise!Exists, Exists
<1>4. \A p : Promise!Width(p) = Width(p)
  <2>1. \A S : Promise!Cardinality(S) = Cardinality(S)
    BY DEF Promise!Cardinality, Cardinality
  <2> QED
    BY <1>2, <2>1 DEF Promise!Width, Width
<1>5. \A p, K, v : Promise!Written(p, K, v) = Written(p, K, v)
  BY <1>2 DEF Promise!Written, Written, Promise!Logic, Logic
<1> QED
  BY <1>1, <1>2, <1>3, <1>4, <1>5

(* So are putting, comparing and the rest of the testbench.                *)
LEMMA PromisePuts ==
  /\ Promise!NoPut <=> NoPut
  /\ \A flag, f : Promise!PutValue(flag, f) <=> PutValue(flag, f)
  /\ \A value, p : Promise!Agrees(value, p) <=> Agrees(value, p)
  /\ Promise!Testbench <=> Testbench
<1>1. Promise!NoPut <=> NoPut
  BY DEF Promise!NoPut, NoPut
<1>2. \A flag, f : Promise!PutValue(flag, f) <=> PutValue(flag, f)
  BY DEF Promise!PutValue, PutValue, Promise!Index, Index
<1>3. \A value, p : Promise!Agrees(value, p) <=> Agrees(value, p)
  BY PromiseSame DEF Promise!Agrees, Agrees
<1>4. Promise!Testbench <=> Testbench
  BY PromiseSame DEF Promise!Testbench, Testbench, Promise!GoOn, GoOn, Promise!DesignWrites,
                     DesignWrites
<1> QED
  BY <1>1, <1>2, <1>3, <1>4

(* A try of a build is one of the promise.                                 *)
LEMMA TriedIsTry ==
  ASSUME NEW flag, NEW c, call'.ret \in {0, 1}, Tried(flag, c, call'.ret)
  PROVE  Promise!Try(flag, c)
<1>1. PICK K \in SUBSET {k \in DOMAIN Places(c.path) : Places(c.path)[k] \in Index} :
        /\ call'.ret = 1 => Exists(c.path) /\ K = DOMAIN Places(c.path)
        /\ \E f \in Written(c.path, K, c.value) : PutValue(flag, f)
  BY DEF Tried
<1>2. Promise!Put(flag, c, K)
  BY <1>1, PromiseSame, PromisePuts DEF Promise!Put
<1> QED
  BY <1>1, <1>2, PromiseSame DEF Promise!Try

(* A value that holds the bits is one the promise asks for.                *)
LEMMA HeldIsHolding ==
  ASSUME SignalOK, sig' = sig, NEW p \in Path, NEW v, Held(p, v), call'.path = p, call'.value = v
  PROVE  (Promise!Holds(call.path, call.value))'
<1>1. Agrees(call.value, call.path)'
  BY DEF Held, Agrees
<1>2. Promise!Agrees(call.value, call.path)'
  BY <1>1 DEF Promise!Agrees, Agrees, Promise!Places, Places, Promise!Index, Index
<1> QED
  BY <1>2, PromiseSame DEF Promise!Holds, Held

(* A call that is served is one the promise speaks of.                     *)
LEMMA ServedPromise ==
  ASSUME SignalOK, NEW c \in Calls, call = NoCall, ~ended,
         NEW ret, NEW value, Answer(c, ret, value), Served(c, ret, value)
  PROVE  Promise!Access
<1>1. /\ call'.op = c.op /\ call'.path = c.path /\ call'.value = value /\ call'.ret = ret
      /\ ret \in {0, 1}
  BY DEF Answer, Served
<1>2. \A flag : Tried(flag, c, ret) => Promise!Try(flag, c)
  BY <1>1, TriedIsTry
<1>3. NoPut => sig' = sig
  BY DEF NoPut
<1>4. \A flag : flag = "release" /\ Tried(flag, c, ret) => sig' = sig
  BY ReleaseKeeps DEF Tried
<1>5. Held(c.path, value) /\ sig' = sig => (Promise!Holds(call.path, call.value))'
  BY <1>1, HeldIsHolding, CallFacts
<1>6. ASSUME c.op = "check_path" PROVE Promise!Promised(c)
  <2>1. Promise!Check(c)
    BY <1>1, <1>6, PromiseSame, PromisePuts DEF Served, Promise!Check
  <2> QED
    BY <1>6, <2>1 DEF Promise!Promised
<1>7. ASSUME c.op = "read" PROVE Promise!Promised(c)
  <2>1. NoPut /\ (ret = 1 => Held(c.path, value))
    BY <1>7 DEF Served
  <2>2. Promise!Read(c)
    BY <1>1, <1>3, <1>5, <2>1, PromisePuts DEF Promise!Read
  <2> QED
    BY <1>7, <2>2 DEF Promise!Promised
<1>8. ASSUME c.op = "deposit" PROVE Promise!Promised(c)
  <2>1. Promise!Deposit(c)
    BY <1>1, <1>2, <1>8 DEF Served, Promise!Deposit
  <2> QED
    BY <1>8, <2>1 DEF Promise!Promised
<1>9. ASSUME c.op = "force" PROVE Promise!Promised(c)
  <2>1. Promise!Force(c)
    BY <1>1, <1>2, <1>9 DEF Served, Promise!Force
  <2> QED
    BY <1>9, <2>1 DEF Promise!Promised
<1>10. ASSUME c.op = "release" PROVE Promise!Promised(c)
  <2>1. Promise!Release(c)
    BY <1>2, <1>10 DEF Served, Promise!Release
  <2> QED
    BY <1>10, <2>1 DEF Promise!Promised
<1>11. ASSUME c.op = "release_and_read" PROVE Promise!Promised(c)
  <2>1. Tried("release", c, ret) /\ (ret = 1 => Held(c.path, value))
    BY <1>11 DEF Served
  <2>2. Promise!ReleaseAndRead(c)
    BY <1>1, <1>2, <1>4, <1>5, <2>1 DEF Promise!ReleaseAndRead
  <2> QED
    BY <1>11, <2>2 DEF Promise!Promised
<1>12. Promise!Promised(c)
  BY <1>6, <1>7, <1>8, <1>9, <1>10, <1>11, CallFacts DEF Ops
<1> QED
  BY <1>1, <1>12, PromiseSame DEF Promise!Access

\* What is asked of a build.
Kept(b, c) ==
  /\ call = NoCall /\ ~ended
  /\ \E ret, value :
       /\ Answer(c, ret, value) /\ Served(c, ret, value)
       /\ b \notin {"vcs_array", "vcs_denied"} => (ret = 1 <=> Exists(c.path))
  /\ ended' \in BOOLEAN
  /\ ended' => b \in {"xcelium_vlog", "xcelium_vhdl"} /\ ~Exists(c.path)

(* A value that has the bits of a path, and bits elsewhere, holds it.      *)
LEMMA ValueHeld ==
  ASSUME SignalOK, NEW p \in Path, Exists(p), NEW w, w = [k \in 0..(MaxWidth - 1) |-> w[k]],
         \A k \in 0..(MaxWidth - 1) :
           IF k \in DOMAIN Places(p) THEN w[k] = sig[Places(p)[k]] ELSE w[k] \in Logic
  PROVE  w \in Data /\ Held(p, w)
<1>1. ASSUME NEW k \in DOMAIN Places(p)
      PROVE  k \in 0..(MaxWidth - 1) /\ sig[Places(p)[k]] \in Logic
  BY PlacesFacts DEF Counted, Exists, SignalOK
<1>2. \A k \in 0..(MaxWidth - 1) : w[k] \in Logic
  BY <1>1
<1>3. w \in Data
  BY <1>2 DEF Data
<1>4. Agrees(w, p)
  BY <1>1 DEF Agrees
<1> QED
  BY <1>3, <1>4, PlacesFacts DEF Held

\* What an operation of a build comes to: where the path exists, it is done and
\* answered with 1; else not, or in part, and answered with 0.
Found(p) == IF Exists(p) THEN 1 ELSE 0

Gets(c) ==
  \E value \in Data :
    Answer(c, Found(c.path), value) /\ (Exists(c.path) => Held(c.path, value))

Sets(flag, c) == Tried(flag, c, Found(c.path)) /\ Answer(c, Found(c.path), c.value)

Serves(c) ==
  \/ c.op = "check_path" /\ NoPut /\ Answer(c, Found(c.path), c.value)
  \/ c.op = "read" /\ NoPut /\ Gets(c)
  \/ c.op = "deposit" /\ Sets("deposit", c)
  \/ c.op = "force" /\ Sets("force", c)
  \/ /\ c.op = "release" /\ Tried("release", c, Found(c.path))
     /\ \E value \in Data : Answer(c, Found(c.path), value)
  \/ c.op = "release_and_read" /\ Tried("release", c, Found(c.path)) /\ Gets(c)

EndsOnlyLost(b, c) ==
  ended' \in BOOLEAN /\ (ended' => b \in {"xcelium_vlog", "xcelium_vhdl"} /\ ~Exists(c.path))

(* An operation that is served keeps what is asked of the build.           *)
LEMMA ServesKept ==
  ASSUME NEW b, NEW c \in Calls, call = NoCall, ~ended, Serves(c), EndsOnlyLost(b, c)
  PROVE  Kept(b, c)
<1>1. Found(c.path) \in {0, 1} /\ (Found(c.path) = 1 <=> Exists(c.path))
  BY DEF Found
<1>2. \E value : Answer(c, Found(c.path), value) /\ Served(c, Found(c.path), value)
  <2>1. CASE c.op \in {"read", "release_and_read"}
    BY <1>1, <2>1, CallFacts DEF Serves, Gets, Served
  <2>2. CASE c.op \in {"check_path", "deposit", "force", "release"}
    BY <1>1, <2>2, CallFacts DEF Serves, Sets, Served
  <2> QED
    BY <2>1, <2>2, CallFacts DEF Ops
<1> QED
  BY <1>1, <1>2 DEF Kept, EndsOnlyLost

(* A call that is refused is served, where there is nothing at the path or *)
(* the build never gets at it.                                             *)
LEMMA RefusedKept ==
  ASSUME NEW b, NEW c \in Calls, call = NoCall, ended = FALSE, ended' = ended, SignalOK,
         b \in {"vcs_array", "vcs_denied"} \/ ~Exists(c.path), c.op # "check_path",
         NoPut, NEW value \in Data, Answer(c, 0, value), c.op # "read" => value = c.value
  PROVE  Kept(b, c)
<1>1. \A flag \in Flags : Tried(flag, c, 0)
  BY NothingTried
<1>2. Served(c, 0, value)
  BY <1>1, CallFacts DEF Served, Ops, Flags
<1>3. Answer(c, 0, value) /\ (b \notin {"vcs_array", "vcs_denied"} => (0 = 1 <=> Exists(c.path)))
  OBVIOUS
<1>4. ~ended /\ ~ended' /\ ended' \in BOOLEAN
  OBVIOUS
<1> QED
  BY <1>2, <1>3, <1>4 DEF Kept

-----------------------------------------------------------------------------
(* Xcelium.                                                                *)

\* What reading comes to.
GotIt(p, got) ==
  /\ got.ret = Found(p) /\ got.value \in Data /\ (Exists(p) => Held(p, got.value))
  /\ got.ends \subseteq BOOLEAN /\ (TRUE \in got.ends => ~Exists(p))

(* The signal and its paths are the same for Verilog in Xcelium.           *)
LEMMA XceliumVlogSame ==
  /\ XceliumVlog!Index = Index /\ XceliumVlog!NoCall = NoCall
  /\ \A p : XceliumVlog!Places(p) = Places(p)
  /\ \A p : XceliumVlog!Exists(p) <=> Exists(p)
  /\ \A p : XceliumVlog!Width(p) = Width(p) /\ XceliumVlog!Reached(p) = Reached(p)
  /\ \A p, K, v : XceliumVlog!Written(p, K, v) = Written(p, K, v)
<1>1. XceliumVlog!Index = Index /\ XceliumVlog!NoCall = NoCall
  BY DEF XceliumVlog!Index, Index, XceliumVlog!NoCall, NoCall
<1>2. \A p : XceliumVlog!Places(p) = Places(p)
  BY DEF XceliumVlog!Places, Places, XceliumVlog!Index, Index
<1>3. \A p : XceliumVlog!Exists(p) <=> Exists(p)
  BY <1>1, <1>2 DEF XceliumVlog!Exists, Exists
<1>4. \A p : XceliumVlog!Width(p) = Width(p) /\ XceliumVlog!Reached(p) = Reached(p)
  <2>1. \A S : XceliumVlog!Cardinality(S) = Cardinality(S)
    BY DEF XceliumVlog!Cardinality, Cardinality
  <2> QED
    BY <1>1, <1>2, <2>1 DEF XceliumVlog!Width, Width, XceliumVlog!Reached, Reached
<1>5. \A p, K, v : XceliumVlog!Written(p, K, v) = Written(p, K, v)
  BY <1>2 DEF XceliumVlog!Written, Written, XceliumVlog!Logic, Logic
<1> QED
  BY <1>1, <1>2, <1>3, <1>4, <1>5

(* So are putting, answering and the rest of the testbench.                *)
LEMMA XceliumVlogPuts ==
  /\ XceliumVlog!NoPut <=> NoPut
  /\ \A flag, f : XceliumVlog!PutValue(flag, f) <=> PutValue(flag, f)
  /\ \A c, ret, value : XceliumVlog!Answer(c, ret, value) <=> Answer(c, ret, value)
  /\ XceliumVlog!Testbench <=> Testbench
<1>1. XceliumVlog!NoPut <=> NoPut
  BY DEF XceliumVlog!NoPut, NoPut
<1>2. \A flag, f : XceliumVlog!PutValue(flag, f) <=> PutValue(flag, f)
  BY DEF XceliumVlog!PutValue, PutValue, XceliumVlog!Index, Index
<1>3. \A c, ret, value : XceliumVlog!Answer(c, ret, value) <=> Answer(c, ret, value)
  BY DEF XceliumVlog!Answer, Answer
<1>4. XceliumVlog!Testbench <=> Testbench
  BY XceliumVlogSame
     DEF XceliumVlog!Testbench, Testbench, XceliumVlog!GoOn, GoOn, XceliumVlog!DesignWrites,
         DesignWrites
<1> QED
  BY <1>1, <1>2, <1>3, <1>4

(* Reading: Verilog in Xcelium.                                            *)
LEMMA XceliumVlogGets ==
  ASSUME SignalOK, NEW p \in Path, NEW v \in Data
  PROVE  /\ GotIt(p, XceliumVlog!get_vlog(p, v))
         /\ p.kind = "slice" =>
              GotIt(p, XceliumVlog!get_vlog_partsel(p, XceliumVlog!clear_value(v)))
         /\ ~Exists(p) =>
              /\ GotIt(p, XceliumVlog!get_vhdl(p, v))
              /\ GotIt(p, XceliumVlog!Got(0, v, {FALSE}))
<1> USE XceliumVlogSame DEF XceliumVlog!Got
<1>1. v = [k \in 0..(MaxWidth - 1) |-> v[k]] /\ \A k \in 0..(MaxWidth - 1) : v[k] \in Logic
  BY DEF Data
<1>2. XceliumVlog!clear_value(v) \in Data
  BY <1>1 DEF XceliumVlog!clear_value, Data, Logic
<1>3. ASSUME ~Exists(p)
      PROVE  GotIt(p, XceliumVlog!get_vlog(p, v)) /\ GotIt(p, XceliumVlog!get_vhdl(p, v))
  <2>1. /\ XceliumVlog!get_vlog(p, v) = XceliumVlog!Got(0, v, {FALSE})
        /\ XceliumVlog!get_vhdl(p, v) = XceliumVlog!Got(0, v, {TRUE})
    BY <1>3 DEF XceliumVlog!get_vlog, XceliumVlog!get_vhdl
  <2> QED
    BY <1>3, <2>1 DEF GotIt, Found
<1>4. ASSUME Exists(p)
      PROVE  GotIt(p, XceliumVlog!get_vlog(p, v))
  <2> DEFINE w == [k \in DOMAIN v |->
                     IF k \in DOMAIN Places(p) THEN sig[Places(p)[k]]
                     ELSE IF k < XceliumVlog!Chunks(Width(p)) * ChunkWidth THEN "0" ELSE v[k]]
  <2>1. XceliumVlog!get_vlog(p, v) = XceliumVlog!Got(1, w, {FALSE})
    BY <1>4, PlacesFacts DEF XceliumVlog!get_vlog
  <2>2. w \in Data /\ Held(p, w)
    <3>1. w = [k \in 0..(MaxWidth - 1) |-> w[k]]
      BY <1>1
    <3>2. \A k \in 0..(MaxWidth - 1) :
            IF k \in DOMAIN Places(p) THEN w[k] = sig[Places(p)[k]] ELSE w[k] \in Logic
      BY <1>1 DEF Logic
    <3> HIDE DEF w
    <3> QED
      BY <1>4, <3>1, <3>2, ValueHeld
  <2> HIDE DEF w
  <2> QED
    BY <1>4, <2>1, <2>2 DEF GotIt, Found
<1>5. ASSUME p.kind = "slice", NEW u \in Data
      PROVE  GotIt(p, XceliumVlog!get_vlog_partsel(p, u))
  <2> DEFINE w == [k \in DOMAIN u |-> IF k \in Reached(p) THEN sig[Places(p)[k]] ELSE u[k]]
  <2>1. XceliumVlog!PartselReached(p) = Reached(p)
    BY DEF XceliumVlog!PartselReached
  <2>2. XceliumVlog!get_vlog_partsel(p, u) = XceliumVlog!Got(Found(p), w, {FALSE})
    BY <1>5, <2>1, ReachedFacts DEF XceliumVlog!get_vlog_partsel, XceliumVlog!PartselDone, Found
  <2>3. u = [k \in 0..(MaxWidth - 1) |-> u[k]] /\ \A k \in 0..(MaxWidth - 1) : u[k] \in Logic
    BY DEF Data
  <2>4. \A k \in Reached(p) : sig[Places(p)[k]] \in Logic
    BY ReachedFacts DEF SignalOK
  <2>5. w = [k \in 0..(MaxWidth - 1) |-> w[k]]
    BY <2>3
  <2>6. \A k \in 0..(MaxWidth - 1) : w[k] \in Logic
    BY <2>3, <2>4
  <2>7. Exists(p) => \A k \in 0..(MaxWidth - 1) :
            IF k \in DOMAIN Places(p) THEN w[k] = sig[Places(p)[k]] ELSE w[k] \in Logic
    BY <2>3, ReachedFacts
  <2> HIDE DEF w
  <2>8. w \in Data
    BY <2>5, <2>6 DEF Data
  <2>9. Exists(p) => Held(p, w)
    BY <2>5, <2>7, ValueHeld
  <2> QED
    BY <2>2, <2>8, <2>9 DEF GotIt
<1>6. ~Exists(p) => GotIt(p, XceliumVlog!Got(0, v, {FALSE}))
  BY DEF GotIt, Found
<1>7. GotIt(p, XceliumVlog!get_vlog(p, v)) /\ (~Exists(p) => GotIt(p, XceliumVlog!get_vhdl(p, v)))
  BY <1>3, <1>4
<1> QED
  BY <1>2, <1>5, <1>6, <1>7

(* What has been read is answered: Verilog in Xcelium.                     *)
LEMMA XceliumVlogAnswers ==
  ASSUME NEW c \in Calls, NEW got, ended = FALSE, GotIt(c.path, got), XceliumVlog!GotAnswer(c, got)
  PROVE  Gets(c) /\ EndsOnlyLost("xcelium_vlog", c)
<1>1. Answer(c, got.ret, got.value) /\ ended' \in got.ends
  BY XceliumVlogPuts DEF XceliumVlog!GotAnswer
<1> QED
  BY <1>1 DEF GotIt, Gets, EndsOnlyLost

(* Setting and releasing: Verilog in Xcelium.                              *)
LEMMA XceliumVlogSets ==
  ASSUME SignalOK, ended = FALSE, NEW c \in Calls, NEW flag \in Flags,
         XceliumVlog!set_path(c, flag)
  PROVE  Sets(flag, c) /\ EndsOnlyLost("xcelium_vlog", c)
<1> USE XceliumVlogSame, XceliumVlogPuts, CallFacts
<1>1. CASE c.path.kind = "slice"
  <2>1. XceliumVlog!set_vlog_partsel(c, flag)
    BY <1>1 DEF XceliumVlog!set_path
  <2>2. XceliumVlog!PartselReached(c.path) = Reached(c.path)
    BY DEF XceliumVlog!PartselReached
  <2>3. XceliumVlog!PartselAnswer(c.path) = Found(c.path)
    BY <1>1, <2>2, ReachedFacts DEF XceliumVlog!PartselAnswer, XceliumVlog!PartselDone, Found
  <2>4. PICK f \in Written(c.path, Reached(c.path), c.value) : PutValue(flag, f)
    BY <2>1, <2>2 DEF XceliumVlog!set_vlog_partsel, XceliumVlog!SliceBits
  <2>5. Tried(flag, c, Found(c.path))
    BY <2>4, PartTried DEF Found
  <2>6. Answer(c, Found(c.path), c.value) /\ ended' = ended
    BY <2>1, <2>3 DEF XceliumVlog!set_vlog_partsel
  <2> QED
    BY <2>5, <2>6 DEF Sets, EndsOnlyLost
<1>2. CASE c.path.kind # "slice" /\ Exists(c.path)
  <2>1. XceliumVlog!set_vlog(c, flag)
    BY <1>2 DEF XceliumVlog!set_path, XceliumVlog!Language
  <2>2. PICK f \in Written(c.path, DOMAIN Places(c.path), c.value) : PutValue(flag, f)
    BY <1>2, <2>1 DEF XceliumVlog!set_vlog
  <2>3. Tried(flag, c, Found(c.path))
    BY <1>2, <2>2, AllTried
  <2>4. Answer(c, Found(c.path), c.value) /\ ended' = ended
    BY <1>2, <2>1 DEF XceliumVlog!set_vlog, Found
  <2> QED
    BY <2>3, <2>4 DEF Sets, EndsOnlyLost
<1>3. CASE c.path.kind # "slice" /\ ~Exists(c.path)
  <2>1. NoPut /\ Answer(c, 0, c.value) /\ (ended' = ended \/ ended' = TRUE)
    BY <1>3 DEF XceliumVlog!set_path, XceliumVlog!set_vlog, XceliumVlog!set_vhdl
  <2>2. Tried(flag, c, Found(c.path))
    BY <1>3, <2>1, NothingTried DEF Found
  <2> QED
    BY <1>3, <2>1, <2>2 DEF Sets, EndsOnlyLost, Found
<1> QED
  BY <1>1, <1>2, <1>3

(* Verilog in Xcelium: through VPI, slices bit by bit.                     *)
LEMMA XceliumVlogServes ==
  ASSUME SignalOK, ended = FALSE, NEW c \in Calls, Straight("xcelium_vlog", c),
         XceliumVlog!Call(c)
  PROVE  Kept("xcelium_vlog", c)
<1> USE XceliumVlogSame, XceliumVlogPuts, CallFacts
<1>1. call = NoCall
  BY DEF XceliumVlog!Call
<1>2. CASE XceliumVlog!uvm_hdl_check_path(c)
  <2>1. c.op = "check_path" /\ NoPut /\ Answer(c, Found(c.path), c.value) /\ ended' = ended
    BY <1>2 DEF XceliumVlog!uvm_hdl_check_path, Found
  <2> QED
    BY <1>1, <2>1, ServesKept DEF Serves, EndsOnlyLost
<1>3. CASE XceliumVlog!uvm_hdl_read(c)
  <2>1. c.op = "read" /\ NoPut /\ XceliumVlog!get_path(c)
    BY <1>3 DEF XceliumVlog!uvm_hdl_read
  <2>2. \E got : GotIt(c.path, got) /\ XceliumVlog!GotAnswer(c, got)
    BY <2>1, XceliumVlogGets DEF XceliumVlog!get_path, XceliumVlog!Language
  <2> QED
    BY <1>1, <2>1, <2>2, XceliumVlogAnswers, ServesKept DEF Serves
<1>4. CASE \/ XceliumVlog!uvm_hdl_deposit(c) \/ XceliumVlog!uvm_hdl_force(c)
           \/ XceliumVlog!uvm_hdl_release(c)
  <2>1. \E flag \in Flags : c.op = flag /\ XceliumVlog!set_path(c, flag)
    BY <1>4 DEF XceliumVlog!uvm_hdl_deposit, XceliumVlog!uvm_hdl_force,
                XceliumVlog!uvm_hdl_release, Flags
  <2>2. Serves(c) /\ EndsOnlyLost("xcelium_vlog", c)
    BY <2>1, XceliumVlogSets DEF Serves, Sets, Flags
  <2> QED
    BY <1>1, <2>2, ServesKept
<1>5. CASE XceliumVlog!uvm_hdl_release_and_read(c)
  <2>1. c.op = "release_and_read" /\ c.path.kind # "slice"
    BY <1>5 DEF XceliumVlog!uvm_hdl_release_and_read, Straight
  <2>2. IF Exists(c.path)
        THEN PutValue("release", [i \in Targets(c.path, DOMAIN Places(c.path)) |-> "0"])
        ELSE NoPut
    BY <1>5, <2>1 DEF XceliumVlog!uvm_hdl_release_and_read, Targets
  <2>3. Tried("release", c, Found(c.path))
    <3>1. CASE Exists(c.path)
      <4> DEFINE f == [i \in Targets(c.path, DOMAIN Places(c.path)) |-> "0"]
      <4>1. PutValue("release", f) /\ DOMAIN f = Targets(c.path, DOMAIN Places(c.path))
        BY <2>2, <3>1
      <4> HIDE DEF f
      <4> QED
        BY <3>1, <4>1, ReleaseTried
    <3>2. CASE ~Exists(c.path)
      BY <2>2, <3>2, NothingTried DEF Found, Flags
    <3> QED
      BY <3>1, <3>2
  <2>4. \E got : GotIt(c.path, got) /\ XceliumVlog!GotAnswer(c, got)
    BY <1>5, <2>1, XceliumVlogGets DEF XceliumVlog!uvm_hdl_release_and_read, XceliumVlog!Language
  <2> QED
    BY <1>1, <2>1, <2>3, <2>4, XceliumVlogAnswers, ServesKept DEF Serves
<1> QED
  BY <1>2, <1>3, <1>4, <1>5 DEF XceliumVlog!Call

(* The signal and its paths are the same for VHDL in Xcelium.              *)
LEMMA XceliumVhdlSame ==
  /\ XceliumVhdl!Index = Index /\ XceliumVhdl!NoCall = NoCall
  /\ \A p : XceliumVhdl!Places(p) = Places(p)
  /\ \A p : XceliumVhdl!Exists(p) <=> Exists(p)
  /\ \A p : XceliumVhdl!Width(p) = Width(p) /\ XceliumVhdl!Reached(p) = Reached(p)
  /\ \A p, K, v : XceliumVhdl!Written(p, K, v) = Written(p, K, v)
<1>1. XceliumVhdl!Index = Index /\ XceliumVhdl!NoCall = NoCall
  BY DEF XceliumVhdl!Index, Index, XceliumVhdl!NoCall, NoCall
<1>2. \A p : XceliumVhdl!Places(p) = Places(p)
  BY DEF XceliumVhdl!Places, Places, XceliumVhdl!Index, Index
<1>3. \A p : XceliumVhdl!Exists(p) <=> Exists(p)
  BY <1>1, <1>2 DEF XceliumVhdl!Exists, Exists
<1>4. \A p : XceliumVhdl!Width(p) = Width(p) /\ XceliumVhdl!Reached(p) = Reached(p)
  <2>1. \A S : XceliumVhdl!Cardinality(S) = Cardinality(S)
    BY DEF XceliumVhdl!Cardinality, Cardinality
  <2> QED
    BY <1>1, <1>2, <2>1 DEF XceliumVhdl!Width, Width, XceliumVhdl!Reached, Reached
<1>5. \A p, K, v : XceliumVhdl!Written(p, K, v) = Written(p, K, v)
  BY <1>2 DEF XceliumVhdl!Written, Written, XceliumVhdl!Logic, Logic
<1> QED
  BY <1>1, <1>2, <1>3, <1>4, <1>5

(* So are putting, answering and the rest of the testbench.                *)
LEMMA XceliumVhdlPuts ==
  /\ XceliumVhdl!NoPut <=> NoPut
  /\ \A flag, f : XceliumVhdl!PutValue(flag, f) <=> PutValue(flag, f)
  /\ \A c, ret, value : XceliumVhdl!Answer(c, ret, value) <=> Answer(c, ret, value)
  /\ XceliumVhdl!Testbench <=> Testbench
<1>1. XceliumVhdl!NoPut <=> NoPut
  BY DEF XceliumVhdl!NoPut, NoPut
<1>2. \A flag, f : XceliumVhdl!PutValue(flag, f) <=> PutValue(flag, f)
  BY DEF XceliumVhdl!PutValue, PutValue, XceliumVhdl!Index, Index
<1>3. \A c, ret, value : XceliumVhdl!Answer(c, ret, value) <=> Answer(c, ret, value)
  BY DEF XceliumVhdl!Answer, Answer
<1>4. XceliumVhdl!Testbench <=> Testbench
  BY XceliumVhdlSame
     DEF XceliumVhdl!Testbench, Testbench, XceliumVhdl!GoOn, GoOn, XceliumVhdl!DesignWrites,
         DesignWrites
<1> QED
  BY <1>1, <1>2, <1>3, <1>4

(* In chunks that are as wide as the value, there is but the first.        *)
LEMMA OneChunk ==
  ASSUME NEW k \in 0..(MaxWidth - 1)
  PROVE  (k \div MaxWidth) * MaxWidth = 0 /\ k \div MaxWidth = 0 /\ k % MaxWidth = k
OBVIOUS

(* Reading: VHDL in Xcelium.                                               *)
LEMMA XceliumVhdlGets ==
  ASSUME SignalOK, NEW p \in Path, NEW v \in Data
  PROVE  /\ GotIt(p, XceliumVhdl!get_vhdl(p, v))
         /\ ~Exists(p) =>
              /\ GotIt(p, XceliumVhdl!get_vlog(p, v))
              /\ GotIt(p, XceliumVhdl!Got(0, v, {FALSE}))
<1> USE XceliumVhdlSame DEF XceliumVhdl!Got
<1>1. v = [k \in 0..(MaxWidth - 1) |-> v[k]] /\ \A k \in 0..(MaxWidth - 1) : v[k] \in Logic
  BY DEF Data
<1>2. ASSUME ~Exists(p)
      PROVE  GotIt(p, XceliumVhdl!get_vlog(p, v)) /\ GotIt(p, XceliumVhdl!get_vhdl(p, v))
  <2>1. /\ XceliumVhdl!get_vlog(p, v) = XceliumVhdl!Got(0, v, {FALSE})
        /\ XceliumVhdl!get_vhdl(p, v) = XceliumVhdl!Got(0, v, {TRUE})
    BY <1>2 DEF XceliumVhdl!get_vlog, XceliumVhdl!get_vhdl
  <2> QED
    BY <1>2, <2>1 DEF GotIt, Found
<1>3. ASSUME Exists(p), Width(p) = 1
      PROVE  GotIt(p, XceliumVhdl!get_vhdl(p, v))
  <2> DEFINE w == [k \in DOMAIN v |-> IF k = 0 THEN sig[Places(p)[0]]
                                      ELSE IF k < MaxWidth THEN "0" ELSE v[k]]
  <2>1. XceliumVhdl!get_vhdl(p, v) = XceliumVhdl!Got(1, w, {FALSE})
    <3>1. XceliumVhdl!Exists(p) /\ ~(XceliumVhdl!Width(p) > MaxWidth) /\ XceliumVhdl!Width(p) = 1
      BY <1>3
    <3>2. w = [k \in DOMAIN v |-> IF k = 0 THEN sig[XceliumVhdl!Places(p)[0]]
                                   ELSE IF k < MaxWidth THEN "0" ELSE v[k]]
      OBVIOUS
    <3> HIDE DEF w
    <3> QED
      BY <3>1, <3>2 DEF XceliumVhdl!get_vhdl
  <2>2. w = [k \in 0..(MaxWidth - 1) |-> w[k]]
    BY <1>1
  <2>3. DOMAIN Places(p) = {0}
    <3>1. DOMAIN Places(p) = 0..(1 - 1)
      BY <1>3, PlacesFacts DEF Counted
    <3> QED
      BY <3>1
  <2>4. \A k \in 0..(MaxWidth - 1) :
          IF k \in DOMAIN Places(p) THEN w[k] = sig[Places(p)[k]] ELSE w[k] \in Logic
    BY <1>1, <2>3 DEF Logic
  <2> HIDE DEF w
  <2>5. w \in Data /\ Held(p, w)
    BY <1>3, <2>2, <2>4, ValueHeld
  <2> QED
    BY <1>3, <2>1, <2>5 DEF GotIt, Found
<1>4. ASSUME Exists(p), Width(p) # 1
      PROVE  GotIt(p, XceliumVhdl!get_vhdl(p, v))
  <2> DEFINE w == XceliumVhdl!VhdlVector(p)
  <2>1. Width(p) \in 1..MaxWidth /\ DOMAIN Places(p) = 0..(Width(p) - 1)
    BY <1>4, PlacesFacts DEF Counted
  <2>2. XceliumVhdl!Chunks(Width(p)) = 1
    BY <2>1, OneChunk DEF XceliumVhdl!Chunks
  <2>3. XceliumVhdl!get_vhdl(p, v) = XceliumVhdl!Got(1, w, {FALSE})
    <3>1. /\ XceliumVhdl!Exists(p) /\ ~(XceliumVhdl!Width(p) > MaxWidth)
          /\ XceliumVhdl!Width(p) # 1 /\ XceliumVhdl!Chunks(XceliumVhdl!Width(p)) = 1
      BY <1>4, <2>1, <2>2
    <3>2. XceliumVhdl!get_vhdl(p, v) = XceliumVhdl!Got(1, w, {FALSE, 1 > 1})
      BY <3>1 DEF XceliumVhdl!get_vhdl
    <3>3. (1 > 1) = FALSE
      BY SMT
    <3> QED
      BY <3>2, <3>3
  <2>4. w = [k \in 0..(MaxWidth - 1) |-> w[k]]
    BY DEF XceliumVhdl!VhdlVector
  <2>5. ASSUME NEW k \in 0..(MaxWidth - 1)
        PROVE  w[k] = IF k \in DOMAIN Places(p) THEN sig[Places(p)[k]] ELSE "0"
    <3>1. w[k] = IF k < Width(p) THEN sig[Places(p)[Width(p) - 1 - (Width(p) - 1 - k)]] ELSE "0"
      <4>1. (k \div MaxWidth) * MaxWidth = 0 /\ k % MaxWidth = k
        BY OneChunk
      <4>2. w[k] = LET first == (k \div MaxWidth) * MaxWidth
                       bits  == IF Width(p) - first < MaxWidth THEN Width(p) - first ELSE MaxWidth
                       bit   == first + bits - 1 - (k % MaxWidth)
                   IN IF k - first < bits THEN sig[Places(p)[Width(p) - 1 - bit]] ELSE "0"
        BY DEF XceliumVhdl!VhdlVector
      <4>3. (IF Width(p) - 0 < MaxWidth THEN Width(p) - 0 ELSE MaxWidth) = Width(p)
        BY <2>1
      <4>4. k - 0 = k /\ 0 + Width(p) - 1 - k = Width(p) - 1 - k
        BY <2>1
      <4> HIDE DEF w
      <4> QED
        BY <4>1, <4>2, <4>3, <4>4
    <3>2. Width(p) - 1 - (Width(p) - 1 - k) = k
      BY <2>1
    <3> HIDE DEF w
    <3> QED
      BY <2>1, <3>1, <3>2
  <2> HIDE DEF w
  <2>6. w \in Data /\ Held(p, w)
    BY <1>4, <2>4, <2>5, ValueHeld DEF Logic
  <2> QED
    BY <1>4, <2>3, <2>6 DEF GotIt, Found
<1>5. ~Exists(p) => GotIt(p, XceliumVhdl!Got(0, v, {FALSE}))
  BY DEF GotIt, Found
<1> QED
  BY <1>2, <1>3, <1>4, <1>5

(* What has been read is answered: VHDL in Xcelium.                        *)
LEMMA XceliumVhdlAnswers ==
  ASSUME NEW c \in Calls, NEW got, ended = FALSE, GotIt(c.path, got), XceliumVhdl!GotAnswer(c, got)
  PROVE  Gets(c) /\ EndsOnlyLost("xcelium_vhdl", c)
<1>1. Answer(c, got.ret, got.value) /\ ended' \in got.ends
  BY XceliumVhdlPuts DEF XceliumVhdl!GotAnswer
<1> QED
  BY <1>1 DEF GotIt, Gets, EndsOnlyLost

(* Setting and releasing: VHDL in Xcelium.                                 *)
LEMMA XceliumVhdlSets ==
  ASSUME SignalOK, ended = FALSE, NEW c \in Calls, c.path.kind # "slice", NEW flag \in Flags,
         XceliumVhdl!set_path(c, flag)
  PROVE  Sets(flag, c) /\ EndsOnlyLost("xcelium_vhdl", c)
<1> USE XceliumVhdlSame, XceliumVhdlPuts, CallFacts
<1>1. CASE Exists(c.path)
  <2>1. XceliumVhdl!set_vhdl(c, flag)
    BY <1>1 DEF XceliumVhdl!set_path, XceliumVhdl!Language
  <2>2. PICK f \in Written(c.path, DOMAIN Places(c.path), c.value) : PutValue(flag, f)
    BY <1>1, <2>1 DEF XceliumVhdl!set_vhdl
  <2>3. Tried(flag, c, Found(c.path))
    BY <1>1, <2>2, AllTried
  <2>4. ~(Width(c.path) > MaxWidth)
    BY <1>1, PlacesFacts
  <2>5. Answer(c, Found(c.path), c.value)
    BY <1>1, <2>1 DEF XceliumVhdl!set_vhdl, Found
  <2>6. ended' = (Width(c.path) > MaxWidth)
    BY <1>1, <2>1 DEF XceliumVhdl!set_vhdl
  <2>7. ended' = FALSE
    <3> DEFINE wide == Width(c.path) > MaxWidth
    <3>1. wide = FALSE
      BY <2>4
    <3>2. ended' = wide
      BY <2>6
    <3> HIDE DEF wide
    <3> QED
      BY <3>1, <3>2
  <2> QED
    BY <2>3, <2>5, <2>7 DEF Sets, EndsOnlyLost
<1>2. CASE ~Exists(c.path)
  <2>1. NoPut /\ Answer(c, 0, c.value) /\ (ended' = ended \/ ended' = TRUE)
    BY <1>2 DEF XceliumVhdl!set_path, XceliumVhdl!set_vlog, XceliumVhdl!set_vhdl
  <2>2. Tried(flag, c, Found(c.path))
    BY <1>2, <2>1, NothingTried DEF Found
  <2> QED
    BY <1>2, <2>1, <2>2 DEF Sets, EndsOnlyLost, Found
<1> QED
  BY <1>1, <1>2

(* VHDL in Xcelium: through VHPI.                                          *)
LEMMA XceliumVhdlServes ==
  ASSUME SignalOK, ended = FALSE, NEW c \in Calls, Straight("xcelium_vhdl", c),
         XceliumVhdl!Call(c)
  PROVE  Kept("xcelium_vhdl", c)
<1> USE XceliumVhdlSame, XceliumVhdlPuts, CallFacts
<1> c.path.kind # "slice"
  BY DEF Straight
<1>1. call = NoCall
  BY DEF XceliumVhdl!Call
<1>2. CASE XceliumVhdl!uvm_hdl_check_path(c)
  <2>1. c.op = "check_path" /\ NoPut /\ Answer(c, Found(c.path), c.value) /\ ended' = ended
    BY <1>2 DEF XceliumVhdl!uvm_hdl_check_path, Found
  <2> QED
    BY <1>1, <2>1, ServesKept DEF Serves, EndsOnlyLost
<1>3. CASE XceliumVhdl!uvm_hdl_read(c)
  <2>1. c.op = "read" /\ NoPut /\ XceliumVhdl!get_path(c)
    BY <1>3 DEF XceliumVhdl!uvm_hdl_read
  <2>2. \E got : GotIt(c.path, got) /\ XceliumVhdl!GotAnswer(c, got)
    BY <2>1, XceliumVhdlGets DEF XceliumVhdl!get_path, XceliumVhdl!Language
  <2> QED
    BY <1>1, <2>1, <2>2, XceliumVhdlAnswers, ServesKept DEF Serves
<1>4. CASE \/ XceliumVhdl!uvm_hdl_deposit(c) \/ XceliumVhdl!uvm_hdl_force(c)
           \/ XceliumVhdl!uvm_hdl_release(c)
  <2>1. \E flag \in Flags : c.op = flag /\ XceliumVhdl!set_path(c, flag)
    BY <1>4 DEF XceliumVhdl!uvm_hdl_deposit, XceliumVhdl!uvm_hdl_force,
                XceliumVhdl!uvm_hdl_release, Flags
  <2>2. PICK flag \in Flags : c.op = flag /\ XceliumVhdl!set_path(c, flag)
    BY <2>1
  <2>3. Sets(flag, c) /\ EndsOnlyLost("xcelium_vhdl", c)
    BY <2>2, XceliumVhdlSets
  <2>4. Serves(c)
    BY <2>2, <2>3 DEF Serves, Sets, Flags
  <2> QED
    BY <1>1, <2>3, <2>4, ServesKept
<1>5. CASE XceliumVhdl!uvm_hdl_release_and_read(c)
  <2>1. c.op = "release_and_read" /\ c.path.kind # "slice"
    BY <1>5 DEF XceliumVhdl!uvm_hdl_release_and_read, Straight
  <2>2. IF Exists(c.path)
        THEN PutValue("release", [i \in Targets(c.path, DOMAIN Places(c.path)) |-> "0"])
        ELSE NoPut
    BY <1>5, <2>1 DEF XceliumVhdl!uvm_hdl_release_and_read, Targets
  <2>3. Tried("release", c, Found(c.path))
    <3>1. CASE Exists(c.path)
      <4> DEFINE f == [i \in Targets(c.path, DOMAIN Places(c.path)) |-> "0"]
      <4>1. PutValue("release", f) /\ DOMAIN f = Targets(c.path, DOMAIN Places(c.path))
        BY <2>2, <3>1
      <4> HIDE DEF f
      <4> QED
        BY <3>1, <4>1, ReleaseTried
    <3>2. CASE ~Exists(c.path)
      BY <2>2, <3>2, NothingTried DEF Found, Flags
    <3> QED
      BY <3>1, <3>2
  <2>4. \E got : GotIt(c.path, got) /\ XceliumVhdl!GotAnswer(c, got)
    BY <1>5, <2>1, XceliumVhdlGets DEF XceliumVhdl!uvm_hdl_release_and_read, XceliumVhdl!Language
  <2> QED
    BY <1>1, <2>1, <2>3, <2>4, XceliumVhdlAnswers, ServesKept DEF Serves
<1> QED
  BY <1>2, <1>3, <1>4, <1>5 DEF XceliumVhdl!Call

-----------------------------------------------------------------------------
(* Questa.                                                                 *)

(* The bits that a loop reaches are counted without a gap: the one before  *)
(* the first that is missing has been reached.                             *)
LEMMA ReachedBefore ==
  ASSUME NEW p \in Path, NEW k \in DOMAIN Places(p), k = Cardinality(Reached(p)), k # 0
  PROVE  k - 1 \in Reached(p)
<1>1. k \in Nat /\ DOMAIN Places(p) = 0..(Width(p) - 1) /\ Width(p) \in Nat
  BY PlacesFacts DEF Counted
<1>2. SUFFICES ASSUME k - 1 \notin Reached(p)
               PROVE  FALSE
  OBVIOUS
<1>3. \A j \in Reached(p), i \in DOMAIN Places(p) : i <= j => i \in Reached(p)
  BY <1>1 DEF Reached
<1>4. Reached(p) \subseteq 0..(k - 2)
  <2>1. ASSUME NEW j \in Reached(p)
        PROVE  j \in 0..(k - 2)
    <3>1. j \in 0..(Width(p) - 1)
      BY <1>1 DEF Reached
    <3>2. k - 1 \in DOMAIN Places(p)
      BY <1>1
    <3>3. ~(k - 1 <= j)
      BY <1>2, <1>3, <3>2
    <3> QED
      BY <1>1, <3>1, <3>3
  <2> QED
    BY <2>1
<1>5. IsFiniteSet(0..(k - 2)) /\ Cardinality(0..(k - 2)) = k - 1
  <2>1. 0 \in Int /\ k - 2 \in Int
    BY <1>1
  <2>2. IsFiniteSet(0..(k - 2)) /\ Cardinality(0..(k - 2)) = IF 0 > k - 2 THEN 0 ELSE k - 2 - 0 + 1
    BY <2>1, FS_Interval
  <2> QED
    BY <1>1, <2>2
<1>6. Cardinality(Reached(p)) <= Cardinality(0..(k - 2))
  BY <1>4, <1>5, FS_Subset
<1> QED
  BY <1>1, <1>5, <1>6

(* The first that is missing has not been reached.                         *)
LEMMA ReachedBelow ==
  ASSUME NEW p \in Path, NEW k \in Reached(p)
  PROVE  k # Cardinality(Reached(p))
<1>1. k \in 0..(Width(p) - 1) /\ DOMAIN Places(p) = 0..(Width(p) - 1) /\ Width(p) \in Nat
  BY PlacesFacts DEF Counted, Reached
<1>2. 0..k \subseteq Reached(p)
  <2>1. ASSUME NEW i \in 0..k
        PROVE  i \in Reached(p)
    <3>1. \A j \in 0..i : j \in 0..k
      BY <1>1
    <3>2. \A j \in 0..k : Places(p)[j] \in Index
      BY DEF Reached
    <3>3. i \in DOMAIN Places(p)
      BY <1>1
    <3> QED
      BY <3>1, <3>2, <3>3 DEF Reached
  <2> QED
    BY <2>1
<1>3. IsFiniteSet(Reached(p))
  <2>1. Reached(p) \subseteq 0..(Width(p) - 1)
    BY <1>1 DEF Reached
  <2>2. IsFiniteSet(0..(Width(p) - 1))
    BY <1>1, FS_Interval
  <2> QED
    BY <2>1, <2>2, FS_Subset
<1>4. Cardinality(0..k) = k + 1
  BY <1>1, FS_Interval
<1>5. Cardinality(0..k) <= Cardinality(Reached(p))
  BY <1>2, <1>3, FS_Subset
<1> QED
  BY <1>1, <1>4, <1>5

(* The signal and its paths are the same for Verilog in Questa.            *)
LEMMA QuestaVlogSame ==
  /\ QuestaVlog!Index = Index /\ QuestaVlog!NoCall = NoCall
  /\ \A p : QuestaVlog!Places(p) = Places(p)
  /\ \A p : QuestaVlog!Exists(p) <=> Exists(p)
  /\ \A p : QuestaVlog!Width(p) = Width(p) /\ QuestaVlog!Reached(p) = Reached(p)
  /\ \A p, K, v : QuestaVlog!Written(p, K, v) = Written(p, K, v)
<1>1. QuestaVlog!Index = Index /\ QuestaVlog!NoCall = NoCall
  BY DEF QuestaVlog!Index, Index, QuestaVlog!NoCall, NoCall
<1>2. \A p : QuestaVlog!Places(p) = Places(p)
  BY DEF QuestaVlog!Places, Places, QuestaVlog!Index, Index
<1>3. \A p : QuestaVlog!Exists(p) <=> Exists(p)
  BY <1>1, <1>2 DEF QuestaVlog!Exists, Exists
<1>4. \A p : QuestaVlog!Width(p) = Width(p) /\ QuestaVlog!Reached(p) = Reached(p)
  <2>1. \A S : QuestaVlog!Cardinality(S) = Cardinality(S)
    BY DEF QuestaVlog!Cardinality, Cardinality
  <2> QED
    BY <1>1, <1>2, <2>1 DEF QuestaVlog!Width, Width, QuestaVlog!Reached, Reached
<1>5. \A p, K, v : QuestaVlog!Written(p, K, v) = Written(p, K, v)
  BY <1>2 DEF QuestaVlog!Written, Written, QuestaVlog!Logic, Logic
<1> QED
  BY <1>1, <1>2, <1>3, <1>4, <1>5

(* So are putting, answering and the rest of the testbench.                *)
LEMMA QuestaVlogPuts ==
  /\ QuestaVlog!NoPut <=> NoPut
  /\ \A flag, f : QuestaVlog!PutValue(flag, f) <=> PutValue(flag, f)
  /\ \A c, ret, value : QuestaVlog!Answer(c, ret, value) <=> Answer(c, ret, value)
  /\ QuestaVlog!Testbench <=> Testbench
<1>1. QuestaVlog!NoPut <=> NoPut
  BY DEF QuestaVlog!NoPut, NoPut
<1>2. \A flag, f : QuestaVlog!PutValue(flag, f) <=> PutValue(flag, f)
  BY DEF QuestaVlog!PutValue, PutValue, QuestaVlog!Index, Index
<1>3. \A c, ret, value : QuestaVlog!Answer(c, ret, value) <=> Answer(c, ret, value)
  BY DEF QuestaVlog!Answer, Answer
<1>4. QuestaVlog!Testbench <=> Testbench
  BY QuestaVlogSame
     DEF QuestaVlog!Testbench, Testbench, QuestaVlog!GoOn, GoOn, QuestaVlog!DesignWrites,
         DesignWrites
<1> QED
  BY <1>1, <1>2, <1>3, <1>4

(* What is left of a value when its chunks are cleared is a value.         *)
LEMMA QuestaVlogCleared ==
  ASSUME NEW v \in Data
  PROVE  QuestaVlog!Cleared(v) \in Data
<1>1. v = [k \in 0..(MaxWidth - 1) |-> v[k]] /\ \A k \in 0..(MaxWidth - 1) : v[k] \in Logic
  BY DEF Data
<1> QED
  BY <1>1 DEF QuestaVlog!Cleared, Data, Logic

(* A slice is gathered bit by bit.                                         *)
LEMMA QuestaVlogGathered ==
  ASSUME SignalOK, NEW p \in Path, NEW v \in Data
  PROVE  /\ QuestaVlog!Gathered(p, v) \in Data
         /\ Exists(p) => Held(p, QuestaVlog!Gathered(p, v))
<1> DEFINE w == QuestaVlog!Gathered(p, v)
           next == Cardinality(Reached(p))
<1>1. v = [k \in 0..(MaxWidth - 1) |-> v[k]] /\ \A k \in 0..(MaxWidth - 1) : v[k] \in Logic
  BY DEF Data
<1>2. QuestaVlog!Cardinality(QuestaVlog!Reached(p)) = next
  <2>1. \A S : QuestaVlog!Cardinality(S) = Cardinality(S)
    BY DEF QuestaVlog!Cardinality, Cardinality
  <2> QED
    BY <2>1, QuestaVlogSame
<1>3. w = [k \in 0..(MaxWidth - 1) |->
             CASE k \in Reached(p) -> sig[Places(p)[k]]
               [] k = next /\ k \in DOMAIN Places(p) ->
                    IF k = 0 THEN "0" ELSE sig[Places(p)[k - 1]]
               [] OTHER -> v[k]]
  <2> HIDE DEF next
  <2> QED
    BY <1>1, <1>2, QuestaVlogSame DEF QuestaVlog!Gathered
<1>4. \A k \in Reached(p) : sig[Places(p)[k]] \in Logic
  BY ReachedFacts DEF SignalOK
<1>5. \A k \in DOMAIN Places(p) : k = next /\ k # 0 => k - 1 \in Reached(p)
  BY ReachedBefore
<1>6. Exists(p) => Reached(p) = DOMAIN Places(p)
  BY ReachedFacts
<1>0. \A k \in Reached(p) : k # next
  BY ReachedBelow
<1> HIDE DEF w, next
<1>7. \A k \in 0..(MaxWidth - 1) : w[k] \in Logic
  <2>1. ASSUME NEW k \in 0..(MaxWidth - 1)
        PROVE  w[k] \in Logic
    <3>1. CASE k \in Reached(p)
      BY <1>0, <1>3, <1>4, <3>1
    <3>2. CASE k \notin Reached(p) /\ k = next /\ k \in DOMAIN Places(p)
      <4>1. w[k] = IF k = 0 THEN "0" ELSE sig[Places(p)[k - 1]]
        BY <1>3, <3>2
      <4> QED
        BY <1>4, <1>5, <3>2, <4>1 DEF Logic
    <3>3. CASE k \notin Reached(p) /\ ~(k = next /\ k \in DOMAIN Places(p))
      BY <1>1, <1>3, <3>3
    <3> QED
      BY <3>1, <3>2, <3>3
  <2> QED
    BY <2>1
<1>8. w = [k \in 0..(MaxWidth - 1) |-> w[k]]
  BY <1>3
<1>9. w \in Data
  BY <1>7, <1>8 DEF Data
<1>10. ASSUME Exists(p)
       PROVE  Held(p, w)
  <2>1. \A k \in 0..(MaxWidth - 1) : k \in DOMAIN Places(p) => w[k] = sig[Places(p)[k]]
    BY <1>0, <1>3, <1>6, <1>10
  <2> QED
    BY <1>7, <1>8, <1>10, <2>1, ValueHeld
<1> QED
  BY <1>9, <1>10 DEF w

(* The chunks of an object are copied.                                     *)
LEMMA QuestaVlogCopied ==
  ASSUME SignalOK, NEW p \in Path, NEW v \in Data, Exists(p)
  PROVE  QuestaVlog!Copied(p, v) \in Data /\ Held(p, QuestaVlog!Copied(p, v))
<1> DEFINE w == QuestaVlog!Copied(p, v)
<1>1. v = [k \in 0..(MaxWidth - 1) |-> v[k]] /\ \A k \in 0..(MaxWidth - 1) : v[k] \in Logic
  BY DEF Data
<1>2. w = [k \in 0..(MaxWidth - 1) |-> w[k]]
  BY <1>1 DEF QuestaVlog!Copied
<1>3. \A k \in 0..(MaxWidth - 1) :
        IF k \in DOMAIN Places(p) THEN w[k] = sig[Places(p)[k]] ELSE w[k] \in Logic
  BY <1>1, QuestaVlogSame DEF QuestaVlog!Copied, Logic
<1> HIDE DEF w
<1>4. w \in Data /\ Held(p, w)
  BY <1>2, <1>3, ValueHeld
<1> QED
  BY <1>4 DEF w

(* Reading: Verilog in Questa.                                             *)
LEMMA QuestaVlogGets ==
  ASSUME SignalOK, NEW c \in Calls, QuestaVlog!get_vlog(c, c.path)
  PROVE  Gets(c) /\ (partsel \in BOOLEAN => partsel' \in BOOLEAN)
<1> USE QuestaVlogSame, QuestaVlogPuts, CallFacts
<1>1. QuestaVlog!Cleared(c.value) \in Data
  BY QuestaVlogCleared
<1>2. CASE c.path.kind = "slice"
  <2>1. QuestaVlog!get_vlog_partsel(c, c.path)
    BY <1>2 DEF QuestaVlog!get_vlog
  <2>2. /\ Answer(c, Found(c.path), QuestaVlog!Gathered(c.path, QuestaVlog!Cleared(c.value)))
        /\ partsel' \in BOOLEAN
    BY <2>1 DEF QuestaVlog!get_vlog_partsel, QuestaVlog!VlogAnswer, Found
  <2> QED
    BY <1>1, <2>2, QuestaVlogGathered DEF Gets
<1>3. CASE c.path.kind # "slice"
  <2>1. QuestaVlog!get_vlog_object(c, c.path)
    BY <1>3 DEF QuestaVlog!get_vlog
  <2>2. CASE Exists(c.path)
    <3>1. /\ Answer(c, Found(c.path), QuestaVlog!Copied(c.path, QuestaVlog!Cleared(c.value)))
          /\ partsel' = partsel
      BY <2>1, <2>2, PlacesFacts DEF QuestaVlog!get_vlog_object, Found
    <3> QED
      BY <1>1, <2>2, <3>1, QuestaVlogCopied DEF Gets
  <2>3. CASE ~Exists(c.path)
    <3>1. Answer(c, Found(c.path), QuestaVlog!Cleared(c.value)) /\ partsel' = partsel
      BY <2>1, <2>3 DEF QuestaVlog!get_vlog_object, Found
    <3> QED
      BY <1>1, <2>3, <3>1 DEF Gets
  <2> QED
    BY <2>2, <2>3
<1> QED
  BY <1>2, <1>3

(* Setting and releasing: Verilog in Questa.                               *)
LEMMA QuestaVlogSets ==
  ASSUME NEW c \in Calls, NEW flag, QuestaVlog!set_vlog(c, flag)
  PROVE  Sets(flag, c) /\ partsel' = partsel
<1> USE QuestaVlogSame, QuestaVlogPuts, CallFacts
<1>1. PICK f \in Written(c.path, Reached(c.path), c.value) : PutValue(flag, f)
  BY DEF QuestaVlog!set_vlog, QuestaVlog!VlogBits
<1>2. Tried(flag, c, Found(c.path))
  BY <1>1, PartTried DEF Found
<1>3. Answer(c, Found(c.path), c.value) /\ partsel' = partsel
  BY DEF QuestaVlog!set_vlog, QuestaVlog!VlogAnswer, Found
<1> QED
  BY <1>2, <1>3 DEF Sets

(* Verilog in Questa: through VPI, slices bit by bit.                      *)
LEMMA QuestaVlogServes ==
  ASSUME SignalOK, ended = FALSE, partsel \in BOOLEAN, NEW c \in Calls,
         Straight("questa_vlog", c), QuestaVlog!Call(c)
  PROVE  Kept("questa_vlog", c) /\ partsel' \in BOOLEAN
<1> USE QuestaVlogSame, QuestaVlogPuts, CallFacts
<1>1. call = NoCall /\ EndsOnlyLost("questa_vlog", c)
  BY DEF QuestaVlog!Call, EndsOnlyLost
<1>2. ~QuestaVlog!uvm_is_vhdl_path(c.path)
  BY DEF QuestaVlog!uvm_is_vhdl_path
<1>3. SUFFICES Serves(c) /\ partsel' \in BOOLEAN
  BY <1>1, ServesKept
<1>4. CASE QuestaVlog!uvm_hdl_check_path(c)
  BY <1>2, <1>4 DEF QuestaVlog!uvm_hdl_check_path, Serves, Found
<1>5. CASE QuestaVlog!uvm_hdl_read(c)
  <2>1. c.op = "read" /\ NoPut /\ QuestaVlog!get_vlog(c, c.path)
    BY <1>2, <1>5 DEF QuestaVlog!uvm_hdl_read
  <2> QED
    BY <2>1, QuestaVlogGets DEF Serves
<1>6. CASE \/ QuestaVlog!uvm_hdl_deposit(c) \/ QuestaVlog!uvm_hdl_force(c)
           \/ QuestaVlog!uvm_hdl_release(c)
  <2>1. PICK flag \in Flags : c.op = flag /\ QuestaVlog!set_vlog(c, flag)
    BY <1>2, <1>6 DEF QuestaVlog!uvm_hdl_deposit, QuestaVlog!uvm_hdl_force,
                      QuestaVlog!uvm_hdl_release, QuestaVlog!Set, Flags
  <2>2. Sets(flag, c) /\ partsel' = partsel
    BY <2>1, QuestaVlogSets
  <2> QED
    BY <2>1, <2>2 DEF Serves, Sets, Flags
<1>7. CASE QuestaVlog!uvm_hdl_release_and_read(c)
  <2>1. c.op = "release_and_read" /\ c.path.kind # "slice"
    BY <1>7 DEF QuestaVlog!uvm_hdl_release_and_read, Straight
  <2>2. QuestaVlog!LastBit(c.path) = c.path
    BY <2>1 DEF QuestaVlog!LastBit
  <2>3. PICK f \in Written(c.path, Reached(c.path), c.value) : PutValue("release", f)
    BY <1>2, <1>7 DEF QuestaVlog!uvm_hdl_release_and_read, QuestaVlog!VlogBits
  <2>4. Tried("release", c, Found(c.path))
    BY <2>3, PartTried DEF Found
  <2>5. CASE Exists(c.path)
    <3>1. QuestaVlog!get_vlog(c, c.path)
      BY <1>2, <1>7, <2>2, <2>5 DEF QuestaVlog!uvm_hdl_release_and_read, QuestaVlog!VlogAnswer
    <3> QED
      BY <2>1, <2>4, <3>1, QuestaVlogGets DEF Serves
  <2>6. CASE ~Exists(c.path)
    <3>1. Answer(c, Found(c.path), c.value) /\ partsel' = partsel
      BY <1>2, <1>7, <2>6 DEF QuestaVlog!uvm_hdl_release_and_read, QuestaVlog!VlogAnswer, Found
    <3> QED
      BY <2>1, <2>4, <2>6, <3>1 DEF Serves, Gets
  <2> QED
    BY <2>5, <2>6
<1> QED
  BY <1>4, <1>5, <1>6, <1>7 DEF QuestaVlog!Call

(* The signal and its paths are the same for VHDL in Questa.               *)
LEMMA QuestaVhdlSame ==
  /\ QuestaVhdl!Index = Index /\ QuestaVhdl!NoCall = NoCall
  /\ \A p : QuestaVhdl!Places(p) = Places(p)
  /\ \A p : QuestaVhdl!Exists(p) <=> Exists(p)
  /\ \A p : QuestaVhdl!Width(p) = Width(p) /\ QuestaVhdl!Reached(p) = Reached(p)
  /\ \A p, K, v : QuestaVhdl!Written(p, K, v) = Written(p, K, v)
<1>1. QuestaVhdl!Index = Index /\ QuestaVhdl!NoCall = NoCall
  BY DEF QuestaVhdl!Index, Index, QuestaVhdl!NoCall, NoCall
<1>2. \A p : QuestaVhdl!Places(p) = Places(p)
  BY DEF QuestaVhdl!Places, Places, QuestaVhdl!Index, Index
<1>3. \A p : QuestaVhdl!Exists(p) <=> Exists(p)
  BY <1>1, <1>2 DEF QuestaVhdl!Exists, Exists
<1>4. \A p : QuestaVhdl!Width(p) = Width(p) /\ QuestaVhdl!Reached(p) = Reached(p)
  <2>1. \A S : QuestaVhdl!Cardinality(S) = Cardinality(S)
    BY DEF QuestaVhdl!Cardinality, Cardinality
  <2> QED
    BY <1>1, <1>2, <2>1 DEF QuestaVhdl!Width, Width, QuestaVhdl!Reached, Reached
<1>5. \A p, K, v : QuestaVhdl!Written(p, K, v) = Written(p, K, v)
  BY <1>2 DEF QuestaVhdl!Written, Written, QuestaVhdl!Logic, Logic
<1> QED
  BY <1>1, <1>2, <1>3, <1>4, <1>5

(* So are putting, answering and the rest of the testbench.                *)
LEMMA QuestaVhdlPuts ==
  /\ QuestaVhdl!NoPut <=> NoPut
  /\ \A flag, f : QuestaVhdl!PutValue(flag, f) <=> PutValue(flag, f)
  /\ \A c, ret, value : QuestaVhdl!Answer(c, ret, value) <=> Answer(c, ret, value)
  /\ QuestaVhdl!Testbench <=> Testbench
<1>1. QuestaVhdl!NoPut <=> NoPut
  BY DEF QuestaVhdl!NoPut, NoPut
<1>2. \A flag, f : QuestaVhdl!PutValue(flag, f) <=> PutValue(flag, f)
  BY DEF QuestaVhdl!PutValue, PutValue, QuestaVhdl!Index, Index
<1>3. \A c, ret, value : QuestaVhdl!Answer(c, ret, value) <=> Answer(c, ret, value)
  BY DEF QuestaVhdl!Answer, Answer
<1>4. QuestaVhdl!Testbench <=> Testbench
  BY QuestaVhdlSame
     DEF QuestaVhdl!Testbench, Testbench, QuestaVhdl!GoOn, GoOn, QuestaVhdl!DesignWrites,
         DesignWrites
<1> QED
  BY <1>1, <1>2, <1>3, <1>4

(* A string of digits, most significant first, becomes the value.          *)
LEMMA QuestaVhdlVector ==
  ASSUME SignalOK, NEW p \in Path, NEW v \in Data, Exists(p), NEW s \in QuestaVhdl!Characters(p)
  PROVE  LET w == QuestaVhdl!string_to_vecval(s, Width(p), v)
         IN w \in Data /\ Held(p, w)
<1> DEFINE w == QuestaVhdl!string_to_vecval(s, Width(p), v)
<1>1. v = [k \in 0..(MaxWidth - 1) |-> v[k]] /\ \A k \in 0..(MaxWidth - 1) : v[k] \in Logic
  BY DEF Data
<1>2. Width(p) \in 1..MaxWidth /\ DOMAIN Places(p) = 0..(Width(p) - 1)
  BY PlacesFacts DEF Counted
<1>3. w = [k \in 0..(MaxWidth - 1) |-> w[k]]
  BY <1>1 DEF QuestaVhdl!string_to_vecval
<1>4. ASSUME NEW k \in DOMAIN Places(p)
      PROVE  s[Width(p) - 1 - k] = sig[Places(p)[k]]
  <2>1. s \in [0..(Width(p) - 1) -> Logic]
    BY QuestaVhdlSame DEF QuestaVhdl!Characters, QuestaVhdl!Logic, Logic
  <2>2. \A j \in DOMAIN s : Places(p)[Width(p) - 1 - j] \in Index =>
                              s[j] = sig[Places(p)[Width(p) - 1 - j]]
    BY QuestaVhdlSame DEF QuestaVhdl!Characters
  <2>3. Width(p) - 1 - k \in DOMAIN s /\ Width(p) - 1 - (Width(p) - 1 - k) = k
    BY <1>2, <2>1
  <2> QED
    BY <2>2, <2>3 DEF Exists
<1>5. ASSUME NEW k \in 0..(MaxWidth - 1)
      PROVE  IF k \in DOMAIN Places(p) THEN w[k] = sig[Places(p)[k]] ELSE w[k] \in Logic
  <2>1. (k \div MaxWidth) * MaxWidth = 0 /\ k % MaxWidth = k
    BY OneChunk
  <2>2. w[k] = LET first == (k \div MaxWidth) * MaxWidth
                   bits  == IF Width(p) - first < MaxWidth THEN Width(p) - first ELSE MaxWidth
               IN IF k - first < bits THEN s[first + bits - 1 - (k % MaxWidth)]
                  ELSE IF k < QuestaVhdl!Chunks(Width(p)) * MaxWidth THEN "0" ELSE v[k]
    BY <1>1 DEF QuestaVhdl!string_to_vecval
  <2>3. (IF Width(p) - 0 < MaxWidth THEN Width(p) - 0 ELSE MaxWidth) = Width(p)
    BY <1>2
  <2>4. k - 0 = k /\ 0 + Width(p) - 1 - k = Width(p) - 1 - k
    BY <1>2
  <2> HIDE DEF w
  <2>5. w[k] = IF k < Width(p) THEN s[Width(p) - 1 - k]
               ELSE IF k < QuestaVhdl!Chunks(Width(p)) * MaxWidth THEN "0" ELSE v[k]
    BY <2>1, <2>2, <2>3, <2>4
  <2>6. k \in DOMAIN Places(p) <=> k < Width(p)
    BY <1>2
  <2> QED
    BY <1>1, <1>4, <2>5, <2>6 DEF Logic
<1> HIDE DEF w
<1>6. w \in Data /\ Held(p, w)
  BY <1>3, <1>5, ValueHeld
<1> QED
  BY <1>6 DEF w

(* Reading: VHDL in Questa.                                                *)
LEMMA QuestaVhdlGets ==
  ASSUME SignalOK, NEW c \in Calls, Exists(c.path), QuestaVhdl!get_vhdl(c)
  PROVE  Gets(c) /\ partsel' = partsel
<1> USE QuestaVhdlSame, QuestaVhdlPuts, CallFacts
<1>1. PICK s \in QuestaVhdl!Characters(c.path) :
        Answer(c, 1, QuestaVhdl!string_to_vecval(s, Width(c.path), c.value))
  BY DEF QuestaVhdl!get_vhdl
<1>2. Gets(c)
  BY <1>1, QuestaVhdlVector DEF Gets, Found
<1> QED
  BY <1>2 DEF QuestaVhdl!get_vhdl

(* Of the values a call is made with, those of the bits of a slice go into *)
(* them.                                                                   *)
LEMMA QuestaVhdlSlice ==
  ASSUME NEW p \in Path, NEW v \in Data, Exists(p), NEW f \in QuestaVhdl!SliceBits(p, v)
  PROVE  /\ DOMAIN f = Targets(p, DOMAIN Places(p))
         /\ (\A k \in DOMAIN Places(p) : k < MaxWidth => v[k] # "x") =>
              f \in Written(p, DOMAIN Places(p), v)
<1> USE QuestaVhdlSame
<1>1. Targets(p, DOMAIN Places(p)) \cap Index = Targets(p, DOMAIN Places(p))
  BY DEF Exists, Targets
<1>2. f \in [Targets(p, DOMAIN Places(p)) -> {"0", "1"}]
  BY <1>1 DEF QuestaVhdl!SliceBits, Targets
<1>3. \A k \in DOMAIN Places(p) : k < MaxWidth => f[Places(p)[k]] = QuestaVhdl!TwoValued(v[k])
  <2>1. \A k \in DOMAIN Places(p) : Places(p)[k] \in Index /\ k < Size
    BY PlacesFacts DEF Exists, Counted
  <2> QED
    BY <2>1 DEF QuestaVhdl!SliceBits
<1>4. ASSUME \A k \in DOMAIN Places(p) : k < MaxWidth => v[k] # "x"
      PROVE  f \in Written(p, DOMAIN Places(p), v)
  <2>1. \A k \in DOMAIN Places(p) : k < MaxWidth => v[k] \in Logic
    BY PlacesFacts DEF Counted, Data
  <2>2. \A k \in DOMAIN Places(p) : k < MaxWidth => f[Places(p)[k]] = v[k]
    BY <1>3, <1>4, <2>1 DEF QuestaVhdl!TwoValued, Logic
  <2>3. f \in [Targets(p, DOMAIN Places(p)) -> Logic]
    BY <1>2 DEF Logic
  <2> QED
    BY <2>2, <2>3 DEF Written, Targets
<1> QED
  BY <1>2, <1>4

(* Setting and releasing: VHDL in Questa.                                  *)
LEMMA QuestaVhdlSets ==
  ASSUME NEW c \in Calls, Straight("questa_vhdl", c), c.path.kind # "nowhere",
         NEW flag \in Flags, QuestaVhdl!set_vhdl(c, flag),
         c.op = flag \/ (flag = "release" /\ c.op = "release_and_read")
  PROVE  Tried(flag, c, Found(c.path))
<1> USE QuestaVhdlSame, QuestaVhdlPuts, CallFacts
<1>1. Exists(c.path)
  BY DEF Straight
<1>2. CASE c.path.kind = "whole"
  <2>1. DOMAIN Places(c.path) = Index
    BY <1>2 DEF Places
  <2>2. PICK f \in Written(c.path, DOMAIN Places(c.path), c.value) : PutValue(flag, f)
    BY <1>2, <2>1 DEF QuestaVhdl!set_vhdl
  <2> QED
    BY <1>1, <2>2, AllTried
<1>3. CASE c.path.kind = "slice"
  <2>1. PICK f \in QuestaVhdl!SliceBits(c.path, c.value) :
          PutValue(QuestaVhdl!PartFlag(flag), f)
    BY <1>3 DEF QuestaVhdl!set_vhdl
  <2>2. CASE flag = "release"
    <3>1. PutValue("release", f)
      BY <2>1, <2>2 DEF QuestaVhdl!PartFlag
    <3> QED
      BY <1>1, <2>2, <3>1, QuestaVhdlSlice, ReleaseTried
  <2>3. CASE flag # "release"
    <3>1. /\ c.op = "deposit" /\ flag = "deposit"
          /\ \A k \in DOMAIN Places(c.path) : k < MaxWidth => c.value[k] # "x"
      BY <1>1, <1>3, <2>3 DEF Straight, Flags
    <3>2. PutValue(flag, f)
      BY <2>1, <3>1 DEF QuestaVhdl!PartFlag
    <3> QED
      BY <1>1, <3>1, <3>2, QuestaVhdlSlice, AllTried
  <2> QED
    BY <2>2, <2>3
<1>4. CASE c.path.kind = "bit"
  <2>1. flag = "release"
    BY <1>1, <1>4 DEF Straight, Flags
  <2>2. PICK f \in QuestaVhdl!SingleBit(c.path, c.value) : PutValue("release", f)
    BY <1>4, <2>1 DEF QuestaVhdl!set_vhdl, QuestaVhdl!PartFlag
  <2>3. Places(c.path) = [k \in {0} |-> c.path.lhs]
    BY <1>4 DEF Places
  <2>4. c.path.lhs \in Index /\ Targets(c.path, DOMAIN Places(c.path)) = {c.path.lhs}
    BY <1>1, <2>3 DEF Exists, Targets
  <2>5. DOMAIN f = Targets(c.path, DOMAIN Places(c.path))
    BY <2>4 DEF QuestaVhdl!SingleBit
  <2> QED
    BY <1>1, <2>1, <2>2, <2>5, ReleaseTried
<1> QED
  BY <1>2, <1>3, <1>4 DEF Path

(* VHDL in Questa: through the FLI, and what is not found through VPI.     *)
LEMMA QuestaVhdlServes ==
  ASSUME SignalOK, ended = FALSE, partsel \in BOOLEAN, NEW c \in Calls,
         Straight("questa_vhdl", c), QuestaVhdl!Call(c)
  PROVE  Kept("questa_vhdl", c) /\ partsel' \in BOOLEAN
<1> USE QuestaVhdlSame, QuestaVhdlPuts, CallFacts
<1>1. call = NoCall /\ EndsOnlyLost("questa_vhdl", c) /\ ended' = ended
  BY DEF QuestaVhdl!Call, EndsOnlyLost
<1>2. QuestaVhdl!uvm_is_vhdl_path(c.path) <=> c.path.kind # "nowhere"
  BY DEF QuestaVhdl!uvm_is_vhdl_path
<1>3. Exists(c.path) <=> c.path.kind # "nowhere"
  BY DEF Straight, Exists
<1>4. ASSUME c.path.kind = "nowhere"
      PROVE  /\ Reached(c.path) = {}
             /\ QuestaVhdl!Cleared(c.value) \in Data
  <2>1. c.value = [k \in 0..(MaxWidth - 1) |-> c.value[k]]
    BY DEF Data
  <2>2. \A k \in 0..(MaxWidth - 1) : c.value[k] \in Logic
    BY DEF Data
  <2>3. QuestaVhdl!Cleared(c.value) \in Data
    BY <2>1, <2>2 DEF QuestaVhdl!Cleared, Data, Logic
  <2>4. DOMAIN Places(c.path) = {}
    BY <1>4 DEF Places
  <2> QED
    BY <2>3, <2>4 DEF Reached
<1>5. SUFFICES Serves(c) /\ partsel' \in BOOLEAN
  BY <1>1, ServesKept
<1>6. ASSUME NEW flag, c.path.kind = "nowhere", QuestaVhdl!set_vlog(c, flag)
      PROVE  Sets(flag, c) /\ partsel' = partsel
  <2>1. PICK f \in Written(c.path, Reached(c.path), c.value) : PutValue(flag, f)
    BY <1>6 DEF QuestaVhdl!set_vlog, QuestaVhdl!VlogBits
  <2>2. Tried(flag, c, Found(c.path))
    BY <2>1, PartTried DEF Found
  <2>3. Answer(c, Found(c.path), c.value) /\ partsel' = partsel
    BY <1>6 DEF QuestaVhdl!set_vlog, QuestaVhdl!VlogAnswer, Found
  <2> QED
    BY <2>2, <2>3 DEF Sets
<1>7. CASE QuestaVhdl!uvm_hdl_check_path(c)
  BY <1>2, <1>3, <1>7 DEF QuestaVhdl!uvm_hdl_check_path, Serves, Found
<1>8. CASE QuestaVhdl!uvm_hdl_read(c)
  <2>1. CASE Exists(c.path)
    <3>1. c.op = "read" /\ NoPut /\ QuestaVhdl!get_vhdl(c)
      BY <1>2, <1>3, <1>8, <2>1 DEF QuestaVhdl!uvm_hdl_read
    <3> QED
      BY <2>1, <3>1, QuestaVhdlGets DEF Serves
  <2>2. CASE ~Exists(c.path)
    <3>1. c.op = "read" /\ NoPut /\ QuestaVhdl!get_vlog_object(c, c.path)
      BY <1>2, <1>3, <1>8, <2>2 DEF QuestaVhdl!uvm_hdl_read, QuestaVhdl!get_vlog
    <3>2. Answer(c, Found(c.path), QuestaVhdl!Cleared(c.value)) /\ partsel' = partsel
      BY <2>2, <3>1 DEF QuestaVhdl!get_vlog_object, Found
    <3> QED
      BY <1>3, <1>4, <2>2, <3>1, <3>2 DEF Serves, Gets
  <2> QED
    BY <2>1, <2>2
<1>9. CASE \/ QuestaVhdl!uvm_hdl_deposit(c) \/ QuestaVhdl!uvm_hdl_force(c)
           \/ QuestaVhdl!uvm_hdl_release(c)
  <2>1. PICK flag \in Flags : c.op = flag /\ QuestaVhdl!Set(c, flag)
    BY <1>9 DEF QuestaVhdl!uvm_hdl_deposit, QuestaVhdl!uvm_hdl_force,
                QuestaVhdl!uvm_hdl_release, Flags
  <2>2. Sets(flag, c) /\ partsel' = partsel
    <3>1. CASE Exists(c.path)
      <4>1. QuestaVhdl!set_vhdl(c, flag) /\ Answer(c, 1, c.value) /\ partsel' = partsel
        BY <1>2, <1>3, <2>1, <3>1 DEF QuestaVhdl!Set
      <4> QED
        BY <1>3, <2>1, <3>1, <4>1, QuestaVhdlSets DEF Sets, Found
    <3>2. CASE ~Exists(c.path)
      BY <1>2, <1>3, <1>6, <2>1, <3>2 DEF QuestaVhdl!Set
    <3> QED
      BY <3>1, <3>2
  <2> QED
    BY <2>1, <2>2 DEF Serves, Sets, Flags
<1>10. CASE QuestaVhdl!uvm_hdl_release_and_read(c)
  <2>1. c.op = "release_and_read"
    BY <1>10 DEF QuestaVhdl!uvm_hdl_release_and_read
  <2>2. CASE Exists(c.path)
    <3>1. QuestaVhdl!set_vhdl(c, "release") /\ QuestaVhdl!get_vhdl(c)
      BY <1>2, <1>3, <1>10, <2>2 DEF QuestaVhdl!uvm_hdl_release_and_read
    <3>2. Tried("release", c, Found(c.path))
      BY <1>3, <2>1, <2>2, <3>1, QuestaVhdlSets DEF Flags
    <3> QED
      BY <2>1, <2>2, <3>1, <3>2, QuestaVhdlGets DEF Serves
  <2>3. CASE ~Exists(c.path)
    <3>1. PICK f \in Written(c.path, Reached(c.path), c.value) : PutValue("release", f)
      BY <1>2, <1>3, <1>10, <2>3 DEF QuestaVhdl!uvm_hdl_release_and_read, QuestaVhdl!VlogBits
    <3>2. Tried("release", c, Found(c.path))
      BY <3>1, PartTried DEF Found
    <3>3. Answer(c, Found(c.path), c.value) /\ partsel' = partsel
      BY <1>2, <1>3, <1>10, <2>3
         DEF QuestaVhdl!uvm_hdl_release_and_read, QuestaVhdl!VlogAnswer, Found
    <3> QED
      BY <2>1, <2>3, <3>2, <3>3 DEF Serves, Gets
  <2> QED
    BY <2>2, <2>3
<1> QED
  BY <1>7, <1>8, <1>9, <1>10 DEF QuestaVhdl!Call

-----------------------------------------------------------------------------
(* VCS.                                                                    *)

(* The signal and its paths are the same for VCS for Verilog alone.        *)
LEMMA VcsPlainSame ==
  /\ VcsPlain!Index = Index /\ VcsPlain!NoCall = NoCall
  /\ \A p : VcsPlain!Places(p) = Places(p)
  /\ \A p : VcsPlain!Exists(p) <=> Exists(p)
  /\ \A p : VcsPlain!Width(p) = Width(p)
  /\ \A p, K, v : VcsPlain!Written(p, K, v) = Written(p, K, v)
<1>1. VcsPlain!Index = Index /\ VcsPlain!NoCall = NoCall
  BY DEF VcsPlain!Index, Index, VcsPlain!NoCall, NoCall
<1>2. \A p : VcsPlain!Places(p) = Places(p)
  BY DEF VcsPlain!Places, Places, VcsPlain!Index, Index
<1>3. \A p : VcsPlain!Exists(p) <=> Exists(p)
  BY <1>1, <1>2 DEF VcsPlain!Exists, Exists
<1>4. \A p : VcsPlain!Width(p) = Width(p)
  <2>1. \A S : VcsPlain!Cardinality(S) = Cardinality(S)
    BY DEF VcsPlain!Cardinality, Cardinality
  <2> QED
    BY <1>1, <1>2, <2>1 DEF VcsPlain!Width, Width
<1>5. \A p, K, v : VcsPlain!Written(p, K, v) = Written(p, K, v)
  BY <1>2 DEF VcsPlain!Written, Written, VcsPlain!Logic, Logic
<1> QED
  BY <1>1, <1>2, <1>3, <1>4, <1>5

(* So are putting, answering and the rest of the testbench.                *)
LEMMA VcsPlainPuts ==
  /\ VcsPlain!NoPut <=> NoPut
  /\ \A flag, f : VcsPlain!PutValue(flag, f) <=> PutValue(flag, f)
  /\ \A c, ret, value : VcsPlain!Answer(c, ret, value) <=> Answer(c, ret, value)
  /\ VcsPlain!Testbench <=> Testbench
<1>1. VcsPlain!NoPut <=> NoPut
  BY DEF VcsPlain!NoPut, NoPut
<1>2. \A flag, f : VcsPlain!PutValue(flag, f) <=> PutValue(flag, f)
  BY DEF VcsPlain!PutValue, PutValue, VcsPlain!Index, Index
<1>3. \A c, ret, value : VcsPlain!Answer(c, ret, value) <=> Answer(c, ret, value)
  BY DEF VcsPlain!Answer, Answer
<1>4. VcsPlain!Testbench <=> Testbench
  BY VcsPlainSame
     DEF VcsPlain!Testbench, Testbench, VcsPlain!GoOn, GoOn, VcsPlain!DesignWrites,
         DesignWrites
<1> QED
  BY <1>1, <1>2, <1>3, <1>4

(* The chunks of an object are copied.                                     *)
LEMMA VcsPlainCopied ==
  ASSUME SignalOK, NEW p \in Path, NEW v \in Data, Exists(p)
  PROVE  VcsPlain!Copied(p, v) \in Data /\ Held(p, VcsPlain!Copied(p, v))
<1> DEFINE w == VcsPlain!Copied(p, v)
<1>1. v = [k \in 0..(MaxWidth - 1) |-> v[k]] /\ \A k \in 0..(MaxWidth - 1) : v[k] \in Logic
  BY DEF Data
<1>2. w = [k \in 0..(MaxWidth - 1) |-> w[k]]
  BY <1>1 DEF VcsPlain!Copied
<1>3. \A k \in 0..(MaxWidth - 1) :
        IF k \in DOMAIN Places(p) THEN w[k] = sig[Places(p)[k]] ELSE w[k] \in Logic
  BY <1>1, VcsPlainSame DEF VcsPlain!Copied, Logic
<1> HIDE DEF w
<1>4. w \in Data /\ Held(p, w)
  BY <1>2, <1>3, ValueHeld
<1> QED
  BY <1>4 DEF w

(* Setting through VPI, where the object is there: the answer is the value *)
(* that was given, or, releasing, that of the object.                      *)
LEMMA VcsPlainSets ==
  ASSUME SignalOK, NEW c \in Calls, NEW flag \in Flags, VcsPlain!set_vlog(c, flag)
  PROVE  /\ Tried(flag, c, Found(c.path))
         /\ IF flag = "release" THEN Gets(c) ELSE Answer(c, Found(c.path), c.value)
<1> USE VcsPlainSame, VcsPlainPuts, CallFacts
<1>1. CASE Exists(c.path)
  <2>1. VcsPlain!PutObject(c, flag)
    BY <1>1 DEF VcsPlain!set_vlog, VcsPlain!Accepted
  <2>2. PICK f \in Written(c.path, DOMAIN Places(c.path), c.value) : PutValue(flag, f)
    BY <2>1 DEF VcsPlain!PutObject
  <2>3. Answer(c, 1, IF flag = "release" THEN VcsPlain!Copied(c.path, c.value) ELSE c.value)
    BY <2>1 DEF VcsPlain!PutObject
  <2>4. Tried(flag, c, Found(c.path))
    BY <1>1, <2>2, AllTried
  <2> QED
    BY <1>1, <2>3, <2>4, VcsPlainCopied DEF Gets, Found
<1>2. CASE ~Exists(c.path)
  <2>1. NoPut /\ Answer(c, 0, c.value)
    BY <1>2 DEF VcsPlain!set_vlog, VcsPlain!Accepted, VcsPlain!Refuse
  <2> QED
    BY <1>2, <2>1, NothingTried DEF Gets, Found
<1> QED
  BY <1>1, <1>2

(* Verilog alone.                                                          *)
LEMMA VcsPlainServes ==
  ASSUME SignalOK, ended = FALSE, NEW c \in Calls, VcsPlain!Call(c)
  PROVE  Kept("vcs_plain", c)
<1> USE VcsPlainSame, VcsPlainPuts, CallFacts
<1>1. call = NoCall /\ EndsOnlyLost("vcs_plain", c)
  BY DEF VcsPlain!Call, EndsOnlyLost
<1>2. VcsPlain!Vpi(c.path) /\ ~VcsPlain!Vhpi(c.path) /\ ~VcsPlain!NoPli(c.path)
  BY DEF VcsPlain!Vpi, VcsPlain!Vhpi, VcsPlain!NoPli
<1>3. SUFFICES Serves(c)
  BY <1>1, ServesKept
<1>4. CASE VcsPlain!uvm_hdl_check_path(c)
  BY <1>4 DEF VcsPlain!uvm_hdl_check_path, Serves, Found
<1>5. CASE VcsPlain!uvm_hdl_read(c)
  <2>1. c.op = "read" /\ NoPut /\ VcsPlain!get_vlog(c)
    BY <1>2, <1>5 DEF VcsPlain!uvm_hdl_read, VcsPlain!get_vlog
  <2>2. CASE Exists(c.path)
    <3>1. ~VcsPlain!TooWide(c.path)
      BY <2>2, PlacesFacts DEF VcsPlain!TooWide
    <3>2. VcsPlain!Prefilled(c.value) = c.value
      BY DEF VcsPlain!Prefilled
    <3>3. Answer(c, 1, VcsPlain!Copied(c.path, c.value))
      BY <2>1, <2>2, <3>1, <3>2 DEF VcsPlain!get_vlog, VcsPlain!Accepted
    <3> QED
      BY <2>1, <2>2, <3>3, VcsPlainCopied DEF Serves, Gets, Found
  <2>3. CASE ~Exists(c.path)
    BY <2>1, <2>3 DEF VcsPlain!get_vlog, Serves, Gets, Found
  <2> QED
    BY <2>2, <2>3
<1>6. CASE \/ VcsPlain!uvm_hdl_deposit(c) \/ VcsPlain!uvm_hdl_force(c)
           \/ VcsPlain!uvm_hdl_release(c)
  <2>1. PICK flag \in Flags : c.op = flag /\ VcsPlain!set_vlog(c, flag)
    BY <1>2, <1>6 DEF VcsPlain!uvm_hdl_deposit, VcsPlain!uvm_hdl_force,
                      VcsPlain!uvm_hdl_release, VcsPlain!Set, Flags
  <2>2. /\ Tried(flag, c, Found(c.path))
        /\ IF flag = "release" THEN Gets(c) ELSE Answer(c, Found(c.path), c.value)
    BY <2>1, VcsPlainSets
  <2>3. CASE flag = "release"
    BY <2>1, <2>2, <2>3 DEF Serves, Gets
  <2>4. CASE flag # "release"
    BY <2>1, <2>2, <2>4 DEF Serves, Sets, Flags
  <2> QED
    BY <2>3, <2>4
<1>7. CASE VcsPlain!uvm_hdl_release_and_read(c)
  <2>1. c.op = "release_and_read" /\ VcsPlain!set_vlog(c, "release")
    BY <1>7 DEF VcsPlain!uvm_hdl_release_and_read
  <2>2. Tried("release", c, Found(c.path)) /\ Gets(c)
    BY <2>1, VcsPlainSets DEF Flags
  <2> QED
    BY <2>1, <2>2 DEF Serves
<1> QED
  BY <1>4, <1>5, <1>6, <1>7 DEF VcsPlain!Call

(* The signal and its paths are the same for VCS with an array.            *)
LEMMA VcsArraySame ==
  /\ VcsArray!Index = Index /\ VcsArray!NoCall = NoCall
  /\ \A p : VcsArray!Places(p) = Places(p)
  /\ \A p : VcsArray!Exists(p) <=> Exists(p)
  /\ \A p : VcsArray!Width(p) = Width(p)
  /\ \A p, K, v : VcsArray!Written(p, K, v) = Written(p, K, v)
<1>1. VcsArray!Index = Index /\ VcsArray!NoCall = NoCall
  BY DEF VcsArray!Index, Index, VcsArray!NoCall, NoCall
<1>2. \A p : VcsArray!Places(p) = Places(p)
  BY DEF VcsArray!Places, Places, VcsArray!Index, Index
<1>3. \A p : VcsArray!Exists(p) <=> Exists(p)
  BY <1>1, <1>2 DEF VcsArray!Exists, Exists
<1>4. \A p : VcsArray!Width(p) = Width(p)
  <2>1. \A S : VcsArray!Cardinality(S) = Cardinality(S)
    BY DEF VcsArray!Cardinality, Cardinality
  <2> QED
    BY <1>1, <1>2, <2>1 DEF VcsArray!Width, Width
<1>5. \A p, K, v : VcsArray!Written(p, K, v) = Written(p, K, v)
  BY <1>2 DEF VcsArray!Written, Written, VcsArray!Logic, Logic
<1> QED
  BY <1>1, <1>2, <1>3, <1>4, <1>5

(* So are putting, answering and the rest of the testbench.                *)
LEMMA VcsArrayPuts ==
  /\ VcsArray!NoPut <=> NoPut
  /\ \A flag, f : VcsArray!PutValue(flag, f) <=> PutValue(flag, f)
  /\ \A c, ret, value : VcsArray!Answer(c, ret, value) <=> Answer(c, ret, value)
  /\ VcsArray!Testbench <=> Testbench
<1>1. VcsArray!NoPut <=> NoPut
  BY DEF VcsArray!NoPut, NoPut
<1>2. \A flag, f : VcsArray!PutValue(flag, f) <=> PutValue(flag, f)
  BY DEF VcsArray!PutValue, PutValue, VcsArray!Index, Index
<1>3. \A c, ret, value : VcsArray!Answer(c, ret, value) <=> Answer(c, ret, value)
  BY DEF VcsArray!Answer, Answer
<1>4. VcsArray!Testbench <=> Testbench
  BY VcsArraySame
     DEF VcsArray!Testbench, Testbench, VcsArray!GoOn, GoOn, VcsArray!DesignWrites,
         DesignWrites
<1> QED
  BY <1>1, <1>2, <1>3, <1>4

(* An array is refused, also by the answer.                                *)
LEMMA VcsArrayServes ==
  ASSUME SignalOK, ended = FALSE, NEW c \in Calls, VcsArray!Call(c)
  PROVE  Kept("vcs_array", c)
<1> USE VcsArraySame, VcsArrayPuts, CallFacts
<1>1. call = NoCall /\ EndsOnlyLost("vcs_array", c) /\ ended' = ended
  BY DEF VcsArray!Call, EndsOnlyLost
<1>2. CASE VcsArray!uvm_hdl_check_path(c)
  <2>1. Serves(c)
    BY <1>2 DEF VcsArray!uvm_hdl_check_path, Serves, Found
  <2> QED
    BY <1>1, <2>1, ServesKept
<1>3. CASE VcsArray!uvm_hdl_read(c)
  <2>1. VcsArray!Prefilled(c.value) \in Data
    BY DEF VcsArray!Prefilled, Data, Logic
  <2>2. c.op = "read" /\ NoPut /\ \E value \in Data : Answer(c, 0, value)
    BY <1>3, <2>1
       DEF VcsArray!uvm_hdl_read, VcsArray!get_vlog, VcsArray!Accepted, VcsArray!Refuse,
           VcsArray!Vpi, VcsArray!Vhpi,
           VcsArray!NoPli
  <2> QED
    BY <1>1, <2>2, RefusedKept
<1>4. ASSUME \/ VcsArray!uvm_hdl_deposit(c) \/ VcsArray!uvm_hdl_force(c)
             \/ VcsArray!uvm_hdl_release(c)
             \/ VcsArray!uvm_hdl_release_and_read(c)
      PROVE  Kept("vcs_array", c)
  <2>1. c.op # "check_path" /\ NoPut /\ Answer(c, 0, c.value)
    BY <1>4 DEF VcsArray!uvm_hdl_deposit, VcsArray!uvm_hdl_force, VcsArray!uvm_hdl_release,
                VcsArray!uvm_hdl_release_and_read, VcsArray!Set, VcsArray!set_vlog,
                VcsArray!Accepted,
                VcsArray!Refuse, VcsArray!release_force, VcsArray!Vpi, VcsArray!Vhpi,
           VcsArray!NoPli
  <2> QED
    BY <1>1, <2>1, RefusedKept
<1> QED
  BY <1>2, <1>3, <1>4 DEF VcsArray!Call

(* The signal and its paths are the same for VCS without access.           *)
LEMMA VcsDeniedSame ==
  /\ VcsDenied!Index = Index /\ VcsDenied!NoCall = NoCall
  /\ \A p : VcsDenied!Places(p) = Places(p)
  /\ \A p : VcsDenied!Exists(p) <=> Exists(p)
  /\ \A p : VcsDenied!Width(p) = Width(p)
  /\ \A p, K, v : VcsDenied!Written(p, K, v) = Written(p, K, v)
<1>1. VcsDenied!Index = Index /\ VcsDenied!NoCall = NoCall
  BY DEF VcsDenied!Index, Index, VcsDenied!NoCall, NoCall
<1>2. \A p : VcsDenied!Places(p) = Places(p)
  BY DEF VcsDenied!Places, Places, VcsDenied!Index, Index
<1>3. \A p : VcsDenied!Exists(p) <=> Exists(p)
  BY <1>1, <1>2 DEF VcsDenied!Exists, Exists
<1>4. \A p : VcsDenied!Width(p) = Width(p)
  <2>1. \A S : VcsDenied!Cardinality(S) = Cardinality(S)
    BY DEF VcsDenied!Cardinality, Cardinality
  <2> QED
    BY <1>1, <1>2, <2>1 DEF VcsDenied!Width, Width
<1>5. \A p, K, v : VcsDenied!Written(p, K, v) = Written(p, K, v)
  BY <1>2 DEF VcsDenied!Written, Written, VcsDenied!Logic, Logic
<1> QED
  BY <1>1, <1>2, <1>3, <1>4, <1>5

(* So are putting, answering and the rest of the testbench.                *)
LEMMA VcsDeniedPuts ==
  /\ VcsDenied!NoPut <=> NoPut
  /\ \A flag, f : VcsDenied!PutValue(flag, f) <=> PutValue(flag, f)
  /\ \A c, ret, value : VcsDenied!Answer(c, ret, value) <=> Answer(c, ret, value)
  /\ VcsDenied!Testbench <=> Testbench
<1>1. VcsDenied!NoPut <=> NoPut
  BY DEF VcsDenied!NoPut, NoPut
<1>2. \A flag, f : VcsDenied!PutValue(flag, f) <=> PutValue(flag, f)
  BY DEF VcsDenied!PutValue, PutValue, VcsDenied!Index, Index
<1>3. \A c, ret, value : VcsDenied!Answer(c, ret, value) <=> Answer(c, ret, value)
  BY DEF VcsDenied!Answer, Answer
<1>4. VcsDenied!Testbench <=> Testbench
  BY VcsDeniedSame
     DEF VcsDenied!Testbench, Testbench, VcsDenied!GoOn, GoOn, VcsDenied!DesignWrites,
         DesignWrites
<1> QED
  BY <1>1, <1>2, <1>3, <1>4

(* So is an object that the simulator gives no access to.                  *)
LEMMA VcsDeniedServes ==
  ASSUME SignalOK, ended = FALSE, NEW c \in Calls, VcsDenied!Call(c)
  PROVE  Kept("vcs_denied", c)
<1> USE VcsDeniedSame, VcsDeniedPuts, CallFacts
<1>1. call = NoCall /\ EndsOnlyLost("vcs_denied", c) /\ ended' = ended
  BY DEF VcsDenied!Call, EndsOnlyLost
<1>2. CASE VcsDenied!uvm_hdl_check_path(c)
  <2>1. Serves(c)
    BY <1>2 DEF VcsDenied!uvm_hdl_check_path, Serves, Found
  <2> QED
    BY <1>1, <2>1, ServesKept
<1>3. CASE VcsDenied!uvm_hdl_read(c)
  <2>1. VcsDenied!Prefilled(c.value) \in Data
    BY DEF VcsDenied!Prefilled, Data, Logic
  <2>2. c.op = "read" /\ NoPut /\ \E value \in Data : Answer(c, 0, value)
    BY <1>3, <2>1
       DEF VcsDenied!uvm_hdl_read, VcsDenied!get_vlog, VcsDenied!Accepted, VcsDenied!Refuse,
           VcsDenied!Vpi, VcsDenied!Vhpi,
           VcsDenied!NoPli
  <2> QED
    BY <1>1, <2>2, RefusedKept

<1>4. ASSUME \/ VcsDenied!uvm_hdl_deposit(c) \/ VcsDenied!uvm_hdl_force(c)
             \/ VcsDenied!uvm_hdl_release(c)
             \/ VcsDenied!uvm_hdl_release_and_read(c)
      PROVE  Kept("vcs_denied", c)
  <2>1. c.op # "check_path" /\ NoPut /\ Answer(c, 0, c.value)
    BY <1>4 DEF VcsDenied!uvm_hdl_deposit, VcsDenied!uvm_hdl_force, VcsDenied!uvm_hdl_release,
                VcsDenied!uvm_hdl_release_and_read, VcsDenied!Set, VcsDenied!set_vlog,
                VcsDenied!Accepted,
                VcsDenied!Refuse, VcsDenied!release_force, VcsDenied!Vpi, VcsDenied!Vhpi,
           VcsDenied!NoPli
  <2> QED
    BY <1>1, <2>1, RefusedKept
<1> QED
  BY <1>2, <1>3, <1>4 DEF VcsDenied!Call

(* The chunk that a bit is in begins at or before it, and ends behind it.  *)
LEMMA FirstOfChunk ==
  ASSUME NEW a \in Nat, NEW b \in Nat \ {0}
  PROVE  /\ (a \div b) * b \in Nat
         /\ (a \div b) * b <= a /\ a < (a \div b) * b + b
OBVIOUS

(* The signal and its paths are the same for VCS with VHDL.                *)
LEMMA VcsMixedSame ==
  /\ VcsMixed!Index = Index /\ VcsMixed!NoCall = NoCall
  /\ \A p : VcsMixed!Places(p) = Places(p)
  /\ \A p : VcsMixed!Exists(p) <=> Exists(p)
  /\ \A p : VcsMixed!Width(p) = Width(p)
  /\ \A p, K, v : VcsMixed!Written(p, K, v) = Written(p, K, v)
<1>1. VcsMixed!Index = Index /\ VcsMixed!NoCall = NoCall
  BY DEF VcsMixed!Index, Index, VcsMixed!NoCall, NoCall
<1>2. \A p : VcsMixed!Places(p) = Places(p)
  BY DEF VcsMixed!Places, Places, VcsMixed!Index, Index
<1>3. \A p : VcsMixed!Exists(p) <=> Exists(p)
  BY <1>1, <1>2 DEF VcsMixed!Exists, Exists
<1>4. \A p : VcsMixed!Width(p) = Width(p)
  <2>1. \A S : VcsMixed!Cardinality(S) = Cardinality(S)
    BY DEF VcsMixed!Cardinality, Cardinality
  <2> QED
    BY <1>1, <1>2, <2>1 DEF VcsMixed!Width, Width
<1>5. \A p, K, v : VcsMixed!Written(p, K, v) = Written(p, K, v)
  BY <1>2 DEF VcsMixed!Written, Written, VcsMixed!Logic, Logic
<1> QED
  BY <1>1, <1>2, <1>3, <1>4, <1>5

(* So are putting, answering and the rest of the testbench.                *)
LEMMA VcsMixedPuts ==
  /\ VcsMixed!NoPut <=> NoPut
  /\ \A flag, f : VcsMixed!PutValue(flag, f) <=> PutValue(flag, f)
  /\ \A c, ret, value : VcsMixed!Answer(c, ret, value) <=> Answer(c, ret, value)
  /\ VcsMixed!Testbench <=> Testbench
<1>1. VcsMixed!NoPut <=> NoPut
  BY DEF VcsMixed!NoPut, NoPut
<1>2. \A flag, f : VcsMixed!PutValue(flag, f) <=> PutValue(flag, f)
  BY DEF VcsMixed!PutValue, PutValue, VcsMixed!Index, Index
<1>3. \A c, ret, value : VcsMixed!Answer(c, ret, value) <=> Answer(c, ret, value)
  BY DEF VcsMixed!Answer, Answer
<1>4. VcsMixed!Testbench <=> Testbench
  BY VcsMixedSame
     DEF VcsMixed!Testbench, Testbench, VcsMixed!GoOn, GoOn, VcsMixed!DesignWrites,
         DesignWrites
<1> QED
  BY <1>1, <1>2, <1>3, <1>4

(* A value without a 1 above the bits of the path is set digit by digit.   *)
LEMMA VcsMixedDigits ==
  ASSUME NEW p \in Path, NEW v \in Data, Exists(p), NEW f \in VcsMixed!MhdlBits(p, v),
         \A k \in 0..(MaxWidth - 1) : v[k] # "x" /\ (k >= Width(p) => v[k] = "0")
  PROVE  f \in Written(p, DOMAIN Places(p), v)
<1> USE VcsMixedSame
<1> DEFINE first == (VcsMixed!Chunks(VcsMixed!Width(p)) - 1) * ChunkWidth
           At(i) == CHOOSE j \in DOMAIN VcsMixed!Places(p) : VcsMixed!Places(p)[j] = i
<1>1. Width(p) \in 1..MaxWidth /\ DOMAIN Places(p) = 0..(Width(p) - 1)
  BY PlacesFacts DEF Counted
<1>2. first \in Nat /\ first < Width(p) /\ Width(p) <= first + ChunkWidth
  <2>1. VcsMixed!Chunks(VcsMixed!Width(p)) - 1 = (Width(p) - 1) \div ChunkWidth
    BY <1>1 DEF VcsMixed!Chunks
  <2>2. Width(p) - 1 \in Nat
    BY <1>1
  <2>3. first = ((Width(p) - 1) \div ChunkWidth) * ChunkWidth
    BY <2>1
  <2> HIDE DEF first
  <2>4. first \in Nat /\ first <= Width(p) - 1 /\ Width(p) - 1 < first + ChunkWidth
    BY <2>2, <2>3, FirstOfChunk
  <2> QED
    BY <1>1, <2>4
<1>3. PICK d \in VcsMixed!Digits(v) :
        f = [i \in {VcsMixed!Places(p)[k] : k \in DOMAIN VcsMixed!Places(p)} |->
               LET from == IF At(i) < first THEN At(i)
                           ELSE At(i) + VcsMixed!TopShift(d, VcsMixed!Width(p))
               IN IF from \in DOMAIN d /\ (At(i) < first \/ from < first + ChunkWidth)
                  THEN d[from] ELSE "0"]
  BY Zenon DEF VcsMixed!MhdlBits
<1> HIDE DEF first
<1>4. d \in [0..(MaxWidth - 1) -> Logic] /\ \A k \in 0..(MaxWidth - 1) : d[k] = v[k]
  <2>1. DOMAIN v = 0..(MaxWidth - 1)
    BY DEF Data
  <2>2. d \in [0..(MaxWidth - 1) -> {"0", "1"}]
    BY <2>1 DEF VcsMixed!Digits
  <2>3. \A k \in 0..(MaxWidth - 1) : d[k] = v[k]
    BY <2>1 DEF VcsMixed!Digits
  <2> QED
    BY <2>2, <2>3 DEF Logic
<1>5. VcsMixed!TopShift(d, Width(p)) = 0
  <2> DEFINE ones == {j \in 0..(ChunkWidth - 1) : first + j \in DOMAIN d /\ d[first + j] = "1"}
  <2>1. ASSUME NEW j \in ones
        PROVE  ~(j >= Width(p) - first)
    <3>1. j \in Nat /\ first + j \in 0..(MaxWidth - 1) /\ d[first + j] = "1"
      BY <1>2, <1>4
    <3>2. v[first + j] = "1"
      BY <1>4, <3>1
    <3>3. ~(first + j >= Width(p))
      BY <3>1, <3>2
    <3> QED
      BY <1>1, <1>2, <3>1, <3>3
  <2>2. VcsMixed!TopShift(d, VcsMixed!Width(p)) =
          IF \E j \in ones : j >= VcsMixed!Width(p) - first
          THEN (CHOOSE j \in ones : \A i \in ones : i <= j) + 1 - (VcsMixed!Width(p) - first) ELSE 0
    BY Zenon DEF VcsMixed!TopShift, first
  <2> HIDE DEF ones
  <2> QED
    BY <2>1, <2>2
<1>6. ASSUME NEW k \in DOMAIN Places(p)
      PROVE  f[Places(p)[k]] = v[k] /\ v[k] \in Logic
  <2>1. At(Places(p)[k]) = k
    BY <1>1, PlacesFacts DEF Counted
  <2>2. Places(p)[k] \in {VcsMixed!Places(p)[j] : j \in DOMAIN VcsMixed!Places(p)}
    OBVIOUS
  <2> HIDE DEF At

  <2>3. f[Places(p)[k]] = IF k \in DOMAIN d /\ (k < first \/ k < first + ChunkWidth) THEN d[k] ELSE "0"
    BY <1>1, <1>3, <1>5, <2>1, <2>2
  <2>4. k \in 0..(MaxWidth - 1) /\ k < first + ChunkWidth
    BY <1>1, <1>2
  <2> QED
    BY <1>4, <2>3, <2>4
<1>7. f \in [Targets(p, DOMAIN Places(p)) -> Logic]
  <2>1. {VcsMixed!Places(p)[k] : k \in DOMAIN VcsMixed!Places(p)} = Targets(p, DOMAIN Places(p))
    BY DEF Targets
  <2>3. f = [i \in Targets(p, DOMAIN Places(p)) |-> f[i]]
    BY <1>3, <2>1
  <2>2. \A i \in Targets(p, DOMAIN Places(p)) : f[i] \in Logic
    BY <1>6 DEF Targets
  <2> QED
    BY <2>2, <2>3
<1> QED
  BY <1>6, <1>7 DEF Written, Targets

(* The digits of an object shifted in, what a chunk held moves up.         *)
LEMMA VcsMixedVector ==
  ASSUME SignalOK, NEW p \in Path, NEW v \in Data, Exists(p)
  PROVE  VcsMixed!Shifted(p, v) \in Data /\ Held(p, VcsMixed!Shifted(p, v))
<1> USE VcsMixedSame
<1> DEFINE w == VcsMixed!Shifted(p, v)
<1>1. v = [k \in 0..(MaxWidth - 1) |-> v[k]] /\ \A k \in 0..(MaxWidth - 1) : v[k] \in Logic
  BY DEF Data
<1>2. Width(p) \in 1..MaxWidth /\ DOMAIN Places(p) = 0..(Width(p) - 1)
  BY PlacesFacts DEF Counted
<1>3. w = [k \in 0..(MaxWidth - 1) |-> w[k]]
  BY <1>1 DEF VcsMixed!Shifted
<1>4. ASSUME NEW k \in 0..(MaxWidth - 1)
      PROVE  IF k \in DOMAIN Places(p) THEN w[k] = sig[Places(p)[k]] ELSE w[k] \in Logic
  <2> DEFINE first == (k \div ChunkWidth) * ChunkWidth
             bits  == IF Width(p) - first < ChunkWidth THEN Width(p) - first ELSE ChunkWidth
  <2>1. w[k] = CASE k \in DOMAIN Places(p) -> sig[Places(p)[k]]
                 [] first < Width(p) /\ k >= Width(p) -> v[k - bits]
                 [] OTHER -> v[k]
    BY <1>1 DEF VcsMixed!Shifted
  <2>2. first \in Nat /\ first <= k
    OBVIOUS
  <2>3. first < Width(p) /\ k >= Width(p) => k - bits \in 0..(MaxWidth - 1)
    BY <1>2, <2>2
  <2>4. k \in DOMAIN Places(p) <=> k < Width(p)
    BY <1>2
  <2> HIDE DEF w, first, bits
  <2>5. CASE k < Width(p)
    BY <1>2, <2>1, <2>4, <2>5
  <2>6. CASE ~(k < Width(p)) /\ first < Width(p)
    <3>1. w[k] = v[k - bits]
      BY <1>2, <2>1, <2>4, <2>6
    <3> QED
      BY <1>1, <1>2, <2>3, <2>4, <2>6, <3>1
  <2>7. CASE ~(k < Width(p)) /\ ~(first < Width(p))
    BY <1>1, <2>1, <2>4, <2>7
  <2> QED
    BY <2>5, <2>6, <2>7
<1> HIDE DEF w
<1>5. w \in Data /\ Held(p, w)
  BY <1>3, <1>4, ValueHeld
<1> QED
  BY <1>5 DEF w

(* VHDL in a mixed build.                                                   *)
LEMMA VcsMixedServes ==
  ASSUME SignalOK, ended = FALSE, NEW c \in Calls, Straight("vcs_mixed", c), VcsMixed!Call(c)
  PROVE  Kept("vcs_mixed", c)
<1> USE VcsMixedSame, VcsMixedPuts, CallFacts
<1>1. call = NoCall /\ EndsOnlyLost("vcs_mixed", c) /\ ended' = ended
  BY DEF VcsMixed!Call, EndsOnlyLost
<1>2. /\ ~VcsMixed!Vpi(c.path) /\ (VcsMixed!Vhpi(c.path) <=> Exists(c.path))
      /\ (VcsMixed!NoPli(c.path) <=> ~Exists(c.path))
  BY DEF VcsMixed!Vpi, VcsMixed!Vhpi, VcsMixed!NoPli
<1>3. c.op # "release_and_read"
  BY DEF Straight
<1>4. SUFFICES Serves(c)
  BY <1>1, ServesKept
<1>5. CASE VcsMixed!uvm_hdl_check_path(c)
  BY <1>5 DEF VcsMixed!uvm_hdl_check_path, Serves, Found
<1>6. CASE VcsMixed!uvm_hdl_read(c) /\ Exists(c.path)
  <2>1. c.op = "read" /\ NoPut /\ VcsMixed!get_mhdl(c)
    BY <1>2, <1>6 DEF VcsMixed!uvm_hdl_read
  <2>2. ~VcsMixed!TooWide(c.path)
    BY <1>6, PlacesFacts DEF VcsMixed!TooWide
  <2>3. Answer(c, 1, VcsMixed!Shifted(c.path, c.value))
    BY <2>1, <2>2 DEF VcsMixed!get_mhdl, VcsMixed!Prefilled
  <2> QED
    BY <1>6, <2>1, <2>3, VcsMixedVector DEF Serves, Gets, Found
<1>7. CASE VcsMixed!uvm_hdl_read(c) /\ ~Exists(c.path)
  <2>1. c.op = "read" /\ NoPut /\ Answer(c, 0, c.value)
    BY <1>2, <1>7 DEF VcsMixed!uvm_hdl_read, VcsMixed!Refuse
  <2> QED
    BY <1>7, <2>1 DEF Serves, Gets, Found
<1>8. CASE VcsMixed!uvm_hdl_deposit(c) \/ VcsMixed!uvm_hdl_force(c)
  <2>1. PICK flag \in {"deposit", "force"} : c.op = flag /\ VcsMixed!Set(c, flag)
    BY <1>8 DEF VcsMixed!uvm_hdl_deposit, VcsMixed!uvm_hdl_force
  <2>2. CASE Exists(c.path)
    <3>1. PICK f \in VcsMixed!MhdlBits(c.path, c.value) : PutValue(flag, f)
      BY <1>2, <2>1, <2>2 DEF VcsMixed!Set, VcsMixed!set_mhdl
    <3>2. f \in Written(c.path, DOMAIN Places(c.path), c.value)
      <4>1. \A k \in 0..(MaxWidth - 1) :
              c.value[k] # "x" /\ (k >= Width(c.path) => c.value[k] = "0")
        BY <2>1, <2>2 DEF Straight
      <4> QED
        BY <2>2, <4>1, VcsMixedDigits
    <3>3. Tried(flag, c, Found(c.path))
      BY <2>2, <3>1, <3>2, AllTried
    <3>4. Answer(c, Found(c.path), c.value)
      BY <1>2, <2>1, <2>2 DEF VcsMixed!Set, VcsMixed!set_mhdl, Found
    <3> QED
      BY <2>1, <3>3, <3>4 DEF Serves, Sets
  <2>3. CASE ~Exists(c.path)
    <3>1. NoPut /\ Answer(c, Found(c.path), c.value)
      BY <1>2, <2>1, <2>3 DEF VcsMixed!Set, VcsMixed!Refuse, Found
    <3>2. Tried(flag, c, Found(c.path))
      BY <2>3, <3>1, NothingTried DEF Found, Flags
    <3> QED
      BY <2>1, <3>1, <3>2 DEF Serves, Sets
  <2> QED
    BY <2>2, <2>3
<1>9. CASE VcsMixed!uvm_hdl_release(c)
  <2>1. c.op = "release"
    BY <1>9 DEF VcsMixed!uvm_hdl_release
  <2>2. CASE Exists(c.path)
    <3> DEFINE f == [i \in Targets(c.path, DOMAIN Places(c.path)) |-> "0"]
    <3>1. PutValue("release", f) /\ Answer(c, Found(c.path), c.value)
      BY <1>2, <1>9, <2>2 DEF VcsMixed!uvm_hdl_release, VcsMixed!release_force, Targets, Found
    <3>2. DOMAIN f = Targets(c.path, DOMAIN Places(c.path))
      OBVIOUS
    <3> HIDE DEF f
    <3>3. Tried("release", c, Found(c.path))
      BY <2>2, <3>1, <3>2, ReleaseTried
    <3> QED
      BY <2>1, <3>1, <3>3 DEF Serves
  <2>3. CASE ~Exists(c.path)
    <3>1. NoPut /\ Answer(c, Found(c.path), c.value)
      BY <1>2, <1>9, <2>3 DEF VcsMixed!uvm_hdl_release, VcsMixed!Refuse, Found
    <3>2. Tried("release", c, Found(c.path))
      BY <2>3, <3>1, NothingTried DEF Found, Flags
    <3> QED
      BY <2>1, <3>1, <3>2 DEF Serves
  <2> QED
    BY <2>2, <2>3
<1>10. ~VcsMixed!uvm_hdl_release_and_read(c)
  BY <1>3 DEF VcsMixed!uvm_hdl_release_and_read
<1> QED
  BY <1>5, <1>6, <1>7, <1>8, <1>9, <1>10 DEF VcsMixed!Call

(* The signal and its paths are the same for VCS with fast VHDL.           *)
LEMMA VcsFastSame ==
  /\ VcsFast!Index = Index /\ VcsFast!NoCall = NoCall
  /\ \A p : VcsFast!Places(p) = Places(p)
  /\ \A p : VcsFast!Exists(p) <=> Exists(p)
  /\ \A p : VcsFast!Width(p) = Width(p)
  /\ \A p, K, v : VcsFast!Written(p, K, v) = Written(p, K, v)
<1>1. VcsFast!Index = Index /\ VcsFast!NoCall = NoCall
  BY DEF VcsFast!Index, Index, VcsFast!NoCall, NoCall
<1>2. \A p : VcsFast!Places(p) = Places(p)
  BY DEF VcsFast!Places, Places, VcsFast!Index, Index
<1>3. \A p : VcsFast!Exists(p) <=> Exists(p)
  BY <1>1, <1>2 DEF VcsFast!Exists, Exists
<1>4. \A p : VcsFast!Width(p) = Width(p)
  <2>1. \A S : VcsFast!Cardinality(S) = Cardinality(S)
    BY DEF VcsFast!Cardinality, Cardinality
  <2> QED
    BY <1>1, <1>2, <2>1 DEF VcsFast!Width, Width
<1>5. \A p, K, v : VcsFast!Written(p, K, v) = Written(p, K, v)
  BY <1>2 DEF VcsFast!Written, Written, VcsFast!Logic, Logic
<1> QED
  BY <1>1, <1>2, <1>3, <1>4, <1>5

(* So are putting, answering and the rest of the testbench.                *)
LEMMA VcsFastPuts ==
  /\ VcsFast!NoPut <=> NoPut
  /\ \A flag, f : VcsFast!PutValue(flag, f) <=> PutValue(flag, f)
  /\ \A c, ret, value : VcsFast!Answer(c, ret, value) <=> Answer(c, ret, value)
  /\ VcsFast!Testbench <=> Testbench
<1>1. VcsFast!NoPut <=> NoPut
  BY DEF VcsFast!NoPut, NoPut
<1>2. \A flag, f : VcsFast!PutValue(flag, f) <=> PutValue(flag, f)
  BY DEF VcsFast!PutValue, PutValue, VcsFast!Index, Index
<1>3. \A c, ret, value : VcsFast!Answer(c, ret, value) <=> Answer(c, ret, value)
  BY DEF VcsFast!Answer, Answer
<1>4. VcsFast!Testbench <=> Testbench
  BY VcsFastSame
     DEF VcsFast!Testbench, Testbench, VcsFast!GoOn, GoOn, VcsFast!DesignWrites, DesignWrites
<1> QED
  BY <1>1, <1>2, <1>3, <1>4

(* A value without a 1 above the bits of the path is set digit by digit.   *)
LEMMA VcsFastDigits ==
  ASSUME NEW p \in Path, NEW v \in Data, Exists(p), NEW f \in VcsFast!MhdlBits(p, v),
         \A k \in 0..(MaxWidth - 1) : v[k] # "x" /\ (k >= Width(p) => v[k] = "0")
  PROVE  f \in Written(p, DOMAIN Places(p), v)
<1> USE VcsFastSame
<1> DEFINE first == (VcsFast!Chunks(VcsFast!Width(p)) - 1) * MaxWidth
           At(i) == CHOOSE j \in DOMAIN VcsFast!Places(p) : VcsFast!Places(p)[j] = i
<1>1. Width(p) \in 1..MaxWidth /\ DOMAIN Places(p) = 0..(Width(p) - 1)
  BY PlacesFacts DEF Counted
<1>2. first \in Nat /\ first < Width(p) /\ Width(p) <= first + MaxWidth
  <2>1. VcsFast!Chunks(VcsFast!Width(p)) - 1 = (Width(p) - 1) \div MaxWidth
    BY <1>1 DEF VcsFast!Chunks
  <2>2. Width(p) - 1 \in Nat
    BY <1>1
  <2>3. first = ((Width(p) - 1) \div MaxWidth) * MaxWidth
    BY <2>1
  <2> HIDE DEF first
  <2>4. first \in Nat /\ first <= Width(p) - 1 /\ Width(p) - 1 < first + MaxWidth
    BY <2>2, <2>3, FirstOfChunk
  <2> QED
    BY <1>1, <2>4
<1>3. PICK d \in VcsFast!Digits(v) :
        f = [i \in {VcsFast!Places(p)[k] : k \in DOMAIN VcsFast!Places(p)} |->
               LET from == IF At(i) < first THEN At(i)
                           ELSE At(i) + VcsFast!TopShift(d, VcsFast!Width(p))
               IN IF from \in DOMAIN d /\ (At(i) < first \/ from < first + MaxWidth)
                  THEN d[from] ELSE "0"]
  BY Zenon DEF VcsFast!MhdlBits
<1> HIDE DEF first
<1>4. d \in [0..(MaxWidth - 1) -> Logic] /\ \A k \in 0..(MaxWidth - 1) : d[k] = v[k]
  <2>1. DOMAIN v = 0..(MaxWidth - 1)
    BY DEF Data
  <2>2. d \in [0..(MaxWidth - 1) -> {"0", "1"}]
    BY <2>1 DEF VcsFast!Digits
  <2>3. \A k \in 0..(MaxWidth - 1) : d[k] = v[k]
    BY <2>1 DEF VcsFast!Digits
  <2> QED
    BY <2>2, <2>3 DEF Logic
<1>5. VcsFast!TopShift(d, Width(p)) = 0
  <2> DEFINE ones == {j \in 0..(MaxWidth - 1) : first + j \in DOMAIN d /\ d[first + j] = "1"}
  <2>1. ASSUME NEW j \in ones
        PROVE  ~(j >= Width(p) - first)
    <3>1. j \in Nat /\ first + j \in 0..(MaxWidth - 1) /\ d[first + j] = "1"
      BY <1>2, <1>4
    <3>2. v[first + j] = "1"
      BY <1>4, <3>1
    <3>3. ~(first + j >= Width(p))
      BY <3>1, <3>2
    <3> QED
      BY <1>1, <1>2, <3>1, <3>3
  <2>2. VcsFast!TopShift(d, VcsFast!Width(p)) =
          IF \E j \in ones : j >= VcsFast!Width(p) - first
          THEN (CHOOSE j \in ones : \A i \in ones : i <= j) + 1 - (VcsFast!Width(p) - first) ELSE 0
    BY Zenon DEF VcsFast!TopShift, first
  <2> HIDE DEF ones
  <2> QED
    BY <2>1, <2>2
<1>6. ASSUME NEW k \in DOMAIN Places(p)
      PROVE  f[Places(p)[k]] = v[k] /\ v[k] \in Logic
  <2>1. At(Places(p)[k]) = k
    BY <1>1, PlacesFacts DEF Counted
  <2>2. Places(p)[k] \in {VcsFast!Places(p)[j] : j \in DOMAIN VcsFast!Places(p)}
    OBVIOUS
  <2> HIDE DEF At

  <2>3. f[Places(p)[k]] = IF k \in DOMAIN d /\ (k < first \/ k < first + MaxWidth) THEN d[k] ELSE "0"
    BY <1>1, <1>3, <1>5, <2>1, <2>2
  <2>4. k \in 0..(MaxWidth - 1) /\ k < first + MaxWidth
    BY <1>1, <1>2
  <2> QED
    BY <1>4, <2>3, <2>4
<1>7. f \in [Targets(p, DOMAIN Places(p)) -> Logic]
  <2>1. {VcsFast!Places(p)[k] : k \in DOMAIN VcsFast!Places(p)} = Targets(p, DOMAIN Places(p))
    BY DEF Targets
  <2>3. f = [i \in Targets(p, DOMAIN Places(p)) |-> f[i]]
    BY <1>3, <2>1
  <2>2. \A i \in Targets(p, DOMAIN Places(p)) : f[i] \in Logic
    BY <1>6 DEF Targets
  <2> QED
    BY <2>2, <2>3
<1> QED
  BY <1>6, <1>7 DEF Written, Targets

(* A vector read through VHPI, most significant bit first.                 *)
LEMMA VcsFastVector ==
  ASSUME SignalOK, NEW p \in Path, NEW v \in Data, Exists(p)
  PROVE  VcsFast!VhpiVector(p, v) \in Data /\ Held(p, VcsFast!VhpiVector(p, v))
<1> USE VcsFastSame
<1> DEFINE w == VcsFast!VhpiVector(p, v)
<1>1. v = [k \in 0..(MaxWidth - 1) |-> v[k]] /\ \A k \in 0..(MaxWidth - 1) : v[k] \in Logic
  BY DEF Data
<1>2. Width(p) \in 1..MaxWidth /\ DOMAIN Places(p) = 0..(Width(p) - 1)
  BY PlacesFacts DEF Counted
<1>3. w = [k \in 0..(MaxWidth - 1) |-> w[k]]
  BY <1>1 DEF VcsFast!VhpiVector
<1>4. VcsFast!Chunks(Width(p)) = 1 /\ VcsFast!Chunks(MaxWidth) \div 8 = 0
  <2>1. (Width(p) - 1) \div MaxWidth = 0 /\ (MaxWidth - 1) \div MaxWidth = 0
    BY <1>2, OneChunk
  <2> QED
    BY <2>1 DEF VcsFast!Chunks
<1>5. ASSUME NEW k \in 0..(MaxWidth - 1)
      PROVE  IF k \in DOMAIN Places(p) THEN w[k] = sig[Places(p)[k]] ELSE w[k] \in Logic
  <2> DEFINE first == (k \div MaxWidth) * MaxWidth
             bits  == IF Width(p) - first < MaxWidth THEN Width(p) - first ELSE MaxWidth
             bit   == first + bits - 1 - (k % MaxWidth)
  <2>1. w[k] = CASE k - first < bits -> sig[Places(p)[Width(p) - 1 - bit]]
                 [] k < VcsFast!Chunks(Width(p)) * MaxWidth /\ k - first >= bits -> "0"
                 [] k < (VcsFast!Chunks(MaxWidth) \div 8) * MaxWidth -> "0"
                 [] OTHER -> v[k]
    BY <1>1 DEF VcsFast!VhpiVector
  <2>2. first = 0 /\ k % MaxWidth = k
    BY OneChunk
  <2>3. bits = Width(p)
    BY <1>2, <2>2
  <2>4. bit = Width(p) - 1 - k
    BY <1>2, <2>2, <2>3
  <2>5. k \in DOMAIN Places(p) <=> k < Width(p)
    BY <1>2
  <2>6. Width(p) - 1 - (Width(p) - 1 - k) = k /\ k - 0 = k /\ 1 * MaxWidth = MaxWidth
        /\ 0 * MaxWidth = 0
    BY <1>2
  <2> HIDE DEF w, first, bits, bit
  <2>7. w[k] = CASE k < Width(p) -> sig[Places(p)[k]]
                 [] k < MaxWidth /\ k >= Width(p) -> "0"
                 [] k < 0 -> "0"
                 [] OTHER -> v[k]
    BY <1>4, <2>1, <2>2, <2>3, <2>4, <2>6
  <2>8. CASE k < Width(p)
    BY <1>2, <2>5, <2>7, <2>8
  <2>9. CASE ~(k < Width(p))
    BY <1>2, <2>5, <2>7, <2>9 DEF Logic
  <2> QED
    BY <2>8, <2>9
<1> HIDE DEF w
<1>6. w \in Data /\ Held(p, w)
  BY <1>3, <1>5, ValueHeld
<1> QED
  BY <1>6 DEF w

(* VHDL in a build for fast access.                                         *)
LEMMA VcsFastServes ==
  ASSUME SignalOK, ended = FALSE, NEW c \in Calls, Straight("vcs_fast", c), VcsFast!Call(c)
  PROVE  Kept("vcs_fast", c)
<1> USE VcsFastSame, VcsFastPuts, CallFacts
<1>1. call = NoCall /\ EndsOnlyLost("vcs_fast", c) /\ ended' = ended
  BY DEF VcsFast!Call, EndsOnlyLost
<1>2. /\ ~VcsFast!Vpi(c.path) /\ (VcsFast!Vhpi(c.path) <=> Exists(c.path))
      /\ (VcsFast!NoPli(c.path) <=> ~Exists(c.path))
  BY DEF VcsFast!Vpi, VcsFast!Vhpi, VcsFast!NoPli
<1>3. c.op # "release_and_read"
  BY DEF Straight
<1>4. SUFFICES Serves(c)
  BY <1>1, ServesKept
<1>5. CASE VcsFast!uvm_hdl_check_path(c)
  BY <1>5 DEF VcsFast!uvm_hdl_check_path, Serves, Found
<1>6. CASE VcsFast!uvm_hdl_read(c) /\ Exists(c.path)
  <2>1. c.op = "read" /\ NoPut /\ VcsFast!get_vhpi(c)
    BY <1>2, <1>6 DEF VcsFast!uvm_hdl_read
  <2>2. ~VcsFast!TooWide(c.path)
    BY <1>6, PlacesFacts DEF VcsFast!TooWide
  <2>3. Answer(c, 1, VcsFast!VhpiVector(c.path, c.value))
    BY <2>1, <2>2 DEF VcsFast!get_vhpi, VcsFast!Prefilled
  <2> QED
    BY <1>6, <2>1, <2>3, VcsFastVector DEF Serves, Gets, Found
<1>7. CASE VcsFast!uvm_hdl_read(c) /\ ~Exists(c.path)
  <2>1. c.op = "read" /\ NoPut /\ Answer(c, 0, c.value)
    BY <1>2, <1>7 DEF VcsFast!uvm_hdl_read, VcsFast!Refuse
  <2> QED
    BY <1>7, <2>1 DEF Serves, Gets, Found
<1>8. CASE VcsFast!uvm_hdl_deposit(c) \/ VcsFast!uvm_hdl_force(c)
  <2>1. PICK flag \in {"deposit", "force"} : c.op = flag /\ VcsFast!Set(c, flag)
    BY <1>8 DEF VcsFast!uvm_hdl_deposit, VcsFast!uvm_hdl_force
  <2>2. CASE Exists(c.path)
    <3>1. PICK f \in VcsFast!MhdlBits(c.path, c.value) : PutValue(flag, f)
      BY <1>2, <2>1, <2>2 DEF VcsFast!Set, VcsFast!set_mhdl
    <3>2. f \in Written(c.path, DOMAIN Places(c.path), c.value)
      <4>1. \A k \in 0..(MaxWidth - 1) :
              c.value[k] # "x" /\ (k >= Width(c.path) => c.value[k] = "0")
        BY <2>1, <2>2 DEF Straight
      <4> QED
        BY <2>2, <4>1, VcsFastDigits
    <3>3. Tried(flag, c, Found(c.path))
      BY <2>2, <3>1, <3>2, AllTried
    <3>4. Answer(c, Found(c.path), c.value)
      BY <1>2, <2>1, <2>2 DEF VcsFast!Set, VcsFast!set_mhdl, Found
    <3> QED
      BY <2>1, <3>3, <3>4 DEF Serves, Sets
  <2>3. CASE ~Exists(c.path)
    <3>1. NoPut /\ Answer(c, Found(c.path), c.value)
      BY <1>2, <2>1, <2>3 DEF VcsFast!Set, VcsFast!Refuse, Found
    <3>2. Tried(flag, c, Found(c.path))
      BY <2>3, <3>1, NothingTried DEF Found, Flags
    <3> QED
      BY <2>1, <3>1, <3>2 DEF Serves, Sets
  <2> QED
    BY <2>2, <2>3
<1>9. CASE VcsFast!uvm_hdl_release(c)
  <2>1. c.op = "release"
    BY <1>9 DEF VcsFast!uvm_hdl_release
  <2>2. CASE Exists(c.path)
    <3> DEFINE f == [i \in Targets(c.path, DOMAIN Places(c.path)) |-> "0"]
    <3>1. PutValue("release", f) /\ Answer(c, Found(c.path), c.value)
      BY <1>2, <1>9, <2>2 DEF VcsFast!uvm_hdl_release, VcsFast!release_force, Targets, Found
    <3>2. DOMAIN f = Targets(c.path, DOMAIN Places(c.path))
      OBVIOUS
    <3> HIDE DEF f
    <3>3. Tried("release", c, Found(c.path))
      BY <2>2, <3>1, <3>2, ReleaseTried
    <3> QED
      BY <2>1, <3>1, <3>3 DEF Serves
  <2>3. CASE ~Exists(c.path)
    <3>1. NoPut /\ Answer(c, Found(c.path), c.value)
      BY <1>2, <1>9, <2>3 DEF VcsFast!uvm_hdl_release, VcsFast!Refuse, Found
    <3>2. Tried("release", c, Found(c.path))
      BY <2>3, <3>1, NothingTried DEF Found, Flags
    <3> QED
      BY <2>1, <3>1, <3>2 DEF Serves
  <2> QED
    BY <2>2, <2>3
<1>10. ~VcsFast!uvm_hdl_release_and_read(c)
  BY <1>3 DEF VcsFast!uvm_hdl_release_and_read
<1> QED
  BY <1>5, <1>6, <1>7, <1>8, <1>9, <1>10 DEF VcsFast!Call

-----------------------------------------------------------------------------
(* The builds together.                                                    *)

\* The build is one of those that are tried.
Tries == build \in DOMAIN CallsIn

\* The calls of a build are calls, and straight.
Made(b) == \A c \in CallsIn[b] : c \in Calls /\ Straight(b, c)

\* What a step of the system comes to.
Stepped ==
  /\ build' = build /\ partsel' \in BOOLEAN
  /\ Testbench \/ \E c \in Calls : Kept(build, c)

(* Every step of the system is one of the testbench, or a call that its    *)
(* build serves.                                                           *)
LEMMA StepFacts ==
  ASSUME SignalOK, ended \in BOOLEAN, partsel \in BOOLEAN, Tries, Next
  PROVE  Stepped
<1>1. Made(build)
  BY CallsAssumption, StraightAssumption DEF Tries, Made
<1>0. ended = FALSE \/ ended = TRUE
  OBVIOUS
<1>2. CASE build = "xcelium_vlog"
  <2>1. XceliumVlog!Next /\ build' = build /\ partsel' = partsel
    BY <1>2 DEF Next, Xcelium, Questa, Vcs
  <2>2. CASE \E c \in CallsIn["xcelium_vlog"] : XceliumVlog!Call(c)
    <3>1. PICK c \in CallsIn["xcelium_vlog"] : XceliumVlog!Call(c)
      BY <2>2
    <3>2. c \in Calls /\ Straight("xcelium_vlog", c)
      BY <1>1, <1>2 DEF Made
    <3>3. ended = FALSE
      BY <1>0, <3>1 DEF XceliumVlog!Call
    <3>4. Kept("xcelium_vlog", c) /\ partsel' \in BOOLEAN
      BY <2>1, <3>1, <3>2, <3>3, XceliumVlogServes
    <3> QED
      BY <1>2, <2>1, <3>2, <3>4 DEF Stepped
  <2>3. CASE XceliumVlog!Testbench
    BY <2>1, <2>3, XceliumVlogPuts DEF Stepped
  <2> QED
    BY <2>1, <2>2, <2>3 DEF XceliumVlog!Next
<1>3. CASE build = "xcelium_vhdl"
  <2>1. XceliumVhdl!Next /\ build' = build /\ partsel' = partsel
    BY <1>3 DEF Next, Xcelium, Questa, Vcs
  <2>2. CASE \E c \in CallsIn["xcelium_vhdl"] : XceliumVhdl!Call(c)
    <3>1. PICK c \in CallsIn["xcelium_vhdl"] : XceliumVhdl!Call(c)
      BY <2>2
    <3>2. c \in Calls /\ Straight("xcelium_vhdl", c)
      BY <1>1, <1>3 DEF Made
    <3>3. ended = FALSE
      BY <1>0, <3>1 DEF XceliumVhdl!Call
    <3>4. Kept("xcelium_vhdl", c) /\ partsel' \in BOOLEAN
      BY <2>1, <3>1, <3>2, <3>3, XceliumVhdlServes
    <3> QED
      BY <1>3, <2>1, <3>2, <3>4 DEF Stepped
  <2>3. CASE XceliumVhdl!Testbench
    BY <2>1, <2>3, XceliumVhdlPuts DEF Stepped
  <2> QED
    BY <2>1, <2>2, <2>3 DEF XceliumVhdl!Next
<1>4. CASE build = "questa_vlog"
  <2>1. QuestaVlog!Next /\ build' = build
    BY <1>4 DEF Next, Xcelium, Questa, Vcs
  <2>2. CASE \E c \in CallsIn["questa_vlog"] : QuestaVlog!Call(c)
    <3>1. PICK c \in CallsIn["questa_vlog"] : QuestaVlog!Call(c)
      BY <2>2
    <3>2. c \in Calls /\ Straight("questa_vlog", c)
      BY <1>1, <1>4 DEF Made
    <3>3. ended = FALSE
      BY <1>0, <3>1 DEF QuestaVlog!Call
    <3>4. Kept("questa_vlog", c) /\ partsel' \in BOOLEAN
      BY <2>1, <3>1, <3>2, <3>3, QuestaVlogServes
    <3> QED
      BY <1>4, <2>1, <3>2, <3>4 DEF Stepped
  <2>3. CASE QuestaVlog!Testbench /\ partsel' = partsel
    BY <2>1, <2>3, QuestaVlogPuts DEF Stepped
  <2> QED
    BY <2>1, <2>2, <2>3 DEF QuestaVlog!Next
<1>5. CASE build = "questa_vhdl"
  <2>1. QuestaVhdl!Next /\ build' = build
    BY <1>5 DEF Next, Xcelium, Questa, Vcs
  <2>2. CASE \E c \in CallsIn["questa_vhdl"] : QuestaVhdl!Call(c)
    <3>1. PICK c \in CallsIn["questa_vhdl"] : QuestaVhdl!Call(c)
      BY <2>2
    <3>2. c \in Calls /\ Straight("questa_vhdl", c)
      BY <1>1, <1>5 DEF Made
    <3>3. ended = FALSE
      BY <1>0, <3>1 DEF QuestaVhdl!Call
    <3>4. Kept("questa_vhdl", c) /\ partsel' \in BOOLEAN
      BY <2>1, <3>1, <3>2, <3>3, QuestaVhdlServes
    <3> QED
      BY <1>5, <2>1, <3>2, <3>4 DEF Stepped
  <2>3. CASE QuestaVhdl!Testbench /\ partsel' = partsel
    BY <2>1, <2>3, QuestaVhdlPuts DEF Stepped
  <2> QED
    BY <2>1, <2>2, <2>3 DEF QuestaVhdl!Next
<1>6. CASE build = "vcs_plain"
  <2>1. VcsPlain!Next /\ build' = build /\ partsel' = partsel
    BY <1>6 DEF Next, Xcelium, Questa, Vcs
  <2>2. CASE \E c \in CallsIn["vcs_plain"] : VcsPlain!Call(c)
    <3>1. PICK c \in CallsIn["vcs_plain"] : VcsPlain!Call(c)
      BY <2>2
    <3>2. c \in Calls /\ Straight("vcs_plain", c)
      BY <1>1, <1>6 DEF Made
    <3>3. ended = FALSE
      BY <1>0, <3>1 DEF VcsPlain!Call
    <3>4. Kept("vcs_plain", c) /\ partsel' \in BOOLEAN
      BY <2>1, <3>1, <3>2, <3>3, VcsPlainServes
    <3> QED
      BY <1>6, <2>1, <3>2, <3>4 DEF Stepped
  <2>3. CASE VcsPlain!Testbench
    BY <2>1, <2>3, VcsPlainPuts DEF Stepped
  <2> QED
    BY <2>1, <2>2, <2>3 DEF VcsPlain!Next
<1>7. CASE build = "vcs_array"
  <2>1. VcsArray!Next /\ build' = build /\ partsel' = partsel
    BY <1>7 DEF Next, Xcelium, Questa, Vcs
  <2>2. CASE \E c \in CallsIn["vcs_array"] : VcsArray!Call(c)
    <3>1. PICK c \in CallsIn["vcs_array"] : VcsArray!Call(c)
      BY <2>2
    <3>2. c \in Calls /\ Straight("vcs_array", c)
      BY <1>1, <1>7 DEF Made
    <3>3. ended = FALSE
      BY <1>0, <3>1 DEF VcsArray!Call
    <3>4. Kept("vcs_array", c) /\ partsel' \in BOOLEAN
      BY <2>1, <3>1, <3>2, <3>3, VcsArrayServes
    <3> QED
      BY <1>7, <2>1, <3>2, <3>4 DEF Stepped
  <2>3. CASE VcsArray!Testbench
    BY <2>1, <2>3, VcsArrayPuts DEF Stepped
  <2> QED
    BY <2>1, <2>2, <2>3 DEF VcsArray!Next
<1>8. CASE build = "vcs_mixed"
  <2>1. VcsMixed!Next /\ build' = build /\ partsel' = partsel
    BY <1>8 DEF Next, Xcelium, Questa, Vcs
  <2>2. CASE \E c \in CallsIn["vcs_mixed"] : VcsMixed!Call(c)
    <3>1. PICK c \in CallsIn["vcs_mixed"] : VcsMixed!Call(c)
      BY <2>2
    <3>2. c \in Calls /\ Straight("vcs_mixed", c)
      BY <1>1, <1>8 DEF Made
    <3>3. ended = FALSE
      BY <1>0, <3>1 DEF VcsMixed!Call
    <3>4. Kept("vcs_mixed", c) /\ partsel' \in BOOLEAN
      BY <2>1, <3>1, <3>2, <3>3, VcsMixedServes
    <3> QED
      BY <1>8, <2>1, <3>2, <3>4 DEF Stepped
  <2>3. CASE VcsMixed!Testbench
    BY <2>1, <2>3, VcsMixedPuts DEF Stepped
  <2> QED
    BY <2>1, <2>2, <2>3 DEF VcsMixed!Next
<1>9. CASE build = "vcs_fast"
  <2>1. VcsFast!Next /\ build' = build /\ partsel' = partsel
    BY <1>9 DEF Next, Xcelium, Questa, Vcs
  <2>2. CASE \E c \in CallsIn["vcs_fast"] : VcsFast!Call(c)
    <3>1. PICK c \in CallsIn["vcs_fast"] : VcsFast!Call(c)
      BY <2>2
    <3>2. c \in Calls /\ Straight("vcs_fast", c)
      BY <1>1, <1>9 DEF Made
    <3>3. ended = FALSE
      BY <1>0, <3>1 DEF VcsFast!Call
    <3>4. Kept("vcs_fast", c) /\ partsel' \in BOOLEAN
      BY <2>1, <3>1, <3>2, <3>3, VcsFastServes
    <3> QED
      BY <1>9, <2>1, <3>2, <3>4 DEF Stepped
  <2>3. CASE VcsFast!Testbench
    BY <2>1, <2>3, VcsFastPuts DEF Stepped
  <2> QED
    BY <2>1, <2>2, <2>3 DEF VcsFast!Next
<1>10. CASE build = "vcs_denied"
  <2>1. VcsDenied!Next /\ build' = build /\ partsel' = partsel
    BY <1>10 DEF Next, Xcelium, Questa, Vcs
  <2>2. CASE \E c \in CallsIn["vcs_denied"] : VcsDenied!Call(c)
    <3>1. PICK c \in CallsIn["vcs_denied"] : VcsDenied!Call(c)
      BY <2>2
    <3>2. c \in Calls /\ Straight("vcs_denied", c)
      BY <1>1, <1>10 DEF Made
    <3>3. ended = FALSE
      BY <1>0, <3>1 DEF VcsDenied!Call
    <3>4. Kept("vcs_denied", c) /\ partsel' \in BOOLEAN
      BY <2>1, <3>1, <3>2, <3>3, VcsDeniedServes
    <3> QED
      BY <1>10, <2>1, <3>2, <3>4 DEF Stepped
  <2>3. CASE VcsDenied!Testbench
    BY <2>1, <2>3, VcsDeniedPuts DEF Stepped
  <2> QED
    BY <2>1, <2>2, <2>3 DEF VcsDenied!Next
<1> QED
  BY <1>2, <1>3, <1>4, <1>5, <1>6, <1>7, <1>8, <1>9, <1>10, CallsAssumption DEF Tries, Builds

(* The type invariant in its parts.                                        *)
LEMMA TypeFacts == TypeOK => SignalOK /\ CallTypeOK /\ ended \in BOOLEAN /\ partsel \in BOOLEAN
BY DEF TypeOK, SignalTypeOK, SignalOK, CallTypeOK

(* Where there is no call there is no path.                                *)
LEMMA NoCallFacts ==
  /\ NoCall.op = "none" /\ NoCall.path \in Path /\ ~Exists(NoCall.path)
  /\ NoCall.value \in Data /\ NoCall.ret = 0
<1>1. [k \in 0..(MaxWidth - 1) |-> "0"] \in Data
  BY DEF Data, Logic
<1> QED
  BY <1>1 DEF NoCall, Path, Exists

(* After a call that is served, state and answer are in range, and the     *)
(* answer is 1 just if the path exists.                                    *)
LEMMA KeptTypes ==
  ASSUME SignalOK, NEW c \in Calls, Kept(build, c), build' = build, partsel' \in BOOLEAN
  PROVE  TypeOK' /\ FoundMeansDone'
<1>1. PICK ret, value :
        /\ Answer(c, ret, value) /\ Served(c, ret, value)
        /\ build \notin {"vcs_array", "vcs_denied"} => (ret = 1 <=> Exists(c.path))
  BY DEF Kept
<1>2. SignalOK' /\ CallTypeOK'
  BY <1>1, ServedTypes
<1>3. call'.path = c.path /\ call'.ret = ret
  BY <1>1 DEF Answer
<1>4. ended' \in BOOLEAN /\ (ended' => build \in {"xcelium_vlog",
"xcelium_vhdl"} /\ ~Exists(c.path))
  BY DEF Kept
<1>5. TypeOK'
  BY <1>2, <1>3, <1>4 DEF TypeOK, SignalTypeOK, SignalOK, CallTypeOK
<1> QED
  BY <1>1, <1>3, <1>5 DEF FoundMeansDone

(* So they are after a step of the testbench.                              *)
LEMMA TestbenchTypes ==
  ASSUME TypeOK, FoundMeansDone, Testbench, build' = build, partsel' \in BOOLEAN
  PROVE  TypeOK' /\ FoundMeansDone'
<1>1. CASE GoOn
  <2>1. call' = NoCall /\ sig' = sig /\ forced' = forced /\ ended' = ended
    BY <1>1 DEF GoOn
  <2>2. (CallTypeOK /\ call.op = "none" /\ ~Exists(call.path))'
    BY <2>1, NoCallFacts DEF CallTypeOK
  <2> QED
    BY <2>1, <2>2 DEF TypeOK, SignalTypeOK, CallTypeOK, FoundMeansDone
<1>2. CASE DesignWrites
  <2>1. PICK d \in DesignValues : sig' = [i \in Index |-> IF i \in forced THEN sig[i] ELSE d[i]]
    BY <1>2 DEF DesignWrites
  <2>2. sig' \in [Index -> Logic]
    BY <2>1 DEF TypeOK, SignalTypeOK
  <2>3. call' = call /\ forced' = forced /\ ended' = ended
    BY <1>2 DEF DesignWrites
  <2> QED
    BY <2>2, <2>3 DEF TypeOK, SignalTypeOK, FoundMeansDone
<1> QED
  BY <1>1, <1>2 DEF Testbench

(* Both invariants hold after a step, if they held before it.              *)
LEMMA TypeStep ==
  ASSUME TypeOK, FoundMeansDone, Tries, [Next]_vars
  PROVE  TypeOK' /\ FoundMeansDone' /\ Tries'
<1>1. CASE Next
  <2>1. Stepped
    BY <1>1, TypeFacts, StepFacts
  <2> QED
    BY <2>1, TypeFacts, KeptTypes, TestbenchTypes DEF Stepped, Tries
<1>2. CASE UNCHANGED vars
  <2>1. /\ sig' = sig /\ forced' = forced /\ call' = call /\ ended' = ended
        /\ build' = build /\ partsel' = partsel
    BY <1>2 DEF vars, signalVars
  <2> QED
    BY <2>1 DEF TypeOK, SignalTypeOK, FoundMeansDone, Tries
<1> QED
  BY <1>1, <1>2

(* The inductive invariant: types, answers, and a build that is tried.     *)
LEMMA BackdoorInvariant == Spec => [](TypeOK /\ FoundMeansDone /\ Tries)
<1>1. Init => TypeOK /\ FoundMeansDone /\ Tries
  <2>1. ASSUME Init
        PROVE  TypeOK /\ FoundMeansDone /\ Tries
    <3>1. CallTypeOK /\ call.op = "none" /\ ~Exists(call.path)
      BY <2>1, NoCallFacts DEF Init, SignalInit, CallTypeOK
    <3>2. sig \in [Index -> Logic] /\ forced \subseteq Index /\ ended = FALSE /\ partsel = FALSE
      BY <2>1 DEF Init, SignalInit
    <3> QED
      BY <2>1, <3>1, <3>2 DEF Init, TypeOK, SignalTypeOK, CallTypeOK, FoundMeansDone, Tries
  <2> QED
    BY <2>1
<1>2. (TypeOK /\ FoundMeansDone /\ Tries) /\ [Next]_vars => (TypeOK /\ FoundMeansDone /\ Tries)'
  BY TypeStep
<1> QED
  BY <1>1, <1>2, PTL DEF Spec

(* State and answers of all nine builds stay in their range, and no call   *)
(* ends the simulation but Xcelium's, for what is not there: the language  *)
(* of a name that is not found is not assigned (uvm_hdl_xcelium.c:56-62).  *)
THEOREM TypeCorrect == Spec => []TypeOK
BY BackdoorInvariant, PTL

(* Where the simulator gives access, a call returns 1 just if the path     *)
(* exists, to the last bit.                                                *)
THEOREM FoundMeansDoneCorrect == Spec => []FoundMeansDone
BY BackdoorInvariant, PTL

(* Each build implements what uvm_hdl.svh promises: deposit, force,        *)
(* release and read do to the bits of the path what its comments say, if   *)
(* they return 1, and touch no other bit whatever they return.             *)
THEOREM KeepsPromiseCorrect == Spec => KeepsPromise
<1>1. Init => Promise!SignalInit
  BY PromiseSame DEF Init, SignalInit, Promise!SignalInit
<1>2. TypeOK /\ Tries /\ [Next]_vars => [Promise!Next]_Promise!signalVars
  <2>1. ASSUME TypeOK, Tries, Next
        PROVE  Promise!Next
    <3>1. Stepped
      BY <2>1, TypeFacts, StepFacts
    <3>2. CASE Testbench
      BY <3>2, PromisePuts DEF Promise!Next
    <3>3. ASSUME NEW c \in Calls, Kept(build, c)
          PROVE  Promise!Access
      <4>1. PICK ret, value : Answer(c, ret, value) /\ Served(c, ret, value)
        BY <3>3 DEF Kept
      <4>2. call = NoCall /\ ~ended
        BY <3>3 DEF Kept
      <4> QED
        BY <2>1, <4>1, <4>2, TypeFacts, ServedPromise
    <3> QED
      BY <3>1, <3>2, <3>3 DEF Stepped, Promise!Next
  <2>2. UNCHANGED vars => UNCHANGED Promise!signalVars
    BY DEF vars, signalVars, Promise!signalVars
  <2> QED
    BY <2>1, <2>2
<1> QED
  BY <1>1, <1>2, BackdoorInvariant, PTL DEF Spec, KeepsPromise, Promise!Spec

=============================================================================
