-------------------------- MODULE DpiFunctionsProofs --------------------------
(***************************************************************************)
(* Proofs about the functions of the DPI layer, for texts of every length  *)
(* and signals of every width: the glob match of the Verilog only version  *)
(* finds what the glob means, the conversion of globs to regular           *)
(* expressions fits its buffer, leaves alone what it has converted and     *)
(* gives expressions that find what the glob means, and the value of a     *)
(* probed signal is extended as its sign asks for.                         *)
(***************************************************************************)
EXTENDS DpiFunctions, FiniteSetTheorems, SequenceTheorems, WellFoundedInduction, TLAPS

-----------------------------------------------------------------------------
(* Induction on the natural numbers, for sets. *)

LessNat == {ss \in Nat \X Nat : ss[1] < ss[2]}

\* A set of natural numbers that is not empty has a least one.
LEMMA LeastOf ==
  ASSUME NEW M, M \subseteq Nat, M # {}
  PROVE  \E x \in M : \A y \in M : x <= y
<1>1. IsWellFoundedOn(LessNat, Nat)
  BY NatLessThanWellFounded DEF OpToRel, LessNat
<1>2. \A x, y \in Nat : <<y, x>> \in LessNat <=> y < x
  BY DEF LessNat
<1>3. PICK x \in M : \A y \in M : ~(<<y, x>> \in LessNat)
  BY <1>1, WFMin
<1>4. ASSUME NEW y \in M PROVE x <= y
  <2>1. x \in Nat /\ y \in Nat /\ ~(<<y, x>> \in LessNat)
    BY <1>3
  <2>2. ~(y < x)
    BY <1>2, <2>1
  <2> QED
    BY <2>1, <2>2
<1> QED
  BY <1>3, <1>4

\* What holds 0 and the successor of all it holds, holds every natural number.
LEMMA SetInduction ==
  ASSUME NEW T, 0 \in T, \A n \in Nat : n \in T => n + 1 \in T
  PROVE  Nat \subseteq T
<1> DEFINE M == Nat \ T
<1> SUFFICES ASSUME M # {} PROVE FALSE
  OBVIOUS
<1>1. PICK x \in M : \A y \in M : x <= y
  <2>1. M \subseteq Nat
    OBVIOUS
  <2> HIDE DEF M
  <2> QED
    BY <2>1, LeastOf
<1>2. x - 1 \in Nat /\ (x - 1) + 1 = x
  BY <1>1
<1>3. x - 1 \in T
  BY <1>1, <1>2
<1> QED
  BY <1>1, <1>2, <1>3

-----------------------------------------------------------------------------
(* What a glob means, character by character. *)

\* E says where the first i characters of p may end in t.
Reaches(E, p, t) ==
  /\ E[0] = {0}
  /\ \A i \in 1..Len(p) :
       E[i] = {k \in 0..Len(t) : \E j \in E[i - 1] : Spans(p[i], t, j, k)}

\* The recursion of Ends has a solution, so Ends obeys it.
LEMMA EndsUnfold ==
  ASSUME NEW p, NEW t, Len(p) \in Nat
  PROVE  Reaches(Ends(p, t), p, t)
<1> DEFINE After(S, i) == {k \in 0..Len(t) : \E j \in S : Spans(p[i], t, j, k)}
           Unfolds(x, m) == x = [i \in 0..m |-> IF i = 0 THEN {0} ELSE After(x[i - 1], i)]
           T == {m \in Nat : \E x : Unfolds(x, m)}
           E == CHOOSE x : Unfolds(x, Len(p))
<1>0. Ends(p, t) = E
  BY DEF Ends
<1>1. 0 \in T
  <2> DEFINE e == [i \in 0..0 |-> {0}]
  <2>1. Unfolds(e, 0)
    OBVIOUS
  <2> QED
    BY <2>1
<1>2. ASSUME NEW m \in Nat, m \in T PROVE m + 1 \in T
  <2>1. PICK e : Unfolds(e, m)
    BY <1>2
  <2> HIDE DEF After
  <2> DEFINE g == [i \in 0..(m + 1) |-> IF i <= m THEN e[i] ELSE After(e[m], m + 1)]
  <2>2. \A i \in 0..m : e[i] = IF i = 0 THEN {0} ELSE After(e[i - 1], i)
    BY <2>1
  <2>3. ASSUME NEW i \in 0..(m + 1)
        PROVE  g[i] = IF i = 0 THEN {0} ELSE After(g[i - 1], i)
    <3>1. CASE i = m + 1
      BY <3>1
    <3>2. CASE i \in 0..m
      BY <2>2, <3>2
    <3> QED
      BY <3>1, <3>2
  <2>4. Unfolds(g, m + 1)
    <3>1. g = [i \in 0..(m + 1) |-> g[i]]
      OBVIOUS
    <3> HIDE DEF g
    <3> QED
      BY <2>3, <3>1
  <2>5. \E x : Unfolds(x, m + 1)
    <3> HIDE DEF Unfolds, g
    <3> QED
      BY <2>4
  <2> HIDE DEF Unfolds
  <2> QED
    BY <2>5
<1>3. \E x : Unfolds(x, Len(p))
  <2>1. Nat \subseteq T
    <3> HIDE DEF T
    <3> QED
      BY <1>1, <1>2, SetInduction
  <2> QED
    BY <2>1
<1>4. Unfolds(E, Len(p))
  <2> HIDE DEF Unfolds
  <2> QED
    BY <1>3
<1> HIDE DEF E, T
<1>5. E[0] = {0} /\ \A i \in 1..Len(p) : E[i] = After(E[i - 1], i)
  <2> HIDE DEF After
  <2>1. 0 \in 0..Len(p) /\ \A i \in 1..Len(p) : i \in 0..Len(p) /\ i # 0
    OBVIOUS
  <2> QED
    BY <1>4, <2>1
<1> HIDE DEF Unfolds
<1> QED
  BY <1>0, <1>5 DEF Reaches

\* A pattern and a string to match with it.
Texted(p, t, E) ==
  /\ p \in Seq(PatternChars) /\ t \in Seq(StringChars)
  /\ E = Ends(p, t)
  /\ Len(p) \in Nat /\ Len(t) \in Nat

\* The Verilog only version takes a + for itself.
NoPlus == "+" \notin PatternChars

Plain(p, i, j) == \A l \in (i + 1)..j : p[l] # "*"

\* The i-th character of p stands for the k-th one of t.
Alike(p, t, i, k) == p[i] \in {"?", t[k]}

\* A * ends wherever the place before it is reached no later; any other character
\* takes one of the string, and is it or a ?.
LEMMA EndsStep ==
  ASSUME NoPlus, NEW p, NEW t, NEW E, Texted(p, t, E)
  PROVE  /\ E[0] = {0} /\ \A i \in 0..Len(p) : E[i] \subseteq 0..Len(t)
         /\ \A i \in 1..Len(p) :
              /\ p[i] = "*" => \A k : k \in E[i] <=> k \in 0..Len(t) /\ \E j \in E[i - 1] : j <= k
              /\ p[i] # "*" => \A k : k \in E[i] <=> /\ k \in 1..Len(t)
                                                     /\ k - 1 \in E[i - 1] /\ Alike(p, t, i, k)
<1>0. p \in Seq(PatternChars) /\ Len(p) \in Nat /\ Len(t) \in Nat
  BY DEF Texted
<1>1. /\ E[0] = {0}
      /\ \A i \in 1..Len(p) :
           E[i] = {k \in 0..Len(t) : \E j \in E[i - 1] : Spans(p[i], t, j, k)}
  BY EndsUnfold DEF Texted, Reaches
<1>2. \A i \in 0..Len(p) : E[i] \subseteq 0..Len(t)
  <2> TAKE i \in 0..Len(p)
  <2>1. CASE i = 0
    BY <1>0, <1>1, <2>1
  <2>2. CASE i # 0
    <3>1. i \in 1..Len(p)
      BY <1>0, <2>2
    <3> QED
      BY <1>1, <3>1
  <2> QED
    BY <2>1, <2>2
<1>3. ASSUME NEW i \in 1..Len(p)
      PROVE  /\ p[i] = "*" => \A k : k \in E[i] <=> k \in 0..Len(t) /\ \E j \in E[i - 1] : j <= k
             /\ p[i] # "*" => \A k : k \in E[i] <=> /\ k \in 1..Len(t)
                                                    /\ k - 1 \in E[i - 1] /\ Alike(p, t, i, k)
  <2>1. i \in DOMAIN p /\ i - 1 \in 0..Len(p) /\ p[i] \in PatternChars
    BY <1>0
  <2>2. p[i] # "+" /\ E[i - 1] \subseteq 0..Len(t)
    BY <1>2, <2>1 DEF NoPlus
  <2>3. \A k : k \in E[i] <=> k \in 0..Len(t) /\ \E j \in E[i - 1] : Spans(p[i], t, j, k)
    BY <1>1
  <2>4. CASE p[i] = "*"
    <3>1. \A j, k : Spans(p[i], t, j, k) <=> j <= k
      BY <2>4 DEF Spans
    <3> QED
      BY <2>3, <2>4, <3>1
  <2>5. CASE p[i] # "*"
    <3>1. \A j, k : Spans(p[i], t, j, k) <=> k = j + 1 /\ Alike(p, t, i, k)
      BY <2>2, <2>5 DEF Spans, Alike
    <3>2. ASSUME NEW k, k \in E[i]
          PROVE  k \in 1..Len(t) /\ k - 1 \in E[i - 1] /\ Alike(p, t, i, k)
      <4>1. k \in 0..Len(t) /\ \E j \in E[i - 1] : k = j + 1 /\ Alike(p, t, i, k)
        BY <2>3, <3>1, <3>2
      <4>2. PICK j \in E[i - 1] : k = j + 1 /\ Alike(p, t, i, k)
        BY <4>1
      <4>3. j \in 0..Len(t)
        BY <2>2
      <4> QED
        BY <1>0, <4>1, <4>2, <4>3
    <3>3. ASSUME NEW k, k \in 1..Len(t) /\ k - 1 \in E[i - 1] /\ Alike(p, t, i, k)
          PROVE  k \in E[i]
      <4>1. k \in 0..Len(t) /\ k = (k - 1) + 1
        BY <1>0, <3>3
      <4> QED
        BY <2>3, <3>1, <3>3, <4>1
    <3> QED
      BY <2>5, <3>2, <3>3
  <2> QED
    BY <2>4, <2>5
<1> QED
  BY <1>1, <1>2, <1>3

\* What nothing reaches leads nowhere.
LEMMA EmptyStays ==
  ASSUME NoPlus, NEW p, NEW t, NEW E, Texted(p, t, E), NEW i \in 0..Len(p), E[i] = {}
  PROVE  E[Len(p)] = {}
<1> DEFINE T == {d \in Nat : i + d <= Len(p) => E[i + d] = {}}
<1>0. Len(p) \in Nat /\ i \in Nat
  BY DEF Texted
<1>1. 0 \in T
  BY <1>0
<1>2. ASSUME NEW d \in Nat, d \in T PROVE d + 1 \in T
  <2> SUFFICES ASSUME i + (d + 1) <= Len(p) PROVE E[i + (d + 1)] = {}
    OBVIOUS
  <2>1. /\ i + (d + 1) \in 1..Len(p) /\ i + (d + 1) \in 0..Len(p)
        /\ i + (d + 1) - 1 = i + d /\ i + d <= Len(p)
    BY <1>0
  <2>2. E[i + (d + 1) - 1] = {}
    BY <1>2, <2>1
  <2>3. \A k : k \notin E[i + (d + 1)]
    BY <2>1, <2>2, EndsStep
  <2> QED
    BY <2>3
<1>3. Len(p) - i \in T
  <2>1. Nat \subseteq T
    <3> HIDE DEF T
    <3> QED
      BY <1>1, <1>2, SetInduction
  <2> QED
    BY <1>0, <2>1
<1>4. i + (Len(p) - i) = Len(p) /\ Len(p) <= Len(p)
  BY <1>0
<1> QED
  BY <1>3, <1>4

\* Without a * in between there is one way to where k is.
LEMMA Backwards ==
  ASSUME NoPlus, NEW p, NEW t, NEW E, Texted(p, t, E), NEW i \in 0..Len(p), NEW j \in i..Len(p),
         Plain(p, i, j), NEW k \in E[j]
  PROVE  /\ k \in 0..Len(t)
         /\ \A l \in i..j : k - (j - l) \in E[l]
         /\ \A l \in i..j : l < j => /\ k - (j - l) + 1 \in 1..Len(t)
                                     /\ Alike(p, t, l + 1, k - (j - l) + 1)
<1> DEFINE T == {d \in Nat : d <= j - i => k - d \in E[j - d]}
<1>0. Len(p) \in Nat /\ Len(t) \in Nat /\ i \in Nat /\ j \in Nat /\ i <= j /\ j <= Len(p)
  BY DEF Texted
<1>1. k \in 0..Len(t)
  BY <1>0, EndsStep
<1>2. 0 \in T
  BY <1>0, <1>1
<1>3. ASSUME NEW d \in Nat, d \in T PROVE d + 1 \in T
  <2> SUFFICES ASSUME d + 1 <= j - i PROVE k - (d + 1) \in E[j - (d + 1)]
    OBVIOUS
  <2>1. /\ j - d \in 1..Len(p) /\ j - d \in (i + 1)..j /\ (j - d) - 1 = j - (d + 1)
        /\ (k - d) - 1 = k - (d + 1) /\ d <= j - i
    BY <1>0, <1>1
  <2>2. p[j - d] # "*" /\ k - d \in E[j - d]
    BY <1>3, <2>1 DEF Plain
  <2>3. (k - d) - 1 \in E[(j - d) - 1]
    BY <2>1, <2>2, EndsStep
  <2> QED
    BY <2>1, <2>3
<1>4. Nat \subseteq T
  <2> HIDE DEF T
  <2> QED
    BY <1>2, <1>3, SetInduction
<1>5. ASSUME NEW l \in i..j PROVE k - (j - l) \in E[l]
  <2>1. j - l \in Nat /\ j - l <= j - i /\ j - (j - l) = l
    BY <1>0
  <2>2. j - l \in T
    BY <1>4, <2>1
  <2> QED
    BY <2>1, <2>2
<1> HIDE DEF T
<1>6. ASSUME NEW l \in i..j, l < j
      PROVE  k - (j - l) + 1 \in 1..Len(t) /\ Alike(p, t, l + 1, k - (j - l) + 1)
  <2>1. l + 1 \in i..j /\ l + 1 \in 1..Len(p) /\ l + 1 \in (i + 1)..j
    BY <1>0, <1>6
  <2>2. k - (j - (l + 1)) \in E[l + 1] /\ p[l + 1] # "*"
    BY <1>5, <2>1 DEF Plain
  <2>3. k - (j - (l + 1)) \in 1..Len(t) /\ Alike(p, t, l + 1, k - (j - (l + 1)))
    BY <2>1, <2>2, EndsStep
  <2>4. k - (j - (l + 1)) = k - (j - l) + 1
    BY <1>0, <1>1
  <2> QED
    BY <2>3, <2>4
<1> QED
  BY <1>1, <1>5, <1>6

\* What is behind the i-th character cannot be matched from b on: it meets
\* another character, or the end of one of the texts, before the next *.
Stuck(p, t, i, b, j) ==
  IF j = Len(p) THEN b + (j - i) # Len(t)
  ELSE /\ p[j + 1] # "*"
       /\ ~(b + (j - i) < Len(t) /\ Alike(p, t, j + 1, b + (j - i) + 1))
Dead(p, t, i, b) == \E j \in i..Len(p) : Plain(p, i, j) /\ Stuck(p, t, i, b, j)

\* No dead attempt gets to the next *.
LEMMA DeadBeforeStar ==
  ASSUME NoPlus, NEW p, NEW t, NEW E, Texted(p, t, E), NEW i \in 0..Len(p), NEW e \in i..Len(p),
         e < Len(p), Plain(p, i, e), p[e + 1] = "*", NEW k \in E[e]
  PROVE  k - (e - i) \in E[i] /\ ~Dead(p, t, i, k - (e - i))
<1>0. Len(p) \in Nat /\ Len(t) \in Nat /\ i \in Nat /\ e \in Nat /\ i <= e
  BY DEF Texted
<1>1. /\ k \in 0..Len(t)
      /\ \A l \in i..e : k - (e - l) \in E[l]
      /\ \A l \in i..e : l < e => /\ k - (e - l) + 1 \in 1..Len(t)
                                  /\ Alike(p, t, l + 1, k - (e - l) + 1)
  BY Backwards
<1>2. k - (e - i) \in E[i]
  BY <1>0, <1>1
<1>3. ASSUME NEW j \in i..Len(p), Plain(p, i, j), Stuck(p, t, i, k - (e - i), j)
      PROVE  FALSE
  <2>1. j <= e
    <3> SUFFICES ASSUME ~(j <= e) PROVE FALSE
      OBVIOUS
    <3>1. e + 1 \in (i + 1)..j
      BY <1>0
    <3> QED
      BY <1>3, <3>1 DEF Plain
  <2>2. j # Len(p) /\ j \in i..e
    BY <1>0, <2>1
  <2>3. j # e
    BY <1>3, <2>2 DEF Stuck
  <2>4. j < e /\ (k - (e - i)) + (j - i) = k - (e - j)
    BY <1>0, <1>1, <2>2, <2>3
  <2>5. k - (e - j) + 1 \in 1..Len(t) /\ Alike(p, t, j + 1, k - (e - j) + 1)
    BY <1>1, <2>2, <2>4
  <2>6. k - (e - j) < Len(t)
    BY <1>0, <1>1, <2>5
  <2> QED
    BY <1>3, <2>2, <2>4, <2>5, <2>6 DEF Stuck
<1> QED
  BY <1>2, <1>3 DEF Dead

\* When every attempt that ends before the string does is dead, and those that
\* get to its end have a character left to match, there is no match.
LEMMA DeadAtEnd ==
  ASSUME NoPlus, NEW p, NEW t, NEW E, Texted(p, t, E), NEW i \in 0..Len(p), NEW e \in i..Len(p),
         e < Len(p), Plain(p, i, e), p[e + 1] # "*",
         \A b \in E[i] : b + (e - i) < Len(t) => Dead(p, t, i, b)
  PROVE  Len(t) \notin E[Len(p)]
<1> DEFINE Stars == {l \in (e + 1)..Len(p) : p[l] = "*"}
<1>0. Len(p) \in Nat /\ Len(t) \in Nat /\ i \in Nat /\ e \in Nat /\ i <= e
  BY DEF Texted
\* J: where the next * stands, or the end.
<1>1. PICK J \in (e + 1)..Len(p) : Plain(p, i, J) /\ (J < Len(p) => p[J + 1] = "*")
  <2>1. CASE Stars = {}
    <3>1. Len(p) \in (e + 1)..Len(p)
      BY <1>0
    <3>2. Plain(p, i, Len(p))
      BY <1>0, <2>1 DEF Plain
    <3> QED
      BY <1>0, <3>1, <3>2
  <2>2. CASE Stars # {}
    <3>1. Stars \subseteq Nat
      BY <1>0
    <3>2. PICK x \in Stars : \A y \in Stars : x <= y
      <4> HIDE DEF Stars
      <4> QED
        BY <2>2, <3>1, LeastOf
    <3>3. x # e + 1 /\ x - 1 \in (e + 1)..Len(p) /\ (x - 1) + 1 = x
      BY <1>0, <3>2
    <3>4. Plain(p, i, x - 1)
      <4> SUFFICES ASSUME NEW l \in (i + 1)..(x - 1), p[l] = "*" PROVE FALSE
        BY DEF Plain
      <4>1. CASE l <= e
        <5>1. l \in (i + 1)..e
          BY <1>0, <3>3, <4>1
        <5> QED
          BY <5>1 DEF Plain
      <4>2. CASE ~(l <= e)
        <5>1. l \in Stars
          BY <1>0, <3>2, <3>3, <4>2
        <5>2. x <= l
          BY <3>2, <5>1
        <5> QED
          BY <1>0, <3>3, <5>2
      <4> QED
        BY <4>1, <4>2
    <3> QED
      BY <3>2, <3>3, <3>4
  <2> QED
    BY <2>1, <2>2
<1> HIDE DEF Stars
<1>2. ASSUME NEW k \in E[J], J = Len(p) => k = Len(t)
      PROVE  FALSE
  <2>0. J \in i..Len(p) /\ J \in Nat /\ i \in i..J /\ e \in i..J /\ e < J
    BY <1>0
  <2>1. /\ k \in 0..Len(t)
        /\ \A l \in i..J : k - (J - l) \in E[l]
        /\ \A l \in i..J : l < J => /\ k - (J - l) + 1 \in 1..Len(t)
                                    /\ Alike(p, t, l + 1, k - (J - l) + 1)
    BY <1>1, <2>0, Backwards
  <2>2. k - (J - i) \in E[i] /\ k - (J - e) + 1 \in 1..Len(t)
    BY <2>0, <2>1
  <2>3. (k - (J - i)) + (e - i) < Len(t)
    BY <1>0, <2>0, <2>1, <2>2
  <2>4. Dead(p, t, i, k - (J - i))
    BY <2>2, <2>3
  <2>5. PICK j \in i..Len(p) : Plain(p, i, j) /\ Stuck(p, t, i, k - (J - i), j)
    BY <2>4 DEF Dead
  <2>6. j <= J
    <3> SUFFICES ASSUME ~(j <= J) PROVE FALSE
      OBVIOUS
    <3>1. J < Len(p) /\ J + 1 \in (i + 1)..j
      BY <1>0, <2>0, <2>5
    <3> QED
      BY <1>1, <2>5, <3>1 DEF Plain
  <2>7. (k - (J - i)) + (j - i) = k - (J - j) /\ j \in i..J
    BY <1>0, <2>0, <2>1, <2>5, <2>6
  <2>8. CASE j = J
    <3>1. k - (J - j) = k
      BY <2>0, <2>1, <2>8
    <3>2. J # Len(p) => J < Len(p)
      BY <1>0, <2>0
    <3> QED
      BY <1>1, <1>2, <2>5, <2>7, <2>8, <3>1, <3>2 DEF Stuck
  <2>9. CASE j < J
    <3>1. j # Len(p) /\ k - (J - j) + 1 \in 1..Len(t) /\ Alike(p, t, j + 1, k - (J - j) + 1)
      <4>1. j # Len(p)
        BY <1>0, <2>0, <2>5, <2>9
      <4> QED
        BY <2>1, <2>7, <2>9, <4>1
    <3>2. k - (J - j) < Len(t)
      BY <1>0, <2>0, <2>1, <2>7, <3>1
    <3> QED
      BY <2>5, <2>7, <3>1, <3>2 DEF Stuck
  <2> QED
    BY <1>0, <2>0, <2>6, <2>7, <2>8, <2>9
<1>3. CASE J = Len(p)
  BY <1>2, <1>3
<1>4. CASE J # Len(p)
  <2>1. E[J] = {}
    BY <1>2, <1>4
  <2>2. J \in 0..Len(p)
    BY <1>0
  <2>3. E[Len(p)] = {}
    BY <2>1, <2>2, EmptyStays
  <2> QED
    BY <2>3
<1> QED
  BY <1>3, <1>4

-----------------------------------------------------------------------------
(* What the loops of the match know of the places e of the pattern and s of *)
(* the string.                                                             *)

\* While there is one way to match, it goes on or there is none.
LEMMA OneWay ==
  ASSUME NoPlus, NEW p, NEW t, NEW E, Texted(p, t, E), NEW e \in 0..Len(p), NEW s \in 0..Len(t),
         E[e] = {s}
  PROVE  /\ e < Len(p) /\ p[e + 1] # "*" /\ s < Len(t) /\ Alike(p, t, e + 1, s + 1) =>
              E[e + 1] = {s + 1}
         /\ e = Len(p) /\ s # Len(t) => Len(t) \notin E[Len(p)]
         /\ e < Len(p) /\ p[e + 1] # "*" /\ ~(s < Len(t) /\ Alike(p, t, e + 1, s + 1)) =>
              Len(t) \notin E[Len(p)]
<1>0. Len(p) \in Nat /\ Len(t) \in Nat
  BY DEF Texted
<1>1. ASSUME e < Len(p), p[e + 1] # "*"
      PROVE  \A k : k \in E[e + 1] <=> k = s + 1 /\ s < Len(t) /\ Alike(p, t, e + 1, s + 1)
  <2>1. e + 1 \in 1..Len(p) /\ (e + 1) - 1 = e
    BY <1>0, <1>1
  <2>2. \A k : k \in E[e + 1] <=> k \in 1..Len(t) /\ k - 1 = s /\ Alike(p, t, e + 1, k)
    BY <1>1, <2>1, EndsStep
  <2> TAKE k
  <2>3. k \in 1..Len(t) /\ k - 1 = s <=> k = s + 1 /\ s < Len(t)
    BY <1>0
  <2> QED
    BY <2>2, <2>3
<1>2. ASSUME e < Len(p), p[e + 1] # "*", ~(s < Len(t) /\ Alike(p, t, e + 1, s + 1))
      PROVE  Len(t) \notin E[Len(p)]
  <2>1. e + 1 \in 0..Len(p) /\ E[e + 1] = {}
    BY <1>0, <1>1, <1>2
  <2>2. E[Len(p)] = {}
    BY <2>1, EmptyStays
  <2> QED
    BY <2>2
<1>3. ASSUME e < Len(p), p[e + 1] # "*", s < Len(t), Alike(p, t, e + 1, s + 1)
      PROVE  E[e + 1] = {s + 1}
  BY <1>1, <1>3
<1> QED
  BY <1>2, <1>3

\* Behind a * all places are reached that follow the first one before it.
LEMMA BehindStar ==
  ASSUME NoPlus, NEW p, NEW t, NEW E, Texted(p, t, E), NEW e \in 0..Len(p), NEW s \in E[e],
         e < Len(p), p[e + 1] = "*", \A k \in E[e] : s <= k
  PROVE  E[e + 1] = s..Len(t) /\ s \in 0..Len(t)
<1>0. Len(p) \in Nat /\ Len(t) \in Nat /\ e + 1 \in 1..Len(p) /\ (e + 1) - 1 = e
  BY DEF Texted
<1>1. E[e] \subseteq 0..Len(t)
  BY EndsStep
<1>2. \A k : k \in E[e + 1] <=> k \in 0..Len(t) /\ \E j \in E[e] : j <= k
  BY <1>0, EndsStep
<1>3. \A k \in 0..Len(t) : (\E j \in E[e] : j <= k) <=> s <= k
  <2> TAKE k \in 0..Len(t)
  <2>1. ASSUME NEW j \in E[e], j <= k PROVE s <= k
    <3>1. s <= j /\ j \in 0..Len(t) /\ s \in 0..Len(t)
      BY <1>1
    <3> QED
      BY <1>0, <2>1, <3>1
  <2> QED
    BY <2>1
<1>4. s \in 0..Len(t)
  BY <1>1
<1>5. \A k : k \in s..Len(t) <=> k \in 0..Len(t) /\ s <= k
  BY <1>0, <1>4
<1>6. \A k : k \in E[e + 1] <=> k \in s..Len(t)
  BY <1>2, <1>3, <1>5
<1> QED
  BY <1>4, <1>6

\* An attempt behind the * before es, which starts where ss is one beyond: all
\* earlier ones are dead.
Attempt(p, t, E, es, e, s, ss) ==
  /\ es \in 1..Len(p) /\ es < Len(p) /\ p[es] = "*"
  /\ e \in es..Len(p) /\ Plain(p, es, e)
  /\ s \in E[e] /\ ss = s - (e - es) + 1 /\ ss - 1 \in E[es]
  /\ \A b \in E[es] : b < ss - 1 => Dead(p, t, es, b)

\* Where an attempt stands: e is as far behind es as s is behind the place before ss.
LEMMA AttemptTypes ==
  ASSUME NoPlus, NEW p, NEW t, NEW E, Texted(p, t, E), NEW es, NEW e, NEW s, NEW ss,
         Attempt(p, t, E, es, e, s, ss)
  PROVE  /\ Len(p) \in Nat /\ Len(t) \in Nat /\ es \in Nat /\ e \in Nat /\ s \in 0..Len(t)
         /\ ss \in 1..(s + 1) /\ es \in 0..Len(p) /\ e \in 0..Len(p) /\ es <= e
         /\ (ss - 1) + (e - es) = s
<1>0. Len(p) \in Nat /\ Len(t) \in Nat /\ es \in 1..Len(p) /\ e \in es..Len(p)
  BY DEF Texted, Attempt
<1>1. es \in 0..Len(p) /\ e \in 0..Len(p)
  BY <1>0
<1>2. s \in 0..Len(t) /\ ss - 1 \in 0..Len(t) /\ ss = s - (e - es) + 1
  BY <1>1, EndsStep DEF Attempt
<1>3. ss \in 1..(s + 1) /\ (ss - 1) + (e - es) = s
  BY <1>0, <1>2
<1> QED
  BY <1>0, <1>1, <1>2, <1>3

\* An attempt that gets to the next * gets there first.
LEMMA FirstAtStar ==
  ASSUME NoPlus, NEW p, NEW t, NEW E, Texted(p, t, E), NEW es, NEW e, NEW s, NEW ss,
         Attempt(p, t, E, es, e, s, ss), e < Len(p), p[e + 1] = "*"
  PROVE  \A k \in E[e] : s <= k
<1> TAKE k \in E[e]
<1>1. es \in 0..Len(p) /\ e \in es..Len(p) /\ Plain(p, es, e)
  BY AttemptTypes DEF Attempt
<1>2. k - (e - es) \in E[es] /\ ~Dead(p, t, es, k - (e - es))
  BY <1>1, DeadBeforeStar
<1>3. ~(k - (e - es) < ss - 1)
  BY <1>2 DEF Attempt
<1>4. k \in 0..Len(t)
  BY AttemptTypes, EndsStep
<1> QED
  BY <1>3, <1>4, AttemptTypes

\* A character that is met takes an attempt further.
LEMMA AttemptAdvances ==
  ASSUME NoPlus, NEW p, NEW t, NEW E, Texted(p, t, E), NEW es, NEW e, NEW s, NEW ss,
         Attempt(p, t, E, es, e, s, ss),
         e < Len(p), p[e + 1] # "*", s < Len(t), Alike(p, t, e + 1, s + 1)
  PROVE  Attempt(p, t, E, es, e + 1, s + 1, ss)
<1>0. /\ Len(p) \in Nat /\ Len(t) \in Nat /\ es \in Nat /\ e \in Nat /\ s \in 0..Len(t)
      /\ ss \in 1..(s + 1) /\ es <= e /\ (ss - 1) + (e - es) = s
  BY AttemptTypes
<1>1. /\ e + 1 \in es..Len(p) /\ e + 1 \in 1..Len(p) /\ s + 1 \in 1..Len(t)
      /\ (e + 1) - 1 = e /\ (s + 1) - 1 = s /\ ss = (s + 1) - ((e + 1) - es) + 1
  BY <1>0
<1>2. s + 1 \in E[e + 1]
  <2>1. s \in E[e]
    BY DEF Attempt
  <2> QED
    BY <1>1, <2>1, EndsStep
<1>3. Plain(p, es, e + 1)
  <2> SUFFICES ASSUME NEW l \in (es + 1)..(e + 1) PROVE p[l] # "*"
    BY DEF Plain
  <2>1. l = e + 1 \/ l \in (es + 1)..e
    BY <1>0
  <2> QED
    BY <2>1 DEF Attempt, Plain
<1> QED
  BY <1>1, <1>2, <1>3 DEF Attempt

\* One that is not met makes it a dead one, and the next begins at ss.
LEMMA AttemptGoesBack ==
  ASSUME NoPlus, NEW p, NEW t, NEW E, Texted(p, t, E), NEW es, NEW e, NEW s, NEW ss,
         Attempt(p, t, E, es, e, s, ss), s < Len(t),
         e < Len(p) => p[e + 1] # "*" /\ ~Alike(p, t, e + 1, s + 1)
  PROVE  Attempt(p, t, E, es, es, ss, ss + 1)
<1>0. /\ Len(p) \in Nat /\ Len(t) \in Nat /\ es \in Nat /\ e \in Nat /\ s \in 0..Len(t)
      /\ ss \in 1..(s + 1) /\ es <= e /\ (ss - 1) + (e - es) = s /\ es \in 0..Len(p)
  BY AttemptTypes
<1>1. e \in es..Len(p) /\ Plain(p, es, e)
  BY DEF Attempt
<1>2. Dead(p, t, es, ss - 1)
  <2>1. e # Len(p) => e < Len(p)
    BY <1>0, <1>1
  <2>2. Stuck(p, t, es, ss - 1, e)
    BY <1>0, <2>1 DEF Stuck
  <2> QED
    BY <1>1, <2>2 DEF Dead
<1>3. ss \in E[es]
  <2>1. es \in 1..Len(p) /\ p[es] = "*" /\ ss - 1 \in E[es]
    BY DEF Attempt
  <2>2. \A k : k \in E[es] <=> k \in 0..Len(t) /\ \E j \in E[es - 1] : j <= k
    BY <2>1, EndsStep
  <2>3. PICK j \in E[es - 1] : j <= ss - 1
    BY <2>1, <2>2
  <2>4. es - 1 \in 0..Len(p)
    BY <1>0, <2>1
  <2>5. j \in 0..Len(t)
    BY <2>4, EndsStep
  <2>6. ss \in 0..Len(t) /\ j <= ss
    BY <1>0, <2>3, <2>5
  <2> QED
    BY <2>2, <2>6
<1>4. ASSUME NEW b \in E[es], b < (ss + 1) - 1 PROVE Dead(p, t, es, b)
  <2>1. b \in 0..Len(t)
    BY <1>0, EndsStep
  <2>2. b = ss - 1 \/ b < ss - 1
    BY <1>0, <1>4, <2>1
  <2> QED
    BY <1>2, <2>2 DEF Attempt
<1>5. /\ es \in es..Len(p) /\ ss + 1 = ss - (es - es) + 1 /\ (ss + 1) - 1 = ss
  BY <1>0
<1>6. Plain(p, es, es)
  BY <1>0 DEF Plain
<1> QED
  BY <1>3, <1>4, <1>5, <1>6 DEF Attempt

\* The first attempt behind a * begins where the * did.
LEMMA AttemptStarts ==
  ASSUME NoPlus, NEW p, NEW t, NEW E, Texted(p, t, E), NEW e \in 0..Len(p), NEW s \in E[e],
         e + 1 < Len(p), p[e + 1] = "*", \A k \in E[e] : s <= k
  PROVE  Attempt(p, t, E, e + 1, e + 1, s, s + 1)
<1>0. Len(p) \in Nat /\ Len(t) \in Nat /\ e < Len(p)
  BY DEF Texted
<1>1. E[e + 1] = s..Len(t) /\ s \in 0..Len(t)
  BY <1>0, BehindStar
<1>2. /\ e + 1 \in 1..Len(p) /\ e + 1 \in (e + 1)..Len(p) /\ s + 1 = s - ((e + 1) - (e + 1)) + 1
      /\ (s + 1) - 1 = s /\ s \in s..Len(t) /\ \A b \in s..Len(t) : ~(b < s)
  BY <1>0, <1>1
<1>3. Plain(p, e + 1, e + 1)
  BY <1>0 DEF Plain
<1> QED
  BY <1>1, <1>2, <1>3 DEF Attempt

\* The string is over: what is left of the pattern must be stars.
Over(p, t, E, e) ==
  /\ e \in 0..Len(p) /\ Len(t) \in E[e]
  /\ e < Len(p) => IF p[e + 1] = "*" THEN E[e] = {Len(t)} ELSE Len(t) \notin E[Len(p)]

\* With one way to match, the end of the string decides what is left.
LEMMA OverOneWay ==
  ASSUME NoPlus, NEW p, NEW t, NEW E, Texted(p, t, E), NEW e \in 0..Len(p), E[e] = {Len(t)}
  PROVE  Over(p, t, E, e)
<1>0. Len(p) \in Nat /\ Len(t) \in Nat /\ Len(t) \in 0..Len(t) /\ ~(Len(t) < Len(t))
  BY DEF Texted
<1> QED
  BY <1>0, OneWay DEF Over

\* So does the end of the string within an attempt.
LEMMA OverAttempt ==
  ASSUME NoPlus, NEW p, NEW t, NEW E, Texted(p, t, E), NEW es, NEW e, NEW ss,
         Attempt(p, t, E, es, e, Len(t), ss)
  PROVE  Over(p, t, E, e)
<1>0. /\ Len(p) \in Nat /\ Len(t) \in Nat /\ es \in Nat /\ e \in Nat /\ es <= e
      /\ es \in 0..Len(p) /\ e \in 0..Len(p) /\ (ss - 1) + (e - es) = Len(t) /\ ss \in Nat
  BY AttemptTypes
<1>1. Len(t) \in E[e] /\ e \in es..Len(p) /\ Plain(p, es, e)
  BY DEF Attempt
<1>2. ASSUME e < Len(p), p[e + 1] = "*" PROVE E[e] = {Len(t)}
  <2>1. \A k \in E[e] : Len(t) <= k
    BY <1>2, FirstAtStar
  <2>2. \A k \in E[e] : k \in 0..Len(t)
    BY <1>0, EndsStep
  <2>3. \A k \in E[e] : k = Len(t)
    BY <1>0, <2>1, <2>2
  <2> QED
    BY <1>1, <2>3
<1>3. ASSUME e < Len(p), p[e + 1] # "*" PROVE Len(t) \notin E[Len(p)]
  <2>1. ASSUME NEW b \in E[es], b + (e - es) < Len(t) PROVE Dead(p, t, es, b)
    <3>1. b \in 0..Len(t)
      BY <1>0, EndsStep
    <3>2. b < ss - 1
      BY <1>0, <2>1, <3>1
    <3> QED
      BY <3>2 DEF Attempt
  <2> QED
    BY <1>0, <1>1, <1>3, <2>1, DeadAtEnd
<1> QED
  BY <1>0, <1>1, <1>2, <1>3 DEF Over

\* A * that is left matches nothing.
LEMMA OverStar ==
  ASSUME NoPlus, NEW p, NEW t, NEW E, Texted(p, t, E), NEW e, Over(p, t, E, e),
         e < Len(p), p[e + 1] = "*"
  PROVE  Over(p, t, E, e + 1)
<1>0. Len(p) \in Nat /\ Len(t) \in Nat /\ e \in 0..Len(p) /\ E[e] = {Len(t)}
  BY DEF Texted, Over
<1>1. E[e + 1] = Len(t)..Len(t)
  BY <1>0, BehindStar
<1>2. E[e + 1] = {Len(t)} /\ e + 1 \in 0..Len(p)
  BY <1>0, <1>1
<1> QED
  BY <1>2, OverOneWay

-----------------------------------------------------------------------------
(* uvm_re_match finds what its pattern means.                              *)

Loops == {"enter", "lead", "star", "rest", "returned"}

MatchRecords ==
  [of : {"uvm_re_match"}, asked : Seq(PatternChars), str : Seq(StringChars),
   re : Seq(PatternChars), e : Nat, s : Nat, es : Nat, ss : Nat, loop : Loops, ret : {0, 1}]

Stripped(p) == IF p[1] = "^" THEN Tail(p) ELSE p

Matches(p, t) == Len(t) \in Ends(p, t)[Len(p)]

\* In the first loop, and in the second as long as it has met no *, there is one
\* way to get to e.
AtOnlyWay(p, t, e, s) == e \in 0..Len(p) /\ s \in 0..Len(t) /\ Ends(p, t)[e] = {s}

\* What each loop knows, for the pattern p, the string t and what was asked.
LoopKnows(asked, p, t, e, s, es, ss, loop, ret) ==
  /\ loop = "enter" => e = 0 /\ s = 0 /\ es = 0 /\ ss = 0
  /\ loop \in {"lead", "star", "rest"} => asked # <<>> /\ p = Stripped(asked)
  /\ loop = "lead" => AtOnlyWay(p, t, e, s) /\ es = 0
  /\ loop = "star" =>
       \/ /\ es = 0 /\ AtOnlyWay(p, t, e, s)
          /\ s = Len(t) \/ (e < Len(p) /\ p[e + 1] = "*")
       \/ Attempt(p, t, Ends(p, t), es, e, s, ss)
  /\ loop = "rest" => Over(p, t, Ends(p, t), e)
  /\ loop = "returned" => (ret = 0 <=> asked = <<>> \/ Matches(Stripped(asked), t))

\* The inductive invariant of uvm_re_match.
MatchInv ==
  /\ frame \in MatchRecords
  /\ LoopKnows(frame.asked, frame.re, frame.str, frame.e, frame.s, frame.es, frame.ss,
               frame.loop, frame.ret)

\* A step that leaves the arguments alone, and where it goes.
Becomes(re, e, s, es, ss, loop, ret) ==
  /\ frame' \in MatchRecords
  /\ frame'.asked = frame.asked /\ frame'.str = frame.str
  /\ frame'.re = re /\ frame'.e = e /\ frame'.s = s /\ frame'.es = es /\ frame'.ss = ss
  /\ frame'.loop = loop /\ frame'.ret = ret

\* A step that keeps the arguments keeps the invariant if its loop knows enough.
LEMMA InvOfBecomes ==
  ASSUME NEW re, NEW e, NEW s, NEW es, NEW ss, NEW loop, NEW ret,
         Becomes(re, e, s, es, ss, loop, ret),
         LoopKnows(frame.asked, re, frame.str, e, s, es, ss, loop, ret)
  PROVE  MatchInv'
BY DEF Becomes, MatchInv

\* A return changes the loop and the result.
LEMMA ReturnBecomes ==
  ASSUME frame \in MatchRecords, NEW r \in {0, 1}, Return(r)
  PROVE  Becomes(frame.re, frame.e, frame.s, frame.es, frame.ss, "returned", r)
BY DEF Return, Becomes, MatchRecords, Loops

\* A return keeps the invariant if its result is right.
LEMMA ReturnKeepsInv ==
  ASSUME frame \in MatchRecords, NEW r \in {0, 1}, Return(r),
         frame.asked # <<>>, frame.re = Stripped(frame.asked),
         r = 0 <=> Matches(frame.re, frame.str)
  PROVE  MatchInv'
<1>1. Becomes(frame.re, frame.e, frame.s, frame.es, frame.ss, "returned", r)
  BY ReturnBecomes
<1>2. LoopKnows(frame.asked, frame.re, frame.str, frame.e, frame.s, frame.es, frame.ss,
                "returned", r)
  BY DEF LoopKnows
<1> QED
  BY <1>1, <1>2, InvOfBecomes

\* The texts of a call, their places, and what getc answers.
LEMMA CallTexts ==
  ASSUME MatchInv
  PROVE  /\ frame \in MatchRecords
         /\ Texted(frame.re, frame.str, Ends(frame.re, frame.str))
         /\ Len(frame.re) \in Nat /\ Len(frame.str) \in Nat
         /\ frame.e \in Nat /\ frame.s \in Nat
         /\ frame.asked \in Seq(PatternChars)
         /\ PatternChar = Getc(frame.re, frame.e) /\ StringChar = Getc(frame.str, frame.s)
<1>1. frame \in MatchRecords
  BY DEF MatchInv
<1>2. /\ frame.re \in Seq(PatternChars) /\ frame.str \in Seq(StringChars)
      /\ frame.e \in Nat /\ frame.s \in Nat /\ frame.asked \in Seq(PatternChars)
  BY <1>1 DEF MatchRecords
<1>3. Len(frame.re) \in Nat /\ Len(frame.str) \in Nat
  BY <1>2
<1> QED
  BY <1>1, <1>2, <1>3 DEF Texted, PatternChar, StringChar

\* Of two places in the texts, getc tells a * and whether the characters match.
LEMMA GetcTells ==
  ASSUME NEW p \in Seq(PatternChars), NEW t \in Seq(StringChars),
         NEW e \in 0..Len(p), NEW s \in 0..Len(t)
  PROVE  /\ Getc(p, e) = "*" <=> e < Len(p) /\ p[e + 1] = "*"
         /\ s < Len(t) => (Getc(p, e) \in {Getc(t, s), "?"} <=>
                              e < Len(p) /\ Alike(p, t, e + 1, s + 1))
<1>0. Len(p) \in Nat /\ Len(t) \in Nat
  OBVIOUS
<1>1. Getc(p, e) = "*" <=> e < Len(p) /\ p[e + 1] = "*"
  BY <1>0 DEF Getc
<1>2. ASSUME s < Len(t)
      PROVE  Getc(p, e) \in {Getc(t, s), "?"} <=> e < Len(p) /\ Alike(p, t, e + 1, s + 1)
  <2>1. Getc(t, s) = t[s + 1] /\ t[s + 1] \in StringChars
    <3>1. s + 1 \in DOMAIN t
      BY <1>0, <1>2
    <3> QED
      BY <1>2, <3>1 DEF Getc
  <2>2. t[s + 1] # "0"
    BY <2>1, LengthsAssumption
  <2>3. CASE e < Len(p)
    BY <2>1, <2>3 DEF Getc, Alike
  <2>4. CASE ~(e < Len(p))
    BY <2>1, <2>2, <2>4 DEF Getc
  <2> QED
    BY <2>3, <2>4
<1> QED
  BY <1>1, <1>2

\* One lemma for each part of the loops, and one for all of them, from here on.
LEMMA EnterKeepsInv ==
  ASSUME NoPlus, MatchInv, Enter
  PROVE  MatchInv'
<1>0. frame \in MatchRecords /\ frame.asked \in Seq(PatternChars) /\ frame.loop = "enter"
  BY CallTexts DEF Enter, In
<1>1. frame.e = 0 /\ frame.s = 0 /\ frame.es = 0 /\ frame.ss = 0
  BY <1>0 DEF MatchInv, LoopKnows
<1>2. CASE frame.asked = <<>> /\ Return(0)
  <2>1. Becomes(frame.re, frame.e, frame.s, frame.es, frame.ss, "returned", 0)
    BY <1>0, <1>2, ReturnBecomes
  <2>2. LoopKnows(frame.asked, frame.re, frame.str, frame.e, frame.s, frame.es, frame.ss,
                  "returned", 0)
    BY <1>2 DEF LoopKnows
  <2> QED
    BY <2>1, <2>2, InvOfBecomes
<1>3. CASE /\ frame.asked # <<>>
           /\ frame' = [frame EXCEPT !.re = Stripped(frame.asked), !.loop = "lead"]
  <2>1. Stripped(frame.asked) \in Seq(PatternChars)
    BY <1>0, <1>3 DEF Stripped
  <2>2. Becomes(Stripped(frame.asked), 0, 0, 0, 0, "lead", frame.ret)
    BY <1>0, <1>1, <1>3, <2>1 DEF Becomes, MatchRecords, Loops
  <2>3. AtOnlyWay(Stripped(frame.asked), frame.str, 0, 0)
    <3>1. Len(Stripped(frame.asked)) \in Nat /\ Len(frame.str) \in Nat
      BY <2>1, CallTexts
    <3>2. Ends(Stripped(frame.asked), frame.str)[0] = {0}
      BY <3>1, EndsUnfold DEF Reaches
    <3> QED
      BY <3>1, <3>2 DEF AtOnlyWay
  <2>4. LoopKnows(frame.asked, Stripped(frame.asked), frame.str, 0, 0, 0, 0, "lead", frame.ret)
    BY <1>3, <2>3 DEF LoopKnows
  <2> QED
    BY <2>2, <2>4, InvOfBecomes
<1> QED
  BY <1>2, <1>3 DEF Enter, Stripped

LEMMA LeadKeepsInv ==
  ASSUME NoPlus, MatchInv, Lead
  PROVE  MatchInv'
<1> DEFINE p == frame.re
           t == frame.str
           e == frame.e
           s == frame.s
<1>0. /\ frame \in MatchRecords /\ Texted(p, t, Ends(p, t)) /\ Len(p) \in Nat /\ Len(t) \in Nat
      /\ p \in Seq(PatternChars) /\ t \in Seq(StringChars) /\ e \in Nat /\ s \in Nat
      /\ PatternChar = Getc(p, e) /\ StringChar = Getc(t, s) /\ frame.loop = "lead"
  BY CallTexts DEF Lead, In, Texted
<1>1. /\ frame.asked # <<>> /\ p = Stripped(frame.asked) /\ frame.es = 0
      /\ e \in 0..Len(p) /\ s \in 0..Len(t) /\ Ends(p, t)[e] = {s}
  BY <1>0 DEF MatchInv, LoopKnows, AtOnlyWay
<1>2. /\ PatternChar = "*" <=> e < Len(p) /\ p[e + 1] = "*"
      /\ s < Len(t) => (Same <=> e < Len(p) /\ Alike(p, t, e + 1, s + 1))
  BY <1>0, <1>1, GetcTells DEF Same
<1>3. /\ StringEnds <=> s = Len(t)
      /\ ~StringEnds => s < Len(t)
  BY <1>0, <1>1 DEF StringEnds
<1>4. /\ e < Len(p) /\ p[e + 1] # "*" /\ s < Len(t) /\ Alike(p, t, e + 1, s + 1) =>
           Ends(p, t)[e + 1] = {s + 1}
      /\ e = Len(p) /\ s # Len(t) => ~Matches(p, t)
      /\ e < Len(p) /\ p[e + 1] # "*" /\ ~(s < Len(t) /\ Alike(p, t, e + 1, s + 1)) =>
           ~Matches(p, t)
  <2> HIDE DEF p, t, e, s
  <2> QED
    BY <1>0, <1>1, OneWay DEF Matches
<1>5. CASE ~StringEnds /\ PatternChar # "*" /\ ~Same /\ Return(1)
  <2>1. ~Matches(p, t)
    BY <1>1, <1>2, <1>3, <1>4, <1>5
  <2> QED
    BY <1>0, <1>1, <1>5, <2>1, ReturnKeepsInv
<1>6. CASE /\ ~StringEnds /\ PatternChar # "*" /\ Same
           /\ frame' = [frame EXCEPT !.e = @ + 1, !.s = @ + 1]
  <2>0. e + 1 \in Nat /\ s + 1 \in Nat /\ frame.loop = "lead" /\ frame \in MatchRecords
    BY <1>0
  <2>1. Becomes(p, e + 1, s + 1, frame.es, frame.ss, "lead", frame.ret)
    BY <2>0, <1>6 DEF Becomes, MatchRecords, Loops
  <2>2. AtOnlyWay(p, t, e + 1, s + 1)
    BY <1>0, <1>1, <1>2, <1>3, <1>4, <1>6 DEF AtOnlyWay
  <2>3. LoopKnows(frame.asked, p, t, e + 1, s + 1, frame.es, frame.ss, "lead", frame.ret)
    BY <1>1, <2>2 DEF LoopKnows
  <2> QED
    BY <2>1, <2>3, InvOfBecomes
<1>7. CASE (StringEnds \/ PatternChar = "*") /\ frame' = [frame EXCEPT !.loop = "star"]
  <2>1. Becomes(p, e, s, frame.es, frame.ss, "star", frame.ret)
    BY <1>0, <1>7 DEF Becomes, MatchRecords, Loops
  <2>2. LoopKnows(frame.asked, p, t, e, s, frame.es, frame.ss, "star", frame.ret)
    BY <1>1, <1>2, <1>3, <1>7 DEF LoopKnows, AtOnlyWay
  <2> QED
    BY <2>1, <2>2, InvOfBecomes
<1> QED
  BY <1>5, <1>6, <1>7 DEF Lead

\* In the second loop s is the first place before a *, and off a * an attempt is on.
LEMMA StarKnows ==
  ASSUME NoPlus, MatchInv, In("star")
  PROVE  /\ Texted(frame.re, frame.str, Ends(frame.re, frame.str))
         /\ Len(frame.re) \in Nat /\ Len(frame.str) \in Nat
         /\ frame.asked # <<>> /\ frame.re = Stripped(frame.asked)
         /\ frame.e \in 0..Len(frame.re) /\ frame.s \in 0..Len(frame.str)
         /\ frame.s \in Ends(frame.re, frame.str)[frame.e]
         /\ PatternChar = "*" <=> frame.e < Len(frame.re) /\ frame.re[frame.e + 1] = "*"
         /\ ~StringEnds => /\ frame.s < Len(frame.str)
                           /\ Same <=> /\ frame.e < Len(frame.re)
                                       /\ Alike(frame.re, frame.str, frame.e + 1, frame.s + 1)
         /\ PatternChar = "*" => \A k \in Ends(frame.re, frame.str)[frame.e] : frame.s <= k
         /\ ~StringEnds /\ PatternChar # "*" =>
              Attempt(frame.re, frame.str, Ends(frame.re, frame.str),
                      frame.es, frame.e, frame.s, frame.ss)
<1> DEFINE p == frame.re
           t == frame.str
           e == frame.e
           s == frame.s
           E == Ends(p, t)
           Once == /\ frame.es = 0 /\ AtOnlyWay(p, t, e, s)
                   /\ s = Len(t) \/ (e < Len(p) /\ p[e + 1] = "*")
           Again == Attempt(p, t, E, frame.es, e, s, frame.ss)
<1>0. /\ frame \in MatchRecords /\ Texted(p, t, E) /\ Len(p) \in Nat /\ Len(t) \in Nat
      /\ p \in Seq(PatternChars) /\ t \in Seq(StringChars) /\ e \in Nat /\ s \in Nat
      /\ PatternChar = Getc(p, e) /\ StringChar = Getc(t, s) /\ frame.loop = "star"
  BY CallTexts DEF In, Texted
<1>1. frame.asked # <<>> /\ p = Stripped(frame.asked) /\ (Once \/ Again)
  BY <1>0 DEF MatchInv, LoopKnows
<1>2. e \in 0..Len(p) /\ s \in 0..Len(t) /\ s \in E[e]
  <2>1. CASE Once
    BY <2>1 DEF AtOnlyWay
  <2>2. CASE Again
    <3>1. s \in E[e]
      BY <2>2 DEF Attempt
    <3> HIDE DEF p, t, e, s, E
    <3>2. e \in 0..Len(p) /\ s \in 0..Len(t)
      BY <1>0, <2>2, AttemptTypes
    <3> QED
      BY <3>1, <3>2
  <2> QED
    BY <1>1, <2>1, <2>2
<1>3. /\ PatternChar = "*" <=> e < Len(p) /\ p[e + 1] = "*"
      /\ s < Len(t) => (Same <=> e < Len(p) /\ Alike(p, t, e + 1, s + 1))
  BY <1>0, <1>2, GetcTells DEF Same
<1>4. ~StringEnds => s < Len(t)
  BY <1>0, <1>2 DEF StringEnds
<1>5. ASSUME PatternChar = "*" PROVE \A k \in E[e] : s <= k
  <2>1. CASE Once
    BY <1>0, <2>1 DEF AtOnlyWay
  <2>2. CASE Again
    <3>1. e < Len(p) /\ p[e + 1] = "*"
      BY <1>3, <1>5
    <3> HIDE DEF p, t, e, s, E
    <3> QED
      BY <1>0, <2>2, <3>1, FirstAtStar
  <2> QED
    BY <1>1, <2>1, <2>2
<1>6. ~StringEnds /\ PatternChar # "*" => Again
  BY <1>0, <1>1, <1>3, <1>4
<1> HIDE DEF Again
<1>7. ~StringEnds => s < Len(t) /\ (Same <=> e < Len(p) /\ Alike(p, t, e + 1, s + 1))
  BY <1>3, <1>4
<1> QED
  BY <1>0, <1>1, <1>2, <1>3, <1>5, <1>6, <1>7 DEF Again

\* What a step of the second loop needs to keep the invariant.
LEMMA StarAttempts ==
  ASSUME MatchInv, In("star"), NEW e, NEW s, NEW es, NEW ss,
         Becomes(frame.re, e, s, es, ss, "star", frame.ret),
         frame.asked # <<>>, frame.re = Stripped(frame.asked),
         Attempt(frame.re, frame.str, Ends(frame.re, frame.str), es, e, s, ss)
  PROVE  MatchInv'
<1>1. LoopKnows(frame.asked, frame.re, frame.str, e, s, es, ss, "star", frame.ret)
  BY DEF LoopKnows
<1> QED
  BY <1>1, InvOfBecomes

LEMMA MeetStarKeepsInv ==
  ASSUME NoPlus, MatchInv, MeetStar
  PROVE  MatchInv'
<1> DEFINE p == frame.re
           t == frame.str
           e == frame.e
           s == frame.s
           E == Ends(p, t)
<1>0. In("star") /\ frame \in MatchRecords /\ frame.loop = "star" /\ e \in Nat /\ s \in Nat
  BY CallTexts DEF MeetStar, In
<1>1. /\ Texted(p, t, E) /\ Len(p) \in Nat /\ Len(t) \in Nat
      /\ frame.asked # <<>> /\ p = Stripped(frame.asked)
      /\ e \in 0..Len(p) /\ s \in 0..Len(t) /\ s \in E[e]
      /\ e < Len(p) /\ p[e + 1] = "*" /\ \A k \in E[e] : s <= k
  BY <1>0, StarKnows DEF MeetStar
<1>2. CASE e + 1 = Len(p) /\ Return(0)
  <2>1. E[e + 1] = s..Len(t)
    <3> HIDE DEF p, t, e, s, E
    <3> QED
      BY <1>1, BehindStar
  <2>2. Matches(p, t)
    BY <1>1, <1>2, <2>1 DEF Matches
  <2> QED
    BY <1>0, <1>1, <1>2, <2>2, ReturnKeepsInv
<1>3. CASE /\ e + 1 # Len(p)
           /\ frame' = [frame EXCEPT !.e = @ + 1, !.es = frame.e + 1, !.ss = frame.s + 1]
  <2>0. e + 1 \in Nat /\ s + 1 \in Nat /\ e + 1 < Len(p)
    BY <1>0, <1>1, <1>3
  <2>1. Becomes(p, e + 1, s, e + 1, s + 1, "star", frame.ret)
    BY <1>0, <1>3, <2>0 DEF Becomes, MatchRecords, Loops
  <2>2. Attempt(p, t, E, e + 1, e + 1, s, s + 1)
    <3> HIDE DEF p, t, e, s, E
    <3> QED
      BY <1>1, <2>0, AttemptStarts
  <2> QED
    BY <1>0, <1>1, <2>1, <2>2, StarAttempts
<1> QED
  BY <1>2, <1>3 DEF MeetStar

LEMMA AdvanceKeepsInv ==
  ASSUME NoPlus, MatchInv, Advance
  PROVE  MatchInv'
<1> DEFINE p == frame.re
           t == frame.str
           e == frame.e
           s == frame.s
           E == Ends(p, t)
<1>0. /\ In("star") /\ frame \in MatchRecords /\ frame.loop = "star"
      /\ e + 1 \in Nat /\ s + 1 \in Nat
  BY CallTexts DEF Advance, In
<1>1. /\ Texted(p, t, E) /\ frame.asked # <<>> /\ p = Stripped(frame.asked)
      /\ e < Len(p) /\ p[e + 1] # "*" /\ s < Len(t) /\ Alike(p, t, e + 1, s + 1)
      /\ Attempt(p, t, E, frame.es, e, s, frame.ss)
  BY <1>0, StarKnows DEF Advance
<1>2. Becomes(p, e + 1, s + 1, frame.es, frame.ss, "star", frame.ret)
  <2>1. frame' = [frame EXCEPT !.e = @ + 1, !.s = @ + 1]
    BY DEF Advance
  <2> QED
    BY <1>0, <2>1 DEF Becomes, MatchRecords, Loops
<1>3. Attempt(p, t, E, frame.es, e + 1, s + 1, frame.ss)
  <2> HIDE DEF p, t, e, s, E
  <2> QED
    BY <1>1, AttemptAdvances
<1> QED
  BY <1>0, <1>1, <1>2, <1>3, StarAttempts

LEMMA GoBackKeepsInv ==
  ASSUME NoPlus, MatchInv, GoBack
  PROVE  MatchInv'
<1> DEFINE p == frame.re
           t == frame.str
           e == frame.e
           s == frame.s
           E == Ends(p, t)
<1>0. /\ In("star") /\ frame \in MatchRecords /\ frame.loop = "star"
      /\ frame.es \in Nat /\ frame.ss \in Nat /\ frame.ss + 1 \in Nat
  BY CallTexts DEF GoBack, In, MatchRecords
<1>1. /\ Texted(p, t, E) /\ frame.asked # <<>> /\ p = Stripped(frame.asked) /\ s < Len(t)
      /\ e < Len(p) => p[e + 1] # "*" /\ ~Alike(p, t, e + 1, s + 1)
      /\ Attempt(p, t, E, frame.es, e, s, frame.ss)
  BY <1>0, StarKnows DEF GoBack
<1>2. Becomes(p, frame.es, frame.ss, frame.es, frame.ss + 1, "star", frame.ret)
  <2>1. frame' = [frame EXCEPT !.e = frame.es, !.s = frame.ss, !.ss = @ + 1]
    BY DEF GoBack
  <2> QED
    BY <1>0, <2>1 DEF Becomes, MatchRecords, Loops
<1>3. Attempt(p, t, E, frame.es, frame.es, frame.ss, frame.ss + 1)
  <2> HIDE DEF p, t, e, s, E
  <2> QED
    BY <1>1, AttemptGoesBack
<1> QED
  BY <1>0, <1>1, <1>2, <1>3, StarAttempts

LEMMA StringOverKeepsInv ==
  ASSUME NoPlus, MatchInv, StringOver
  PROVE  MatchInv'
<1> DEFINE p == frame.re
           t == frame.str
           e == frame.e
           E == Ends(p, t)
<1>0. In("star") /\ frame \in MatchRecords /\ frame.loop = "star" /\ frame.s = Len(t)
  BY CallTexts DEF StringOver, In, StringEnds
<1>1. /\ Texted(p, t, E) /\ frame.asked # <<>> /\ p = Stripped(frame.asked)
      /\ e \in 0..Len(p)
  BY <1>0, StarKnows
<1>2. Over(p, t, E, e)
  <2>1. \/ E[e] = {Len(t)}
        \/ Attempt(p, t, E, frame.es, e, Len(t), frame.ss)
    BY <1>0 DEF MatchInv, LoopKnows, AtOnlyWay
  <2> HIDE DEF p, t, e, E
  <2> QED
    BY <1>1, <2>1, OverOneWay, OverAttempt
<1>3. Becomes(p, e, frame.s, frame.es, frame.ss, "rest", frame.ret)
  <2>1. frame' = [frame EXCEPT !.loop = "rest"]
    BY DEF StringOver
  <2> QED
    BY <1>0, <2>1 DEF Becomes, MatchRecords, Loops
<1>4. LoopKnows(frame.asked, p, t, e, frame.s, frame.es, frame.ss, "rest", frame.ret)
  BY <1>1, <1>2 DEF LoopKnows
<1> QED
  BY <1>3, <1>4, InvOfBecomes

LEMMA RestKeepsInv ==
  ASSUME NoPlus, MatchInv, Rest
  PROVE  MatchInv'
<1> DEFINE p == frame.re
           t == frame.str
           e == frame.e
           E == Ends(p, t)
<1>0. /\ frame \in MatchRecords /\ frame.loop = "rest" /\ Texted(p, t, E)
      /\ Len(p) \in Nat /\ p \in Seq(PatternChars) /\ e \in Nat /\ PatternChar = Getc(p, e)
  BY CallTexts DEF Rest, In, Texted
<1>1. frame.asked # <<>> /\ p = Stripped(frame.asked) /\ Over(p, t, E, e)
  BY <1>0 DEF MatchInv, LoopKnows
<1>2. e \in 0..Len(p) /\ (PatternChar = "*" <=> e < Len(p) /\ p[e + 1] = "*")
  BY <1>0, <1>1 DEF Over, Getc
<1>3. CASE PatternChar = "*" /\ frame' = [frame EXCEPT !.e = @ + 1]
  <2>0. e + 1 \in Nat
    BY <1>0
  <2>1. Becomes(p, e + 1, frame.s, frame.es, frame.ss, "rest", frame.ret)
    BY <1>0, <1>3, <2>0 DEF Becomes, MatchRecords, Loops
  <2>2. Over(p, t, E, e + 1)
    <3> HIDE DEF p, t, e, E
    <3> QED
      BY <1>0, <1>1, <1>2, <1>3, OverStar
  <2>3. LoopKnows(frame.asked, p, t, e + 1, frame.s, frame.es, frame.ss, "rest", frame.ret)
    BY <1>1, <2>2 DEF LoopKnows
  <2> QED
    BY <2>1, <2>3, InvOfBecomes
<1>4. CASE PatternChar # "*" /\ Return(IF e = Len(p) THEN 0 ELSE 1)
  <2>1. CASE e = Len(p)
    <3>1. Matches(p, t) /\ Return(0)
      BY <1>1, <1>4, <2>1 DEF Over, Matches
    <3> QED
      BY <1>0, <1>1, <3>1, ReturnKeepsInv
  <2>2. CASE e # Len(p)
    <3>1. e < Len(p) /\ p[e + 1] # "*"
      BY <1>0, <1>2, <1>4, <2>2
    <3>2. ~Matches(p, t) /\ Return(1)
      BY <1>1, <1>4, <2>2, <3>1 DEF Over, Matches
    <3> QED
      BY <1>0, <1>1, <3>2, ReturnKeepsInv
  <2> QED
    BY <2>1, <2>2
<1> QED
  BY <1>3, <1>4 DEF Rest

LEMMA MatchStepKeepsInv ==
  ASSUME NoPlus, MatchInv, MatchStep
  PROVE  MatchInv'
BY EnterKeepsInv, LeadKeepsInv, MeetStarKeepsInv, AdvanceKeepsInv, GoBackKeepsInv,
   StringOverKeepsInv, RestKeepsInv DEF MatchStep

-----------------------------------------------------------------------------
(* A call stays a call of the function that is called.                     *)

Named == "of" \in DOMAIN frame

\* A call begins as one of its function.
LEMMA CallInit ==
  ASSUME Init
  PROVE  /\ Named
         /\ Calling("uvm_re_match") => frame \in MatchFrames
         /\ Calling("uvm_glob_to_re") => frame \in ConvertFrames
         /\ Calling("uvm_polling_getValue32") => frame \in ValueFrames
<1>1. CASE frame \in MatchFrames
  BY <1>1 DEF MatchFrames, Named, Calling
<1>2. CASE frame \in ConvertFrames
  BY <1>2 DEF ConvertFrames, Named, Calling
<1>3. CASE frame \in ValueFrames
  BY <1>3 DEF ValueFrames, Named, Calling
<1> QED
  BY <1>1, <1>2, <1>3 DEF Init

\* Every step of a call is one of its function.
LEMMA CallStays ==
  ASSUME Named, [Next]_frame
  PROVE  /\ Named' /\ frame'.of = frame.of
         /\ Calling("uvm_re_match") => MatchStep \/ UNCHANGED frame
         /\ Calling("uvm_glob_to_re") => ConvertStep \/ UNCHANGED frame
         /\ Calling("uvm_polling_getValue32") => ValueStep \/ UNCHANGED frame
<1>1. CASE MatchStep
  <2>1. Calling("uvm_re_match")
    BY <1>1 DEF MatchStep, Enter, Lead, MeetStar, Advance, GoBack, StringOver, Rest, In
  <2>2. Named' /\ frame'.of = frame.of
    BY <1>1 DEF MatchStep, Enter, Lead, MeetStar, Advance, GoBack, StringOver, Rest, Return, Named
  <2> QED
    BY <1>1, <2>1, <2>2 DEF Calling
<1>2. CASE ConvertStep
  <2>1. Calling("uvm_glob_to_re")
    BY <1>2 DEF ConvertStep, uvm_glob_to_re, uvm_is_match, At
  <2>2. Named' /\ frame'.of = frame.of
    BY <1>2 DEF ConvertStep, uvm_glob_to_re, uvm_is_match, Convert, Named
  <2> QED
    BY <1>2, <2>1, <2>2 DEF Calling
<1>3. CASE ValueStep
  <2>1. Calling("uvm_polling_getValue32") /\ Named' /\ frame'.of = frame.of
    BY <1>3 DEF ValueStep, getValue32, Named, Calling
  <2> QED
    BY <1>3, <2>1 DEF Calling
<1>4. CASE UNCHANGED frame
  BY <1>4 DEF Named
<1> QED
  BY <1>1, <1>2, <1>3, <1>4 DEF Next

\* The match of the Verilog only version (uvm_regex.svh:94-145) returns 0 exactly
\* for the strings its glob means, for patterns without a + of every length and
\* for every string.
THEOREM MatchesGlobCorrect ==
  ASSUME NoPlus
  PROVE  Spec => []MatchesGlob
<1> DEFINE Inv == Named /\ (Calling("uvm_re_match") => MatchInv)
<1>1. Init => Inv
  <2> SUFFICES ASSUME Init, frame \in MatchFrames PROVE MatchInv
    BY CallInit
  <2>1. PICK q \in Texts(PatternChars, MaxPattern), u \in Texts(StringChars, MaxString) :
          frame = [of |-> "uvm_re_match", asked |-> q, str |-> u, re |-> <<>>,
                   e |-> 0, s |-> 0, es |-> 0, ss |-> 0, loop |-> "enter", ret |-> 1]
    BY DEF MatchFrames
  <2>2. \A C, n : n \in Nat => Texts(C, n) \subseteq Seq(C)
    BY DEF Texts
  <2>3. q \in Seq(PatternChars) /\ u \in Seq(StringChars)
    BY <2>2, LengthsAssumption
  <2>4. frame \in MatchRecords
    BY <2>1, <2>3 DEF MatchRecords, Loops
  <2> QED
    BY <2>1, <2>4 DEF MatchInv, LoopKnows
<1>2. Inv /\ [Next]_frame => Inv'
  <2> SUFFICES ASSUME Inv, [Next]_frame, Calling("uvm_re_match")' PROVE MatchInv'
    BY CallStays
  <2>1. Calling("uvm_re_match")
    BY CallStays DEF Calling
  <2>2. MatchStep \/ UNCHANGED frame
    BY <2>1, CallStays
  <2>3. CASE UNCHANGED frame
    BY <2>1, <2>3 DEF MatchInv
  <2> QED
    BY <2>1, <2>2, <2>3, MatchStepKeepsInv
<1>3. Inv => MatchesGlob
  <2> SUFFICES ASSUME MatchInv, In("returned")
               PROVE  frame.ret = 0 <=>
                        \/ frame.asked = <<>>
                        \/ Glob(IF frame.asked[1] = "^" THEN Tail(frame.asked) ELSE frame.asked,
                                frame.str)
    BY DEF MatchesGlob, In
  <2> QED
    BY DEF In, MatchInv, LoopKnows, Matches, Stripped, Glob
<1> QED
  BY <1>1, <1>2, <1>3, PTL DEF Spec

-----------------------------------------------------------------------------
(* The length of a converted glob, and what is left of one converted twice. *)

\* g are the texts that a text is put together from, the first i of which are f[i].
JoinedBy(f, g) ==
  /\ f[1] = g[1]
  /\ \A i \in 2..Len(g) : f[i] = f[i - 1] \o g[i]

\* The recursion of FlattenSeq has a solution, so FlattenSeq is the last text.
LEMMA FlattenUnfold ==
  ASSUME NEW g, Len(g) \in Nat, Len(g) # 0
  PROVE  \E f : JoinedBy(f, g) /\ FlattenSeq(g) = f[Len(g)]
<1> DEFINE Unfolds(x, m) == x = [i \in 1..m |-> IF i = 1 THEN g[i] ELSE x[i - 1] \o g[i]]
           T == {m \in Nat : \E x : Unfolds(x, m + 1)}
           F == CHOOSE x : Unfolds(x, Len(g))
<1>0. FlattenSeq(g) = F[Len(g)]
  BY DEF FlattenSeq
<1>1. 0 \in T
  <2> DEFINE x == [i \in 1..1 |-> g[i]]
  <2>1. Unfolds(x, 0 + 1)
    OBVIOUS
  <2> QED
    BY <2>1
<1>2. ASSUME NEW m \in Nat, m \in T PROVE m + 1 \in T
  <2>1. PICK x : Unfolds(x, m + 1)
    BY <1>2
  <2> DEFINE n == m + 2
             y == [i \in 1..n |-> IF i < n THEN x[i] ELSE x[n - 1] \o g[n]]
  <2>2. \A i \in 1..(m + 1) : x[i] = IF i = 1 THEN g[i] ELSE x[i - 1] \o g[i]
    BY <2>1
  <2>3. ASSUME NEW i \in 1..n PROVE y[i] = IF i = 1 THEN g[i] ELSE y[i - 1] \o g[i]
    <3>1. CASE i = n
      <4>1. i # 1 /\ i - 1 \in 1..n /\ i - 1 < n /\ n \in 1..n /\ ~(n < n) /\ i - 1 = n - 1
        BY <3>1
      <4>2. y[i] = x[n - 1] \o g[n] /\ y[i - 1] = x[n - 1]
        BY <3>1, <4>1
      <4> HIDE DEF y
      <4> QED
        BY <3>1, <4>1, <4>2
    <3>2. CASE i = 1
      <4>1. i < n /\ i \in 1..(m + 1)
        BY <3>2
      <4> QED
        BY <2>2, <3>2, <4>1
    <3>3. CASE i # 1 /\ i # n
      <4>1. i < n /\ i \in 1..(m + 1) /\ i - 1 \in 1..n /\ i - 1 < n
        BY <3>3
      <4> QED
        BY <2>2, <3>3, <4>1
    <3> QED
      BY <3>1, <3>2, <3>3
  <2>4. Unfolds(y, (m + 1) + 1)
    <3>1. y = [i \in 1..n |-> y[i]] /\ (m + 1) + 1 = n
      OBVIOUS
    <3> HIDE DEF y, n
    <3> QED
      BY <2>3, <3>1
  <2> HIDE DEF Unfolds, y
  <2> QED
    BY <2>4
<1>3. \E x : Unfolds(x, Len(g))
  <2>1. Nat \subseteq T
    <3> HIDE DEF T
    <3> QED
      BY <1>1, <1>2, SetInduction
  <2>2. Len(g) - 1 \in Nat /\ (Len(g) - 1) + 1 = Len(g)
    OBVIOUS
  <2>3. Len(g) - 1 \in T
    <3> HIDE DEF T
    <3> QED
      BY <2>1, <2>2
  <2> HIDE DEF Unfolds
  <2> QED
    BY <2>2, <2>3
<1>4. Unfolds(F, Len(g))
  <2> HIDE DEF Unfolds
  <2> QED
    BY <1>3
<1> HIDE DEF F, T
<1>5. F[1] = g[1]
  BY <1>4
<1>6. \A i \in 2..Len(g) : F[i] = F[i - 1] \o g[i]
  <2> TAKE i \in 2..Len(g)
  <2>1. i \in 1..Len(g) /\ i # 1
    OBVIOUS
  <2> QED
    BY <1>4, <2>1
<1> HIDE DEF Unfolds
<1> QED
  BY <1>0, <1>5, <1>6 DEF JoinedBy

\* The characters of globs and of what they are converted to.
Symbols == Chars \cup {".", "\\", "^", "$", "/"}

\* An expansion has two characters where glob_len counts two, and one elsewhere.
LEMMA ExpandLength ==
  ASSUME NEW c \in Symbols
  PROVE  /\ Expand(c) \in Seq(Symbols) /\ Len(Expand(c)) = IF Meta(c) THEN 2 ELSE 1
         /\ c = "$" => Expand(c) = <<"$">>
<1>1. CASE c \in {"*", "+"}
  <2>1. Expand(c) = <<".", c>> /\ Meta(c) /\ c # "$"
    BY <1>1 DEF Expand, Meta
  <2> QED
    BY <2>1 DEF Symbols
<1>2. CASE c \in {".", "[", "]", "(", ")"}
  <2>1. Expand(c) = <<"\\", c>> /\ Meta(c) /\ c # "$"
    BY <1>2 DEF Expand, Meta
  <2> QED
    BY <2>1 DEF Symbols
<1>3. CASE c = "?"
  <2>1. Expand(c) = <<".">> /\ ~Meta(c) /\ c # "$"
    BY <1>3 DEF Expand, Meta
  <2> QED
    BY <2>1 DEF Symbols
<1>4. CASE c \notin {"*", "+", ".", "[", "]", "(", ")", "?"}
  <2>1. Expand(c) = <<c>> /\ ~Meta(c)
    BY <1>4 DEF Expand, Meta
  <2> QED
    BY <2>1 DEF Symbols
<1> QED
  BY <1>1, <1>2, <1>3, <1>4

\* How many of the first n characters of g are written with two.
Metas(g, n) == {i \in 1..n : Meta(g[i])}

\* One more character is counted twice, or is not.
LEMMA MetasGrow ==
  ASSUME NEW g, NEW n \in Nat
  PROVE  /\ Cardinality(Metas(g, 0)) = 0 /\ Cardinality(Metas(g, n)) \in Nat
         /\ Cardinality(Metas(g, n + 1)) =
              Cardinality(Metas(g, n)) + (IF Meta(g[n + 1]) THEN 1 ELSE 0)
<1>0. Cardinality({}) = 0
  BY FS_EmptySet
<1>1. /\ Metas(g, 0) = {} /\ IsFiniteSet(Metas(g, n))
      /\ Cardinality(Metas(g, n)) \in Nat
  <2>1. IsFiniteSet(1..n)
    BY FS_Interval
  <2>2. Metas(g, n) \subseteq 1..n
    BY DEF Metas
  <2>3. IsFiniteSet(Metas(g, n))
    BY <2>1, <2>2, FS_Subset
  <2>4. Cardinality(Metas(g, n)) \in Nat
    BY <2>3, FS_CardinalityType
  <2>5. Metas(g, 0) = {}
    BY DEF Metas
  <2> QED
    BY <2>3, <2>4, <2>5
<1>2. CASE Meta(g[n + 1])
  <2>1. Metas(g, n + 1) = Metas(g, n) \cup {n + 1} /\ n + 1 \notin Metas(g, n)
    BY <1>2 DEF Metas
  <2>2. Cardinality(Metas(g, n) \cup {n + 1}) = Cardinality(Metas(g, n)) + 1
    BY <1>1, <2>1, FS_AddElement
  <2> QED
    BY <1>0, <1>1, <1>2, <2>1, <2>2
<1>3. CASE ~Meta(g[n + 1])
  <2>1. Metas(g, n + 1) = Metas(g, n)
    BY <1>3 DEF Metas
  <2> QED
    BY <1>0, <1>1, <1>3, <2>1
<1> QED
  BY <1>2, <1>3

Expanded(g) == FlattenSeq([i \in DOMAIN g |-> Expand(g[i])])

\* Each character of a glob becomes one or, those of Metas, two; a $ at the end
\* stays there.
LEMMA ExpandedLength ==
  ASSUME NEW g \in Seq(Symbols), g # <<>>
  PROVE  /\ Expanded(g) \in Seq(Symbols)
         /\ Len(Expanded(g)) = Len(g) + Cardinality(Metas(g, Len(g)))
         /\ Expanded(g) # <<>>
         /\ Last(g) = "$" => Last(Expanded(g)) = "$"
<1> DEFINE x == [i \in DOMAIN g |-> Expand(g[i])]
<1>0. /\ Len(g) \in Nat /\ Len(g) # 0 /\ DOMAIN g = 1..Len(g)
      /\ \A i \in 1..Len(g) : g[i] \in Symbols
  OBVIOUS
<1>1. Len(x) = Len(g) /\ \A i \in 1..Len(g) : x[i] = Expand(g[i])
  BY <1>0
<1>2. \A i \in 1..Len(g) : /\ x[i] \in Seq(Symbols)
                           /\ Len(x[i]) = IF Meta(g[i]) THEN 2 ELSE 1
                           /\ g[i] = "$" => x[i] = <<"$">>
  BY <1>0, <1>1, ExpandLength
<1> HIDE DEF x
<1>3. PICK f : JoinedBy(f, x) /\ FlattenSeq(x) = f[Len(x)]
  BY <1>0, <1>1, FlattenUnfold
<1> DEFINE Right(n) == f[n] \in Seq(Symbols) /\ Len(f[n]) = n + Cardinality(Metas(g, n))
           T == {m \in Nat : m + 1 <= Len(g) => Right(m + 1)}
<1>4. 0 \in T
  <2>1. 1 \in 1..Len(g) /\ f[1] = x[1]
    BY <1>0, <1>3 DEF JoinedBy
  <2>2. Cardinality(Metas(g, 0 + 1)) = 0 + (IF Meta(g[0 + 1]) THEN 1 ELSE 0)
    BY MetasGrow
  <2> QED
    BY <1>2, <2>1, <2>2
<1>5. ASSUME NEW m \in Nat, m \in T PROVE m + 1 \in T
  <2> SUFFICES ASSUME m + 2 <= Len(g) PROVE Right(m + 2)
    OBVIOUS
  <2>1. /\ m + 2 \in 1..Len(g) /\ m + 2 \in 2..Len(g) /\ (m + 2) - 1 = m + 1
        /\ m + 1 \in Nat /\ (m + 1) + 1 = m + 2 /\ m + 1 <= Len(g)
    BY <1>0
  <2>2. f[m + 2] = f[m + 1] \o x[m + 2]
    BY <1>1, <1>3, <2>1 DEF JoinedBy
  <2>3. f[m + 1] \in Seq(Symbols) /\ Len(f[m + 1]) = (m + 1) + Cardinality(Metas(g, m + 1))
    BY <1>5, <2>1
  <2>4. x[m + 2] \in Seq(Symbols) /\ Len(x[m + 2]) = IF Meta(g[m + 2]) THEN 2 ELSE 1
    BY <1>2, <2>1
  <2>5. /\ Cardinality(Metas(g, m + 1)) \in Nat
        /\ Cardinality(Metas(g, m + 2)) =
             Cardinality(Metas(g, m + 1)) + (IF Meta(g[m + 2]) THEN 1 ELSE 0)
    BY <2>1, MetasGrow
  <2>6. f[m + 2] \in Seq(Symbols) /\ Len(f[m + 2]) = Len(f[m + 1]) + Len(x[m + 2])
    <3> HIDE DEF T, Right
    <3>1. \A a, b \in Seq(Symbols) : a \o b \in Seq(Symbols) /\ Len(a \o b) = Len(a) + Len(b)
      OBVIOUS
    <3>2. f[m + 1] \in Seq(Symbols) /\ x[m + 2] \in Seq(Symbols)
      BY <2>3, <2>4
    <3> QED
      BY <2>2, <3>1, <3>2
  <2>7. CASE Meta(g[m + 2])
    BY <2>3, <2>4, <2>5, <2>6, <2>7
  <2>8. CASE ~Meta(g[m + 2])
    BY <2>3, <2>4, <2>5, <2>6, <2>8
  <2> QED
    BY <2>7, <2>8
<1>6. Right(Len(g))
  <2>1. Nat \subseteq T
    <3> HIDE DEF T
    <3> QED
      BY <1>4, <1>5, SetInduction
  <2>2. Len(g) - 1 \in Nat /\ (Len(g) - 1) + 1 = Len(g) /\ Len(g) <= Len(g)
    BY <1>0
  <2>3. Len(g) - 1 \in T
    <3> HIDE DEF T
    <3> QED
      BY <2>1, <2>2
  <2> HIDE DEF Right
  <2> QED
    BY <2>2, <2>3
<1>7. Expanded(g) = f[Len(g)] /\ f[Len(g)] \in Seq(Symbols)
      /\ Len(f[Len(g)]) = Len(g) + Cardinality(Metas(g, Len(g)))
  BY <1>1, <1>3, <1>6 DEF Expanded, x
<1>8. Expanded(g) # <<>>
  <2>1. Cardinality(Metas(g, Len(g))) \in Nat
    BY <1>0, MetasGrow
  <2>2. Len(Expanded(g)) # 0
    BY <1>0, <1>7, <2>1
  <2> QED
    BY <2>2
<1>9. ASSUME Last(g) = "$" PROVE Last(Expanded(g)) = "$"
  <2>1. Len(g) \in 1..Len(g) /\ x[Len(g)] = <<"$">>
    BY <1>0, <1>2, <1>9 DEF Last
  <2>2. CASE Len(g) = 1
    <3>1. f[Len(g)] = <<"$">>
      BY <1>3, <2>1, <2>2 DEF JoinedBy
    <3> QED
      BY <1>7, <3>1 DEF Last
  <2>3. CASE Len(g) # 1
    <3>1. Len(g) \in 2..Len(g) /\ Len(g) - 1 \in Nat /\ (Len(g) - 2) + 1 = Len(g) - 1
          /\ Len(g) - 2 \in Nat
      BY <1>0, <2>3
    <3>2. f[Len(g)] = f[Len(g) - 1] \o <<"$">>
      BY <1>1, <1>3, <2>1, <3>1 DEF JoinedBy
    <3>3. f[Len(g) - 1] \in Seq(Symbols)
      <4>1. Nat \subseteq T
        <5> HIDE DEF T
        <5> QED
          BY <1>4, <1>5, SetInduction
      <4>2. Len(g) - 2 \in T /\ Len(g) - 1 <= Len(g)
        <5>1. Len(g) - 1 <= Len(g)
          BY <1>0
        <5> HIDE DEF T
        <5> QED
          BY <3>1, <4>1, <5>1
      <4> QED
        BY <3>1, <4>2
    <3> QED
      BY <1>7, <3>2, <3>3 DEF Last
  <2> QED
    BY <2>2, <2>3
<1> QED
  BY <1>7, <1>8, <1>9

\* Neither a bracketed glob nor one of those that stand for every string.
Converts(g) == g \in Seq(Symbols) /\ g # <<>> /\ g # <<"/">> /\ ~Bracketed(g)

\* What glob_len counts leaves room for the anchors and the 0.
LEMMA AnchoredLength ==
  ASSUME NEW g, Converts(g)
  PROVE  /\ Anchored(g) \in Seq(Symbols) /\ Len(Anchored(g)) \in Nat /\ Anchored(g) # <<>>
         /\ Counted(g, FALSE) \in Nat /\ Counted(g, TRUE) = Counted(g, FALSE) + 2
         /\ Len(Anchored(g)) < Counted(g, FALSE)
<1> DEFINE front == IF g[1] = "^" THEN <<>> ELSE <<"^">>
           hat == IF g[1] = "^" THEN 0 ELSE 1
           dollar == IF Last(g) = "$" THEN 0 ELSE 1
           x == Expanded(g)
           body == front \o x
           metas == Cardinality(Metas(g, Len(g)))
           counted == Counted(g, FALSE)
           counted_with == Counted(g, TRUE)
<1>0. g \in Seq(Symbols) /\ g # <<>> /\ Len(g) \in Nat
  BY DEF Converts
<1>1. /\ x \in Seq(Symbols) /\ Len(x) = Len(g) + metas /\ x # <<>>
      /\ Last(g) = "$" => Last(x) = "$"
  BY <1>0, ExpandedLength
<1>2. metas \in Nat /\ hat \in Nat /\ dollar \in Nat
  <2>1. metas \in Nat
    BY <1>0, MetasGrow
  <2> QED
    BY <2>1
<1>3. front \in Seq(Symbols) /\ Len(front) = hat
  <2>1. CASE g[1] = "^"
    BY <2>1
  <2>2. CASE g[1] # "^"
    BY <2>2 DEF Symbols
  <2> QED
    BY <2>1, <2>2
<1>4. Anchored(g) = IF Last(body) = "$" THEN body ELSE body \o <<"$">>
  BY DEF Anchored, Expanded
<1>5. /\ counted = Len(g) + 2 * metas + hat + dollar + 1
      /\ counted_with = Len(g) + 2 * metas + hat + dollar + 3
  <2>1. {i \in DOMAIN g : Meta(g[i])} = Metas(g, Len(g))
    BY <1>0 DEF Metas
  <2>2. /\ counted = Len(g) + 2 * metas + hat + dollar + 0 + 1
        /\ counted_with = Len(g) + 2 * metas + hat + dollar + 2 + 1
    BY <2>1 DEF Counted
  <2> HIDE DEF metas, hat, dollar, counted, counted_with
  <2> QED
    BY <1>0, <1>2, <2>2
<1>6. dollar = 1 \/ Last(g) = "$"
  OBVIOUS
<1> HIDE DEF front, x, metas, hat, dollar, counted, counted_with
<1>7. /\ body \in Seq(Symbols) /\ Len(body) = Len(front) + Len(x) /\ body # <<>>
      /\ Len(body) \in Nat /\ Last(body) = Last(x)
  <2>1. Len(x) \in Nat /\ Len(x) # 0 /\ Len(front) \in Nat
    BY <1>1, <1>3
  <2>2. /\ body \in Seq(Symbols) /\ Len(body) = Len(front) + Len(x)
        /\ body[Len(front) + Len(x)] = x[Len(x)]
    BY <1>1, <1>3, <2>1
  <2> HIDE DEF body
  <2> QED
    BY <2>1, <2>2 DEF Last
<1> HIDE DEF body
<1>8. /\ body \o <<"$">> \in Seq(Symbols) /\ Len(body \o <<"$">>) = Len(body) + 1
      /\ body \o <<"$">> # <<>>
  BY <1>7 DEF Symbols
<1>9. Anchored(g) \in Seq(Symbols) /\ Len(Anchored(g)) \in Nat /\ Anchored(g) # <<>>
  BY <1>4, <1>7, <1>8
<1>10. Len(Anchored(g)) <= Len(body) + dollar
  <2>1. CASE Last(body) = "$"
    BY <1>2, <1>4, <1>7, <2>1
  <2>2. CASE Last(body) # "$"
    BY <1>1, <1>4, <1>6, <1>7, <1>8, <2>2
  <2> QED
    BY <2>1, <2>2
<1>11. counted \in Nat /\ counted_with = counted + 2
  BY <1>0, <1>2, <1>5
<1>12. Len(body) = hat + Len(g) + metas
  BY <1>0, <1>1, <1>2, <1>3, <1>7
<1>13. Len(Anchored(g)) < counted
  BY <1>0, <1>2, <1>5, <1>9, <1>10, <1>12
<1> QED
  BY <1>9, <1>11, <1>13 DEF counted, counted_with

\* Brackets around a text can be taken off again.
LEMMA BracketsComeOff ==
  ASSUME NEW r \in Seq(Symbols), r # <<>>
  PROVE  /\ Wrap(r, TRUE) \in Seq(Symbols) /\ Len(Wrap(r, TRUE)) = Len(r) + 2
         /\ Wrap(r, TRUE) # <<>> /\ Wrap(r, TRUE) # <<"/">>
         /\ Bracketed(Wrap(r, TRUE)) /\ Inner(Wrap(r, TRUE)) = r
<1> DEFINE w == <<"/">> \o r \o <<"/">>
<1>0. Len(r) \in Nat /\ Len(r) # 0 /\ <<"/">> \in Seq(Symbols) /\ Len(<<"/">>) = 1
  BY DEF Symbols
<1>1. /\ w \in Seq(Symbols) /\ Len(w) = Len(r) + 2 /\ w[1] = "/" /\ w[Len(r) + 2] = "/"
      /\ \A i \in 1..Len(r) : w[i + 1] = r[i]
  BY <1>0
<1>2. Wrap(r, TRUE) = w
  BY DEF Wrap
<1> HIDE DEF w
<1>3. w # <<>> /\ w # <<"/">> /\ Len(w) \in Nat
  BY <1>0, <1>1
<1>4. Bracketed(w)
  BY <1>1, <1>3 DEF Bracketed, Last
<1>5. Inner(w) = r
  <2>1. Len(w) - 1 = Len(r) + 1 /\ (Len(r) + 1) - 2 + 1 = Len(r)
    BY <1>0, <1>1
  <2>2. \A i \in 2..(Len(r) + 1) : w[i] \in Symbols
    BY <1>0, <1>1
  <2>3. /\ SubSeq(w, 2, Len(r) + 1) \in Seq(Symbols)
        /\ Len(SubSeq(w, 2, Len(r) + 1)) = Len(r)
        /\ \A i \in 1..Len(r) : SubSeq(w, 2, Len(r) + 1)[i] = w[i + 1]
    BY <1>0, <1>1, <2>2
  <2>4. SubSeq(w, 2, Len(r) + 1) = r
    BY <1>1, <2>3, SeqEqual
  <2> QED
    BY <2>1, <2>4 DEF Inner
<1> QED
  BY <1>1, <1>2, <1>3, <1>4, <1>5

\* A pattern between brackets, from which they can be taken.
IsPattern(b) == b \in Seq(Symbols) /\ b # <<>> /\ b # <<"/">> /\ Bracketed(b)

EveryString(g) == g = <<>> \/ g = <<"/">>

\* A pattern is left as it is, and compiled without its brackets.
LEMMA PatternStays ==
  ASSUME NEW b, IsPattern(b)
  PROVE  /\ uvm_re_deglobbed(b, TRUE) = b
         /\ \A deglob \in {0, 1} : uvm_re_comp(b, deglob) = Inner(b)
         /\ Len(b) \in Nat /\ Len(Inner(b)) \in Nat /\ Len(Inner(b)) <= Len(b)
         /\ ~TooLong(b, FALSE) <=> ~(frame.limit < Len(b))
<1>1. uvm_re_deglobbed(b, TRUE) = b /\ uvm_re_deglobbed(b, FALSE) = Inner(b)
  BY DEF uvm_re_deglobbed, IsPattern
<1>2. \A deglob \in {0, 1} : uvm_re_comp(b, deglob) = Inner(b)
  BY <1>1 DEF uvm_re_comp, IsPattern
<1>3. Len(b) \in Nat /\ Len(b) # 0
  BY DEF IsPattern
<1>4. Len(Inner(b)) \in Nat /\ Len(Inner(b)) <= Len(b)
  <2>1. \A i \in 2..(Len(b) - 1) : b[i] \in Symbols
    BY <1>3 DEF IsPattern
  <2>2. Len(SubSeq(b, 2, Len(b) - 1)) = IF 2 <= Len(b) - 1 THEN (Len(b) - 1) - 2 + 1 ELSE 0
    BY <1>3, <2>1, SubSeqProperties
  <2> QED
    BY <1>3, <2>2 DEF Inner
<1>5. ~TooLong(b, FALSE) <=> ~(frame.limit < Len(b))
  BY DEF TooLong, IsPattern
<1> QED
  BY <1>1, <1>2, <1>3, <1>4, <1>5

\* What a glob is converted to is a pattern of what the glob alone is, and not
\* longer than the buffer when the glob is accepted.
LEMMA DeglobbedIsPattern ==
  ASSUME NEW g \in Seq(Symbols)
  PROVE  /\ IsPattern(uvm_re_deglobbed(g, TRUE))
         /\ Inner(uvm_re_deglobbed(g, TRUE)) = uvm_re_comp(g, 1)
         /\ frame.limit \in MaxLengths /\ ~TooLong(g, TRUE) =>
              Len(uvm_re_deglobbed(g, TRUE)) <= frame.limit
<1> DEFINE b == uvm_re_deglobbed(g, TRUE)
           refused == TooLong(g, TRUE)
<1>0. frame.limit \in MaxLengths => frame.limit \in Nat /\ frame.limit >= 4
  BY RegexLengths
<1>1. CASE EveryString(g)
  <2> DEFINE r == <<"^", "$">>
  <2>1. r \in Seq(Symbols) /\ r # <<>> /\ Len(r) = 2
    BY DEF Symbols
  <2>2. b = Wrap(r, TRUE) /\ uvm_re_comp(g, 1) = r
    BY <1>1 DEF EveryString, uvm_re_deglobbed, uvm_re_comp, Wrap
  <2> HIDE DEF b, r
  <2>3. IsPattern(b) /\ Inner(b) = r /\ Len(b) = Len(r) + 2
    <3>1. /\ b \in Seq(Symbols) /\ Len(b) = Len(r) + 2 /\ b # <<>> /\ b # <<"/">>
          /\ Bracketed(b) /\ Inner(b) = r
      BY <2>1, <2>2, BracketsComeOff
    <3> QED
      BY <3>1 DEF IsPattern
  <2>4. frame.limit \in MaxLengths => Len(b) <= frame.limit
    BY <1>0, <2>1, <2>3
  <2> QED
    BY <2>2, <2>3, <2>4 DEF b
<1>2. CASE ~EveryString(g) /\ Bracketed(g)
  <2>1. b = g /\ uvm_re_comp(g, 1) = Inner(g)
    BY <1>2 DEF EveryString, uvm_re_deglobbed, uvm_re_comp
  <2>2. ~refused <=> ~(frame.limit < Len(g))
    BY <1>2 DEF EveryString, TooLong
  <2>3. IsPattern(g) /\ Len(g) \in Nat
    BY <1>2 DEF EveryString, IsPattern
  <2> HIDE DEF b, refused
  <2>4. frame.limit \in MaxLengths /\ ~refused => Len(b) <= frame.limit
    BY <1>0, <2>1, <2>2, <2>3
  <2> QED
    BY <2>1, <2>3, <2>4 DEF b, refused
<1>3. CASE ~EveryString(g) /\ ~Bracketed(g)
  <2> DEFINE r == Anchored(g)
             counted == Counted(g, FALSE)
  <2>1. Converts(g)
    BY <1>3 DEF EveryString, Converts
  <2>2. /\ r \in Seq(Symbols) /\ Len(r) \in Nat /\ r # <<>>
        /\ counted \in Nat /\ Counted(g, TRUE) = counted + 2 /\ Len(r) < counted
    BY <2>1, AnchoredLength
  <2>3. b = Wrap(r, TRUE) /\ uvm_re_comp(g, 1) = r
    BY <1>3 DEF EveryString, uvm_re_deglobbed, uvm_re_comp, Wrap
  <2>4. ~refused <=> ~(frame.limit < counted + 2)
    BY <1>3, <2>2 DEF EveryString, TooLong
  <2> HIDE DEF b, r, counted, refused
  <2>5. IsPattern(b) /\ Inner(b) = r /\ Len(b) = Len(r) + 2
    BY <2>2, <2>3, BracketsComeOff DEF IsPattern
  <2>6. Len(r) \in Nat /\ counted \in Nat /\ Len(r) < counted
    BY <2>2
  <2>7. frame.limit \in MaxLengths /\ ~refused => Len(b) <= frame.limit
    BY <1>0, <2>4, <2>5, <2>6
  <2> QED
    BY <2>3, <2>5, <2>7 DEF b, refused
<1> QED
  BY <1>1, <1>2, <1>3

-----------------------------------------------------------------------------
(* uvm_glob_to_re, and the use of its result.                              *)

\* Where the conversion stands: what has been accepted is a pattern, and fits.
Converted(limit, glob, step, buffer, failed) ==
  /\ step = "asked" => buffer = <<>> /\ ~failed
  /\ step = "bracketed" /\ failed => buffer = <<>>
  /\ step = "bracketed" /\ ~failed => /\ buffer = uvm_re_deglobbed(glob, TRUE)
                                      /\ Len(buffer) <= limit
  /\ step = "plain" => /\ buffer = uvm_re_comp(glob, 1)
                        /\ ~failed /\ Len(buffer) \in Nat /\ Len(buffer) <= limit

\* The inductive invariant of the conversion.
ConvertInv ==
  /\ {"limit", "glob", "step", "buffer", "failed"} \subseteq DOMAIN frame
  /\ frame.limit \in MaxLengths /\ frame.glob \in Seq(Chars) /\ frame.glob \in Seq(Symbols)
  /\ frame.step \in {"asked", "bracketed", "plain"}
  /\ Converted(frame.limit, frame.glob, frame.step, frame.buffer, frame.failed)

\* What a conversion writes, whether it is accepted or not.
LEMMA ConvertFields ==
  ASSUME ConvertInv, NEW step \in {"asked", "bracketed", "plain"}, NEW g, NEW w, NEW r,
         Convert(step, g, w, r),
         TooLong(g, w) => Converted(frame.limit, frame.glob, step, <<>>, TRUE),
         ~TooLong(g, w) => Converted(frame.limit, frame.glob, step, r, FALSE)
  PROVE  ConvertInv'
<1>0. {"limit", "glob", "step", "buffer", "failed"} \subseteq DOMAIN frame
  BY DEF ConvertInv
<1>1. CASE TooLong(g, w)
  <2>1. frame' = [frame EXCEPT !.step = step, !.failed = TRUE, !.buffer = <<>>]
    BY <1>1 DEF Convert
  <2>2. /\ DOMAIN frame' = DOMAIN frame /\ frame'.limit = frame.limit /\ frame'.glob = frame.glob
        /\ frame'.step = step /\ frame'.buffer = <<>> /\ frame'.failed = TRUE
    BY <1>0, <2>1
  <2> QED
    BY <1>1, <2>2 DEF ConvertInv
<1>2. CASE ~TooLong(g, w)
  <2>0. TooLong(g, w) = FALSE
    BY <1>2 DEF TooLong
  <2>1. frame' = [frame EXCEPT !.step = step, !.failed = FALSE, !.buffer = r]
    BY <2>0 DEF Convert
  <2>2. /\ DOMAIN frame' = DOMAIN frame /\ frame'.limit = frame.limit /\ frame'.glob = frame.glob
        /\ frame'.step = step /\ frame'.buffer = r /\ frame'.failed = FALSE
    BY <1>0, <2>1
  <2> QED
    BY <1>2, <2>2 DEF ConvertInv
<1> QED
  BY <1>1, <1>2

\* The invariant of the conversion holds when it begins.
LEMMA ConvertInit ==
  ASSUME Init, Calling("uvm_glob_to_re")
  PROVE  ConvertInv
<1>1. PICK m \in MaxLengths, g \in UNION {[1..n -> Chars] : n \in 0..MaxGlob} :
        frame = [of |-> "uvm_glob_to_re", limit |-> m, glob |-> g,
                 step |-> "asked", buffer |-> <<>>, failed |-> FALSE]
  BY CallInit DEF ConvertFrames
<1>2. g \in Seq(Chars) /\ g \in Seq(Symbols)
  <2>1. MaxGlob \in Nat /\ Chars \subseteq Symbols
    BY RegexLengths DEF Symbols
  <2> QED
    BY <2>1
<1>3. /\ DOMAIN frame = {"of", "limit", "glob", "step", "buffer", "failed"}
      /\ frame.limit = m /\ frame.glob = g /\ frame.step = "asked" /\ frame.buffer = <<>>
      /\ frame.failed = FALSE
  BY <1>1
<1> QED
  BY <1>2, <1>3 DEF ConvertInv, Converted

\* Both conversions keep it.
LEMMA ConvertKeepsInv ==
  ASSUME ConvertInv, ConvertStep
  PROVE  ConvertInv'
<1>0. frame.limit \in MaxLengths /\ frame.glob \in Seq(Symbols)
  BY DEF ConvertInv
<1> DEFINE b == uvm_re_deglobbed(frame.glob, TRUE)
<1>1. /\ IsPattern(b) /\ Inner(b) = uvm_re_comp(frame.glob, 1)
      /\ ~TooLong(frame.glob, TRUE) => Len(b) <= frame.limit
  BY <1>0, DeglobbedIsPattern
<1>2. CASE uvm_glob_to_re
  <2>1. Convert("bracketed", frame.glob, TRUE, b)
    BY <1>2 DEF uvm_glob_to_re
  <2>2. Converted(frame.limit, frame.glob, "bracketed", <<>>, TRUE)
    BY DEF Converted
  <2>3. ~TooLong(frame.glob, TRUE) => Converted(frame.limit, frame.glob, "bracketed", b, FALSE)
    BY <1>1 DEF Converted
  <2> QED
    BY <2>1, <2>2, <2>3, ConvertFields
<1>3. CASE uvm_is_match
  <2>1. frame.step = "bracketed" /\ ~frame.failed
    BY <1>3 DEF uvm_is_match, At
  <2>2. frame.buffer = b /\ Len(b) <= frame.limit
    BY <2>1 DEF ConvertInv, Converted
  <2>3. Convert("plain", b, FALSE, uvm_re_comp(b, 1))
    BY <1>3, <2>2 DEF uvm_is_match
  <2> HIDE DEF b
  <2>4. /\ uvm_re_comp(b, 1) = Inner(b) /\ Len(b) \in Nat /\ Len(Inner(b)) \in Nat
        /\ Len(Inner(b)) <= Len(b) /\ (~TooLong(b, FALSE) <=> ~(frame.limit < Len(b)))
    BY <1>1, PatternStays
  <2>5. frame.limit \in Nat
    BY <1>0, RegexLengths
  <2>6. ~(frame.limit < Len(b)) /\ Len(Inner(b)) <= frame.limit
    BY <2>2, <2>4, <2>5
  <2>7. ~TooLong(b, FALSE)
    BY <2>4, <2>6
  <2>8. Converted(frame.limit, frame.glob, "plain", uvm_re_comp(b, 1), FALSE)
    BY <1>1, <2>4, <2>6 DEF Converted
  <2> QED
    BY <2>3, <2>7, <2>8, ConvertFields
<1> QED
  BY <1>2, <1>3 DEF ConvertStep

ConvertCalls == Named /\ (Calling("uvm_glob_to_re") => ConvertInv)

\* It holds throughout, for every call of uvm_glob_to_re.
LEMMA ConvertSafe == Spec => []ConvertCalls
<1>1. Init => ConvertCalls
  BY CallInit, ConvertInit DEF ConvertCalls
<1>2. ConvertCalls /\ [Next]_frame => ConvertCalls'
  <2> SUFFICES ASSUME ConvertCalls, [Next]_frame, Calling("uvm_glob_to_re")' PROVE ConvertInv'
    BY CallStays DEF ConvertCalls
  <2>1. Calling("uvm_glob_to_re")
    BY CallStays DEF Calling, ConvertCalls
  <2>2. ConvertInv /\ (ConvertStep \/ UNCHANGED frame)
    BY <2>1, CallStays DEF ConvertCalls
  <2>3. CASE UNCHANGED frame
    BY <2>2, <2>3 DEF ConvertInv
  <2> QED
    BY <2>2, <2>3, ConvertKeepsInv
<1> QED
  BY <1>1, <1>2, PTL DEF Spec

\* What uvm_glob_to_re returns is converted no further, whatever it is used for
\* next (uvm_regex.cc:85-190): for globs of every length over every character.
THEOREM ConvertsOnceCorrect == Spec => []ConvertsOnce
<1>1. ConvertCalls => ConvertsOnce
  <2> SUFFICES ASSUME ConvertInv, frame.step = "bracketed", ~frame.failed
               PROVE  /\ uvm_re_deglobbed(frame.buffer, TRUE) = frame.buffer
                      /\ \A deglob \in {0, 1} :
                           uvm_re_comp(frame.buffer, deglob) = uvm_re_comp(frame.glob, 1)
    BY DEF ConvertCalls, ConvertsOnce, At
  <2>1. frame.glob \in Seq(Symbols) /\ frame.buffer = uvm_re_deglobbed(frame.glob, TRUE)
    BY DEF ConvertInv, Converted
  <2>2. IsPattern(frame.buffer) /\ Inner(frame.buffer) = uvm_re_comp(frame.glob, 1)
    BY <2>1, DeglobbedIsPattern
  <2> QED
    BY <2>2, PatternStays
<1> QED
  BY <1>1, ConvertSafe, PTL

\* What is accepted fits the buffer, and is accepted again when it is used
\* (uvm_regex.cc:85-190): for every length of the buffer from 4 on.
THEOREM FitsCorrect == Spec => []Fits
<1>1. ConvertCalls => Fits
  <2> SUFFICES ASSUME ConvertInv
               PROVE  /\ ~frame.failed => Len(frame.buffer) < frame.limit + 4
                      /\ frame.step = "plain" => ~frame.failed
    BY DEF ConvertCalls, Fits
  <2>0. frame.limit \in Nat
    BY RegexLengths DEF ConvertInv
  <2>1. /\ frame.step \in {"asked", "bracketed", "plain"} /\ frame.glob \in Seq(Symbols)
        /\ Converted(frame.limit, frame.glob, frame.step, frame.buffer, frame.failed)
    BY DEF ConvertInv
  <2>2. CASE frame.step = "asked"
    BY <2>0, <2>1, <2>2 DEF Converted
  <2>3. CASE frame.step = "bracketed" /\ frame.failed
    BY <2>3
  <2>4. CASE frame.step = "bracketed" /\ ~frame.failed
    <3>1. frame.buffer = uvm_re_deglobbed(frame.glob, TRUE) /\ Len(frame.buffer) <= frame.limit
      BY <2>1, <2>4 DEF Converted
    <3>2. IsPattern(frame.buffer)
      BY <2>1, <3>1, DeglobbedIsPattern
    <3>3. Len(frame.buffer) \in Nat
      BY <3>2, PatternStays
    <3>4. \A n, m \in Nat : n <= m => n < m + 4
      OBVIOUS
    <3>5. Len(frame.buffer) < frame.limit + 4
      BY <2>0, <3>1, <3>3, <3>4
    <3> QED
      BY <2>4, <3>5
  <2>5. CASE frame.step = "plain"
    BY <2>0, <2>1, <2>5 DEF Converted
  <2> QED
    BY <2>1, <2>2, <2>3, <2>4, <2>5
<1> QED
  BY <1>1, ConvertSafe, PTL

-----------------------------------------------------------------------------
(* What the expression of a glob finds: the places that an expression      *)
(* reaches, from its back, against the places where its glob may end, from *)
(* its front.                                                              *)

\* F says where an expression finds its rest, item by item.
Before(r, t, i, F) ==
  IF r[i + 1] = "^" THEN {0} \cap F[i + 1]
  ELSE IF r[i + 1] = "$" THEN {Len(t)} \cap F[i + 1]
  ELSE {j \in 0..Len(t) : \E k \in j..Len(t) :
          /\ Often(r, i, k - j) /\ \A l \in (j + 1)..k : Takes(r, i, t[l])
          /\ k \in F[Past(r, i)]}

FindsRest(F, r, t) ==
  /\ F[Len(r)] = 0..Len(t)
  /\ \A i \in 0..(Len(r) - 1) : F[i] = Before(r, t, i, F)

\* An item ends within an expression that ends with an anchor.
LEMMA PastFacts ==
  ASSUME NEW r, Len(r) \in Nat \ {0}, r[Len(r)] = "$", NEW i \in 0..(Len(r) - 1), r[i + 1] # "$"
  PROVE  Past(r, i) \in (i + 1)..Len(r)
<1>1. i + 1 # Len(r) /\ i \in Nat /\ i + 2 <= Len(r)
  OBVIOUS
<1>2. Behind(r, i) \in (i + 1)..Len(r)
  BY <1>1 DEF Behind
<1> QED
  BY <1>1, <1>2 DEF Past, Repeats

\* What an item finds depends on the rest only.
LEMMA BeforeDepends ==
  ASSUME NEW r, Len(r) \in Nat \ {0}, r[Len(r)] = "$", NEW t, NEW i \in 0..(Len(r) - 1),
         NEW F, NEW G, \A k \in (i + 1)..Len(r) : F[k] = G[k]
  PROVE  Before(r, t, i, F) = Before(r, t, i, G)
<1>1. i + 1 \in (i + 1)..Len(r)
  OBVIOUS
<1>2. CASE r[i + 1] # "$"
  <2>1. F[Past(r, i)] = G[Past(r, i)] /\ F[i + 1] = G[i + 1]
    BY <1>1, <1>2, PastFacts
  <2> QED
    BY <1>2, <2>1 DEF Before
<1>3. CASE r[i + 1] = "$"
  <2>1. F[i + 1] = G[i + 1]
    BY <1>1
  <2> QED
    BY <1>3, <2>1 DEF Before
<1> QED
  BY <1>2, <1>3

\* The recursive function exists, for such an expression.
LEMMA FindsUnfold ==
  ASSUME NEW r, Len(r) \in Nat \ {0}, r[Len(r)] = "$", NEW t
  PROVE  FindsRest(Finds(r, t), r, t)
<1> DEFINE n == Len(r)
           At0(x, i) == IF i = n THEN 0..Len(t) ELSE Before(r, t, i, x)
           Unfolds(x) == x = [i \in 0..n |-> At0(x, i)]
           From(x, m) == \A i \in 0..n : i >= n - m => x[i] = At0(x, i)
           T == {m \in Nat : \E x : From(x, m)}
           F == CHOOSE x : Unfolds(x)
<1>0. Finds(r, t) = F
  BY DEF Finds, Before
<1>1. 0 \in T
  <2> DEFINE x == [i \in 0..n |-> 0..Len(t)]
  <2>1. From(x, 0)
    OBVIOUS
  <2> QED
    BY <2>1
<1>2. ASSUME NEW m \in Nat, m \in T PROVE m + 1 \in T
  <2>1. PICK x : From(x, m)
    BY <1>2
  <2> DEFINE q == n - (m + 1)
             y == [i \in 0..n |-> IF i = q THEN Before(r, t, q, x) ELSE x[i]]
  <2>2. ASSUME NEW i \in 0..n, i >= q
        PROVE  y[i] = At0(y, i)
    <3>1. \A k \in (i + 1)..n : y[k] = x[k]
      BY <2>2
    <3>2. i # n => Before(r, t, i, y) = Before(r, t, i, x)
      <4> HIDE DEF y
      <4> QED
        BY <2>2, <3>1, BeforeDepends
    <3>3. CASE i = q
      <4>1. i # n /\ y[i] = Before(r, t, i, x)
        BY <3>3
      <4> HIDE DEF y, q
      <4> QED
        BY <3>2, <4>1
    <3>4. CASE i # q
      <4>1. i >= n - m /\ y[i] = x[i]
        BY <2>2, <3>4
      <4>2. x[i] = At0(x, i)
        BY <2>1, <4>1
      <4> HIDE DEF y, q
      <4> QED
        BY <3>2, <4>1, <4>2
    <3> QED
      BY <3>3, <3>4
  <2>3. From(y, m + 1)
    <3> HIDE DEF y, At0
    <3> QED
      BY <2>2
  <2>4. \E z : From(z, m + 1)
    <3> HIDE DEF From, y
    <3> QED
      BY <2>3
  <2> HIDE DEF From
  <2> QED
    BY <2>4
<1>3. PICK x : From(x, n)
  <2>1. Nat \subseteq T
    <3> HIDE DEF T
    <3> QED
      BY <1>1, <1>2, SetInduction
  <2> QED
    BY <2>1
<1> DEFINE y == [i \in 0..n |-> x[i]]
<1>4. \A i \in 0..n : y[i] = At0(y, i)
  <2> SUFFICES ASSUME NEW i \in 0..n PROVE y[i] = At0(y, i)
    OBVIOUS
  <2>1. y[i] = x[i] /\ x[i] = At0(x, i) /\ \A k \in (i + 1)..n : y[k] = x[k]
    BY <1>3
  <2>2. i # n => Before(r, t, i, y) = Before(r, t, i, x)
    <3> HIDE DEF y
    <3> QED
      BY <2>1, BeforeDepends
  <2> HIDE DEF y
  <2> QED
    BY <2>1, <2>2
<1>5. Unfolds(y)
  <2>1. y = [i \in 0..n |-> y[i]]
    OBVIOUS
  <2> HIDE DEF y, At0
  <2> QED
    BY <1>4, <2>1
<1>6. Unfolds(F)
  <2> HIDE DEF Unfolds, y
  <2> QED
    BY <1>5
<1> HIDE DEF F, T, y
<1>7. \A i \in 0..n : F[i] = At0(F, i)
  <2> HIDE DEF At0
  <2> QED
    BY <1>6
<1>8. F[n] = 0..Len(t) /\ \A i \in 0..(n - 1) : F[i] = Before(r, t, i, F)
  <2>1. n \in 0..n /\ \A i \in 0..(n - 1) : i \in 0..n /\ i # n
    OBVIOUS
  <2> QED
    BY <1>7, <2>1
<1> QED
  BY <1>0, <1>8 DEF FindsRest

\* A glob between its anchors is a text of characters that are no anchors; a \
\* escapes what stands behind it, in the expression only.
Escapeless(p) == \A n \in 1..Len(p) : p[n] \notin {"^", "$", "\\"}

\* The expression r is ^, the expansions of the characters of p, and $; that of
\* p[n] begins behind the first off[n-1] characters of r.
Laid(r, p, off) ==
  /\ off \in [0..Len(p) -> Nat] /\ off[0] = 1 /\ off[Len(p)] + 1 = Len(r)
  /\ r[1] = "^" /\ r[Len(r)] = "$"
  /\ \A n \in 1..Len(p) :
       /\ off[n] = off[n - 1] + Len(Expand(p[n]))
       /\ \A k \in 1..Len(Expand(p[n])) : r[off[n - 1] + k] = Expand(p[n])[k]

\* What an expansion begins with, and what it takes.
Metachar(c) == c \in {"*", "+"}
Escaped(c)  == c \in {".", "[", "]", "(", ")"}

\* The four forms of an expansion, and what it cannot begin with.
LEMMA ExpandForms ==
  ASSUME NEW c
  PROVE  /\ Metachar(c) => Expand(c) = <<".", c>>
         /\ Escaped(c) => Expand(c) = <<"\\", c>>
         /\ c = "?" => Expand(c) = <<".">>
         /\ ~Metachar(c) /\ ~Escaped(c) /\ c # "?" => Expand(c) = <<c>>
         /\ Len(Expand(c)) \in 1..2 /\ Expand(c)[1] \notin {"*", "+"}
         /\ c \notin {"^", "$"} => Expand(c)[1] \notin {"^", "$"}
<1>1. CASE Metachar(c)
  BY <1>1 DEF Metachar, Escaped, Expand
<1>2. CASE Escaped(c)
  BY <1>2 DEF Metachar, Escaped, Expand
<1>3. CASE c = "?"
  BY <1>3 DEF Metachar, Escaped, Expand
<1>4. CASE ~Metachar(c) /\ ~Escaped(c) /\ c # "?"
  <2>1. Expand(c) = <<c>>
    BY <1>4 DEF Metachar, Escaped, Expand
  <2> QED
    BY <1>4, <2>1 DEF Metachar, Escaped
<1> QED
  BY <1>1, <1>2, <1>3, <1>4

\* The item of a character takes what the character means, as often.
LEMMA ItemFacts ==
  ASSUME NEW r, NEW p, NEW off, Laid(r, p, off), Len(p) \in Nat, Escapeless(p), NEW n \in 1..Len(p)
  PROVE  LET i == off[n - 1] IN
         /\ i \in 0..(Len(r) - 1) /\ r[i + 1] \notin {"^", "$"} /\ Past(r, i) = off[n]
         /\ Repeats(r, i) <=> Metachar(p[n])
         /\ Metachar(p[n]) => r[Behind(r, i) + 1] = p[n]
         /\ \A c : Takes(r, i, c) <=> p[n] \in {"*", "+", "?", c}
<1> DEFINE i == off[n - 1]
           c0 == p[n]
           e == Expand(c0)
<1>0. /\ n \in Nat /\ n - 1 \in 0..Len(p) /\ n \in 0..Len(p) /\ i \in Nat /\ off[n] \in Nat
      /\ c0 \notin {"^", "$", "\\"}
  <2>1. n \in Nat /\ n - 1 \in 0..Len(p) /\ n \in 0..Len(p)
    OBVIOUS
  <2>2. \A k \in 0..Len(p) : off[k] \in Nat
    BY DEF Laid
  <2>3. i \in Nat /\ off[n] \in Nat
    BY <2>1, <2>2
  <2> QED
    BY <2>1, <2>3 DEF Escapeless
<1>1. /\ off[n] = i + Len(e) /\ \A k \in 1..Len(e) : r[i + k] = e[k]
  BY DEF Laid
<1>2. \A m \in 0..Len(p) : m >= n => off[n] <= off[m]
  <2> DEFINE T == {d \in Nat : n + d <= Len(p) => off[n] <= off[n + d]}
  <2>1. 0 \in T
    BY <1>0
  <2>2. ASSUME NEW d \in Nat, d \in T PROVE d + 1 \in T
    <3> SUFFICES ASSUME n + (d + 1) <= Len(p) PROVE off[n] <= off[n + (d + 1)]
      OBVIOUS
    <3>1. /\ n + (d + 1) \in 1..Len(p) /\ (n + (d + 1)) - 1 = n + d /\ n + d <= Len(p)
          /\ n + d \in 0..Len(p)
      BY <1>0
    <3>2. off[n + (d + 1)] = off[n + d] + Len(Expand(p[n + (d + 1)]))
      BY <3>1 DEF Laid
    <3>3. Len(Expand(p[n + (d + 1)])) \in Nat /\ off[n + d] \in Nat
      <4>1. Len(Expand(p[n + (d + 1)])) \in 1..2
        BY ExpandForms
      <4>2. \A k \in 0..Len(p) : off[k] \in Nat
        BY DEF Laid
      <4> QED
        BY <3>1, <4>1, <4>2
    <3>4. off[n] <= off[n + d]
      BY <2>2, <3>1
    <3> QED
      BY <1>0, <3>2, <3>3, <3>4
  <2>3. Nat \subseteq T
    <3> HIDE DEF T
    <3> QED
      BY <2>1, <2>2, SetInduction
  <2> TAKE m \in 0..Len(p)
  <2> HAVE m >= n
  <2>4. m - n \in Nat /\ n + (m - n) = m /\ m <= Len(p)
    BY <1>0
  <2>5. m - n \in T
    <3> HIDE DEF T
    <3> QED
      BY <2>3, <2>4
  <2> QED
    BY <2>4, <2>5
<1>3. off[n] < Len(r) /\ Len(r) \in Nat
  <2>1. Len(p) \in 0..Len(p) /\ Len(p) >= n
    BY <1>0
  <2>2. off[n] <= off[Len(p)] /\ off[Len(p)] \in Nat /\ off[Len(p)] + 1 = Len(r)
    BY <1>2, <2>1 DEF Laid
  <2> QED
    BY <1>0, <2>2
<1>4. r[off[n] + 1] \notin {"*", "+"}
  <2>1. CASE n = Len(p)
    BY <2>1 DEF Laid
  <2>2. CASE n # Len(p)
    <3>1. n + 1 \in 1..Len(p) /\ (n + 1) - 1 = n
      BY <1>0, <2>2
    <3>2. Len(Expand(p[n + 1])) \in 1..2 /\ Expand(p[n + 1])[1] \notin {"*", "+"}
      BY ExpandForms
    <3>3. 1 \in 1..Len(Expand(p[n + 1]))
      BY <3>2
    <3>4. r[off[n] + 1] = Expand(p[n + 1])[1]
      BY <3>1, <3>3 DEF Laid
    <3> QED
      BY <3>2, <3>4
  <2> QED
    BY <2>1, <2>2
<1> HIDE DEF i
<1>5. Len(e) \in 1..2 /\ e[1] \notin {"^", "$"}
  BY <1>0, ExpandForms
<1>6. i \in 0..(Len(r) - 1) /\ r[i + 1] \notin {"^", "$"}
  <2>1. r[i + 1] = e[1]
    BY <1>1, <1>5
  <2>2. i < Len(r)
    BY <1>0, <1>1, <1>3, <1>5
  <2> QED
    BY <1>0, <1>3, <1>5, <2>1, <2>2
<1> DEFINE Facts == /\ Past(r, i) = off[n] /\ (Repeats(r, i) <=> Metachar(c0))
                    /\ Metachar(c0) => r[Behind(r, i) + 1] = c0
                    /\ \A c : Takes(r, i, c) <=> c0 \in {"*", "+", "?", c}
<1>7. ASSUME Metachar(c0) PROVE Facts
  <2>1. e = <<".", c0>>
    BY <1>7, ExpandForms
  <2>2. r[i + 1] = "." /\ r[i + 2] = c0 /\ off[n] = i + 2
    BY <1>1, <2>1
  <2>3. ~Escape(r, i) /\ Behind(r, i) = i + 1
    BY <2>2 DEF Escape, Behind
  <2>4. r[Behind(r, i) + 1] = c0 /\ Behind(r, i) < Len(r)
    BY <1>0, <1>3, <2>2, <2>3
  <2>5. Repeats(r, i)
    BY <1>7, <2>4 DEF Repeats, Metachar
  <2>6. Past(r, i) = off[n]
    BY <1>0, <2>2, <2>3, <2>5 DEF Past
  <2>7. \A c : Takes(r, i, c) <=> c0 \in {"*", "+", "?", c}
    BY <1>7, <2>2, <2>3 DEF Takes, Metachar
  <2> QED
    BY <1>7, <2>4, <2>5, <2>6, <2>7
<1>8. ASSUME Escaped(c0) PROVE Facts
  <2>1. e = <<"\\", c0>> /\ ~Metachar(c0) /\ c0 # "?"
    BY <1>8, ExpandForms DEF Metachar, Escaped
  <2>2. r[i + 1] = "\\" /\ r[i + 2] = c0 /\ off[n] = i + 2
    BY <1>1, <2>1
  <2>3. Escape(r, i) /\ Behind(r, i) = off[n]
    BY <2>2 DEF Escape, Behind
  <2>4. ~Repeats(r, i)
    BY <1>4, <2>3 DEF Repeats
  <2>5. Past(r, i) = off[n]
    BY <1>0, <2>3, <2>4 DEF Past
  <2>6. \A c : Takes(r, i, c) <=> c0 \in {"*", "+", "?", c}
    BY <2>1, <2>2, <2>3 DEF Takes, Metachar
  <2> QED
    BY <2>1, <2>4, <2>5, <2>6
<1>9. ASSUME ~Metachar(c0) /\ ~Escaped(c0) PROVE Facts
  <2>1. e = IF c0 = "?" THEN <<".">> ELSE <<c0>>
    BY <1>9, ExpandForms
  <2>2. r[i + 1] = (IF c0 = "?" THEN "." ELSE c0) /\ off[n] = i + 1
    BY <1>1, <2>1
  <2>3. ~Escape(r, i) /\ Behind(r, i) = off[n]
    BY <1>0, <2>2 DEF Escape, Behind
  <2>4. ~Repeats(r, i)
    BY <1>4, <2>3 DEF Repeats
  <2>5. Past(r, i) = off[n]
    BY <1>0, <2>3, <2>4 DEF Past
  <2>6. \A c : Takes(r, i, c) <=> c0 \in {"*", "+", "?", c}
    BY <1>9, <2>2, <2>3 DEF Takes, Metachar, Escaped
  <2> QED
    BY <1>9, <2>4, <2>5, <2>6
<1>10. Facts
  BY <1>7, <1>8, <1>9
<1> QED
  BY <1>6, <1>10 DEF i

\* From where an item finds its rest, its character spans a text to where the
\* rest is found.
LEMMA ItemSpans ==
  ASSUME NEW r, NEW p, NEW off, Laid(r, p, off), Len(p) \in Nat, Escapeless(p), NEW n \in 1..Len(p),
         NEW t, Len(t) \in Nat, NEW F, FindsRest(F, r, t), NEW j \in 0..Len(t)
  PROVE  j \in F[off[n - 1]] <=>
           \E k \in 0..Len(t) : Spans(p[n], t, j, k) /\ k \in F[off[n]]
<1> DEFINE i == off[n - 1]
           c0 == p[n]
<1>1. /\ i \in 0..(Len(r) - 1) /\ r[i + 1] \notin {"^", "$"} /\ Past(r, i) = off[n]
      /\ Repeats(r, i) <=> Metachar(c0)
      /\ Metachar(c0) => r[Behind(r, i) + 1] = c0
      /\ \A c : Takes(r, i, c) <=> c0 \in {"*", "+", "?", c}
  BY ItemFacts
<1> HIDE DEF i
<1>2. j \in F[i] <=> \E k \in j..Len(t) :
                       /\ Often(r, i, k - j) /\ \A l \in (j + 1)..k : Takes(r, i, t[l])
                       /\ k \in F[off[n]]
  <2>1. F[i] = Before(r, t, i, F)
    BY <1>1 DEF FindsRest
  <2> QED
    BY <1>1, <2>1 DEF Before
<1>3. ASSUME NEW k \in j..Len(t)
      PROVE  Often(r, i, k - j) /\ (\A l \in (j + 1)..k : Takes(r, i, t[l])) <=>
               Spans(c0, t, j, k)
  <2>1. CASE c0 = "*"
    <3>1. Often(r, i, k - j)
      BY <1>1, <2>1 DEF Often, Metachar
    <3>2. \A l \in (j + 1)..k : Takes(r, i, t[l])
      BY <1>1, <2>1
    <3> QED
      BY <2>1, <3>1, <3>2 DEF Spans
  <2>2. CASE c0 = "+"
    <3>1. Often(r, i, k - j) <=> k - j > 0
      BY <1>1, <2>2 DEF Often, Metachar
    <3>2. \A l \in (j + 1)..k : Takes(r, i, t[l])
      BY <1>1, <2>2
    <3>3. Spans(c0, t, j, k) <=> j < k
      BY <2>2 DEF Spans
    <3> QED
      BY <3>1, <3>2, <3>3
  <2>3. CASE ~Metachar(c0)
    <3>1. Often(r, i, k - j) <=> k - j = 1
      BY <1>1, <2>3 DEF Often
    <3>2. Spans(c0, t, j, k) <=> k = j + 1 /\ c0 \in {"?", t[k]}
      BY <2>3 DEF Spans, Metachar
    <3>3. \A c : Takes(r, i, c) <=> c0 \in {"?", c}
      BY <1>1, <2>3 DEF Metachar
    <3>4. CASE k = j + 1
      <4>1. \A l \in (j + 1)..k : l = k
        BY <3>4
      <4>2. k \in (j + 1)..k /\ k - j = 1
        BY <3>4
      <4>3. (\A l \in (j + 1)..k : Takes(r, i, t[l])) <=> Takes(r, i, t[k])
        BY <4>1, <4>2
      <4> QED
        BY <3>1, <3>2, <3>3, <3>4, <4>2, <4>3
    <3>5. CASE k # j + 1
      BY <3>1, <3>2, <3>5
    <3> QED
      BY <3>4, <3>5
  <2> QED
    BY <2>1, <2>2, <2>3 DEF Metachar
<1>4. \A k : Spans(c0, t, j, k) /\ k \in 0..Len(t) => k \in j..Len(t)
  BY DEF Spans
<1>5. j..Len(t) \subseteq 0..Len(t)
  OBVIOUS
<1>6. j \in F[i] <=> \E k \in j..Len(t) : Spans(c0, t, j, k) /\ k \in F[off[n]]
  BY <1>2, <1>3
<1> QED
  BY <1>4, <1>5, <1>6 DEF i

\* An expression that is laid out for a glob finds what the glob means.
LEMMA LaidFinds ==
  ASSUME NEW r, NEW p, NEW off, Laid(r, p, off), Len(p) \in Nat, Escapeless(p),
         NEW t, Len(t) \in Nat
  PROVE  RegexFinds(r, t) <=> Glob(p, t)
<1> DEFINE F == Finds(r, t)
           E == Ends(p, t)
           m == Len(p)
           Meet(n) == \E j \in E[n] : j \in F[off[n]]
           T == {n \in Nat : n <= m => (Meet(n) <=> Meet(0))}
<1> HIDE DEF F, E
<1>0. /\ Len(r) \in Nat /\ Len(r) >= 2 /\ off[0] = 1 /\ off[m] \in Nat /\ off[m] + 1 = Len(r)
      /\ r[1] = "^" /\ r[Len(r)] = "$"
  <2>1. off[m] \in Nat /\ off[m] + 1 = Len(r) /\ off[0] = 1
    BY DEF Laid
  <2>2. off[m] # 0
    <3>1. CASE m = 0
      BY <2>1, <3>1
    <3>2. CASE m # 0
      <4>1. m \in 1..m /\ m - 1 \in 0..m
        BY <3>2
      <4>2. off[m] = off[m - 1] + Len(Expand(p[m])) /\ off[m - 1] \in Nat
        BY <4>1 DEF Laid
      <4>3. Len(Expand(p[m])) \in 1..2
        BY ExpandForms
      <4>4. \A x \in Nat : \A y \in 1..2 : x + y # 0
        OBVIOUS
      <4> HIDE DEF m, T, Meet
      <4> QED
        BY <4>2, <4>3, <4>4
    <3> QED
      BY <3>1, <3>2
  <2> QED
    BY <2>1, <2>2 DEF Laid
<1>1. FindsRest(F, r, t)
  BY <1>0, FindsUnfold DEF F
<1>2. Reaches(E, p, t)
  BY EndsUnfold DEF E
<1>3. E[0] = {0} /\ \A n \in 0..m : E[n] \subseteq 0..Len(t)
  <2>1. E[0] = {0}
    BY <1>2 DEF Reaches
  <2> SUFFICES ASSUME NEW n \in 0..m PROVE E[n] \subseteq 0..Len(t)
    BY <2>1
  <2>2. CASE n = 0
    BY <2>1, <2>2
  <2>3. CASE n # 0
    <3>1. n \in 1..Len(p)
      BY <2>3
    <3> QED
      BY <1>2, <3>1 DEF Reaches
  <2> QED
    BY <2>2, <2>3
<1>4. 0 \in T
  OBVIOUS
<1>5. ASSUME NEW n \in Nat, n \in T PROVE n + 1 \in T
  <2> SUFFICES ASSUME n + 1 <= m PROVE Meet(n + 1) <=> Meet(n)
    BY <1>5
  <2>1. n + 1 \in 1..Len(p) /\ (n + 1) - 1 = n /\ n \in 0..m
    OBVIOUS
  <2>2. E[n + 1] = {k \in 0..Len(t) : \E j \in E[n] : Spans(p[n + 1], t, j, k)}
    BY <1>2, <2>1 DEF Reaches
  <2>3. \A j \in 0..Len(t) : j \in F[off[n]] <=>
          \E k \in 0..Len(t) : Spans(p[n + 1], t, j, k) /\ k \in F[off[n + 1]]
    BY <1>1, <2>1, ItemSpans
  <2> QED
    BY <1>3, <2>1, <2>2, <2>3
<1>6. Meet(m) <=> Meet(0)
  <2>1. Nat \subseteq T
    <3> HIDE DEF T
    <3> QED
      BY <1>4, <1>5, SetInduction
  <2> QED
    BY <2>1
<1>7. Meet(0) <=> 0 \in F[1]
  BY <1>0, <1>3
<1>8. Meet(m) <=> Len(t) \in E[m]
  <2>1. off[m] \in 0..(Len(r) - 1) /\ off[m] + 1 = Len(r)
    BY <1>0
  <2>2. F[off[m]] = Before(r, t, off[m], F) /\ F[Len(r)] = 0..Len(t)
    BY <1>1, <2>1 DEF FindsRest
  <2>3. F[off[m]] = {Len(t)}
    BY <1>0, <2>1, <2>2 DEF Before
  <2> QED
    BY <2>3
<1>9. F[0] # {} <=> 0 \in F[1]
  <2>1. 0 \in 0..(Len(r) - 1) /\ 0 + 1 = 1
    BY <1>0
  <2>2. F[0] = {0} \cap F[1]
    BY <1>0, <1>1, <2>1 DEF FindsRest, Before
  <2> QED
    BY <2>2
<1>10. (RegexFinds(r, t) <=> F[0] # {}) /\ (Glob(p, t) <=> Len(t) \in E[m])
  BY DEF RegexFinds, Glob, F, E
<1> QED
  BY <1>6, <1>7, <1>8, <1>9, <1>10

\* The texts x stand one behind the other in z, x[i] behind the first at[i-1]
\* characters.
Placed(z, x, at) ==
  /\ at \in [0..Len(x) -> Nat] /\ at[0] = 0 /\ at[Len(x)] = Len(z)
  /\ \A i \in 1..Len(x) :
       /\ at[i] = at[i - 1] + Len(x[i]) /\ at[i] <= Len(z)
       /\ \A k \in 1..Len(x[i]) : z[at[i - 1] + k] = x[i][k]

\* Texts that are put together stand one behind the other.
LEMMA FlatPlaced ==
  ASSUME NEW S, NEW x, Len(x) \in Nat, Len(x) # 0, \A i \in 1..Len(x) : x[i] \in Seq(S)
  PROVE  FlattenSeq(x) \in Seq(S) /\ \E at : Placed(FlattenSeq(x), x, at)
<1>1. PICK f : JoinedBy(f, x) /\ FlattenSeq(x) = f[Len(x)]
  BY FlattenUnfold
<1> DEFINE at == [i \in 0..Len(x) |-> IF i = 0 THEN 0 ELSE Len(f[i])]
           Right(n) == /\ f[n] \in Seq(S) /\ at[n] = Len(f[n])
                       /\ \A i \in 1..n :
                            /\ at[i] \in Nat /\ at[i - 1] \in Nat /\ at[i] <= at[n]
                            /\ at[i] = at[i - 1] + Len(x[i])
                            /\ \A k \in 1..Len(x[i]) : f[n][at[i - 1] + k] = x[i][k]
           T == {m \in Nat : m + 1 <= Len(x) => Right(m + 1)}
<1>2. at[0] = 0 /\ (\A i \in 1..Len(x) : at[i] = Len(f[i])) /\ DOMAIN at = 0..Len(x)
  OBVIOUS
<1> HIDE DEF at
<1>3. 0 \in T
  <2>1. 1 \in 1..Len(x) /\ f[1] = x[1] /\ at[1] = Len(x[1]) /\ x[1] \in Seq(S)
    BY <1>1, <1>2 DEF JoinedBy
  <2>2. \A i \in 1..1 : i = 1
    OBVIOUS
  <2>3. Len(x[1]) \in Nat
    BY <2>1
  <2>4. Right(1)
    BY <1>2, <2>1, <2>2, <2>3
  <2> QED
    BY <2>4
<1>4. ASSUME NEW m \in Nat, m \in T PROVE m + 1 \in T
  <2> HIDE DEF Right
  <2>0. (m + 1) + 1 = m + 2
    OBVIOUS
  <2> SUFFICES ASSUME m + 2 <= Len(x) PROVE Right(m + 2)
    BY <2>0
  <2> DEFINE a == f[m + 1]
             b == x[m + 2]
             c == f[m + 2]
             Here(n, i) ==
               /\ at[i] \in Nat /\ at[i - 1] \in Nat /\ at[i] <= at[n]
               /\ at[i] = at[i - 1] + Len(x[i])
               /\ \A k \in 1..Len(x[i]) : f[n][at[i - 1] + k] = x[i][k]
  <2>1. /\ m + 2 \in 1..Len(x) /\ m + 2 \in 2..Len(x) /\ (m + 2) - 1 = m + 1
        /\ m + 1 \in 1..Len(x) /\ m + 1 <= Len(x)
    OBVIOUS
  <2>2. Right(m + 1)
    BY <1>4, <2>1
  <2>3. c = a \o b /\ a \in Seq(S) /\ b \in Seq(S)
    BY <1>1, <2>1, <2>2 DEF JoinedBy, Right
  <2>4. at[m + 1] = Len(a) /\ at[m + 2] = Len(c)
    BY <1>2, <2>1
  <2>5. \A i \in 1..(m + 1) : Here(m + 1, i)
    BY <2>2 DEF Right
  <2>6. /\ c \in Seq(S) /\ Len(c) = Len(a) + Len(b) /\ Len(a) \in Nat /\ Len(b) \in Nat
        /\ \A k \in 1..Len(a) : c[k] = a[k]
        /\ \A k \in 1..Len(b) : c[Len(a) + k] = b[k]
    <3> HIDE DEF a, b, c
    <3> QED
      BY <2>3
  <2>7. ASSUME NEW i \in 1..(m + 1) PROVE Here(m + 2, i)
    <3>1. /\ at[i] \in Nat /\ at[i - 1] \in Nat /\ at[i] <= at[m + 1]
          /\ at[i] = at[i - 1] + Len(x[i])
          /\ \A k \in 1..Len(x[i]) : a[at[i - 1] + k] = x[i][k]
      BY <2>5
    <3>2. Len(x[i]) \in Nat
      <4>1. i \in 1..Len(x)
        BY <2>1
      <4>2. x[i] \in Seq(S)
        BY <4>1
      <4> QED
        BY <4>2
    <3>3. at[i] <= at[m + 2]
      <4> HIDE DEF a, b, c
      <4> QED
        BY <2>4, <2>6, <3>1
    <3>4. ASSUME NEW k \in 1..Len(x[i])
          PROVE  c[at[i - 1] + k] = x[i][k]
      <4>1. at[i - 1] + k \in 1..Len(a)
        <5>1. \A u, v, w, y \in Nat : u = v + w /\ u <= y => \A j \in 1..w : v + j \in 1..y
          OBVIOUS
        <5>2. Len(a) \in Nat /\ at[i] <= Len(a)
          BY <2>4, <2>6, <3>1
        <5> HIDE DEF a
        <5> QED
          BY <3>1, <3>2, <5>1, <5>2
      <4>2. c[at[i - 1] + k] = a[at[i - 1] + k]
        BY <2>6, <4>1
      <4> QED
        BY <3>1, <4>2
    <3> QED
      BY <3>1, <3>3, <3>4
  <2>8. Here(m + 2, m + 2)
    <3>1. /\ at[m + 2] \in Nat /\ at[m + 1] \in Nat /\ at[m + 2] <= at[m + 2]
          /\ at[m + 2] = at[m + 1] + Len(b)
      <4> HIDE DEF a, b, c
      <4> QED
        BY <2>4, <2>6
    <3>2. \A k \in 1..Len(b) : c[at[m + 1] + k] = b[k]
      BY <2>4, <2>6
    <3> QED
      BY <2>1, <3>1, <3>2
  <2>9. \A i \in 1..(m + 2) : i \in 1..(m + 1) \/ i = m + 2
    OBVIOUS
  <2>10. \A i \in 1..(m + 2) : Here(m + 2, i)
    <3> HIDE DEF Here
    <3> QED
      BY <2>7, <2>8, <2>9
  <2> QED
    BY <2>4, <2>6, <2>10 DEF Right
<1>5. Right(Len(x))
  <2>1. Nat \subseteq T
    <3> HIDE DEF T
    <3> QED
      BY <1>3, <1>4, SetInduction
  <2>2. Len(x) - 1 \in Nat /\ (Len(x) - 1) + 1 = Len(x) /\ Len(x) <= Len(x)
    OBVIOUS
  <2>3. Len(x) - 1 \in T
    <3> HIDE DEF T
    <3> QED
      BY <2>1, <2>2
  <2> HIDE DEF Right
  <2> QED
    BY <2>2, <2>3
<1>6. \A i \in 0..Len(x) : at[i] \in Nat
  <2> TAKE i \in 0..Len(x)
  <2>1. CASE i = 0
    BY <1>2, <2>1
  <2>2. CASE i # 0
    <3>1. i \in 1..Len(x)
      BY <2>2
    <3> QED
      BY <1>5, <3>1
  <2> QED
    BY <2>1, <2>2
<1>7. at \in [0..Len(x) -> Nat]
  <2>1. at = [i \in 0..Len(x) |-> at[i]]
    BY DEF at
  <2> QED
    BY <1>6, <2>1
<1>8. Placed(FlattenSeq(x), x, at)
  BY <1>1, <1>2, <1>5, <1>7 DEF Placed
<1> QED
  BY <1>1, <1>5, <1>8

\* Which of its anchors a glob has.
Hat(g)    == IF g[1] = "^" THEN 1 ELSE 0
Dollar(g) == IF Last(g) = "$" THEN 1 ELSE 0

\* Without its anchors a glob is shorter by them, and shifted by the first.
LEMMA UnanchoredFacts ==
  ASSUME NEW S, NEW g \in Seq(S), g # <<>>
  PROVE  /\ Len(Unanchored(g)) = Len(g) - Hat(g) - Dollar(g)
         /\ Len(Unanchored(g)) \in Nat /\ Len(g) \in Nat \ {0}
         /\ \A n \in 1..Len(Unanchored(g)) : Unanchored(g)[n] = g[n + Hat(g)]
<1> DEFINE front == IF g # <<>> /\ g[1] = "^" THEN Tail(g) ELSE g
<1>0. Len(g) \in Nat \ {0} /\ Last(g) = g[Len(g)]
  BY DEF Last
<1>1. /\ front \in Seq(S) /\ Len(front) = Len(g) - Hat(g)
      /\ \A n \in 1..Len(front) : front[n] = g[n + Hat(g)]
  <2>1. CASE g[1] = "^"
    <3>1. front = Tail(g) /\ Hat(g) = 1
      BY <2>1 DEF Hat
    <3>2. /\ Tail(g) \in Seq(S) /\ Len(Tail(g)) = Len(g) - 1
          /\ \A n \in 1..Len(Tail(g)) : Tail(g)[n] = g[n + 1]
      BY <1>0
    <3> HIDE DEF front
    <3> QED
      BY <3>1, <3>2
  <2>2. CASE g[1] # "^"
    <3>1. front = g /\ Hat(g) = 0
      BY <2>2 DEF Hat
    <3>2. \A n \in 1..Len(g) : g[n] = g[n + 0]
      BY <1>0
    <3> HIDE DEF front
    <3> QED
      BY <1>0, <3>1, <3>2
  <2> QED
    BY <2>1, <2>2
<1>2. Unanchored(g) = IF front # <<>> /\ Last(front) = "$"
                      THEN SubSeq(front, 1, Len(front) - 1) ELSE front
  BY DEF Unanchored
<1>3. Len(front) \in Nat
  BY <1>1
<1> HIDE DEF front
<1>4. Hat(g) \in {0, 1} /\ (Hat(g) = 1 => g[1] = "^")
  BY DEF Hat
<1>5. front # <<>> => Last(front) = Last(g)
  <2> SUFFICES ASSUME front # <<>> PROVE Last(front) = Last(g)
    OBVIOUS
  <2>1. Len(front) \in 1..Len(front) /\ Len(front) + Hat(g) = Len(g)
    BY <1>0, <1>1, <1>3, <1>4
  <2> QED
    BY <1>0, <1>1, <2>1 DEF Last
<1>6. CASE Last(g) = "$"
  <2>1. front # <<>>
    <3>1. SUFFICES ASSUME front = <<>> PROVE FALSE
      OBVIOUS
    <3>2. Len(front) = 0 /\ Len(front) = Len(g) - Hat(g)
      BY <1>1, <3>1
    <3>3. CASE Hat(g) = 0
      BY <1>0, <3>2, <3>3
    <3>4. CASE Hat(g) = 1
      <4>1. Len(g) = 1 /\ g[1] = "^"
        BY <1>0, <1>4, <3>2, <3>4
      <4>2. Last(g) = "^"
        BY <1>0, <4>1
      <4> QED
        BY <1>6, <4>2
    <3> QED
      BY <1>4, <3>3, <3>4
  <2>2. Unanchored(g) = SubSeq(front, 1, Len(front) - 1) /\ Len(front) # 0
    BY <1>1, <1>2, <1>5, <1>6, <2>1
  <2>3. /\ Len(SubSeq(front, 1, Len(front) - 1)) = Len(front) - 1
        /\ \A n \in 1..(Len(front) - 1) : SubSeq(front, 1, Len(front) - 1)[n] = front[n]
    BY <1>1, <1>3, <2>2
  <2>4. Dollar(g) = 1
    BY <1>6 DEF Dollar
  <2>5. \A n \in 1..(Len(front) - 1) : n \in 1..Len(front)
    BY <1>3
  <2>6. Len(front) - 1 \in Nat
    BY <1>3, <2>2
  <2> QED
    BY <1>0, <1>1, <2>2, <2>3, <2>4, <2>5, <2>6
<1>7. CASE Last(g) # "$"
  <2>1. Unanchored(g) = front
    BY <1>2, <1>5, <1>7
  <2>2. Dollar(g) = 0
    BY <1>7 DEF Dollar
  <2> QED
    BY <1>0, <1>1, <1>3, <2>1, <2>2
<1> QED
  BY <1>6, <1>7

\* The conversion lays an expression out.
LEMMA AnchoredLaid ==
  ASSUME NEW g, Converts(g)
  PROVE  \E off : Laid(Anchored(g), Unanchored(g), off)
<1> DEFINE x == [i \in DOMAIN g |-> Expand(g[i])]
           z == FlattenSeq(x)
           front == IF g[1] = "^" THEN <<>> ELSE <<"^">>
           body == front \o z
           r == Anchored(g)
           p == Unanchored(g)
           h == 1 - Hat(g)
<1>0. g \in Seq(Symbols) /\ g # <<>> /\ DOMAIN g = 1..Len(g)
  BY DEF Converts
<1>1. /\ Len(p) = Len(g) - Hat(g) - Dollar(g) /\ Len(p) \in Nat /\ Len(g) \in Nat \ {0}
      /\ \A n \in 1..Len(p) : p[n] = g[n + Hat(g)]
  BY <1>0, UnanchoredFacts
<1>2. Len(x) = Len(g) /\ \A i \in 1..Len(g) : x[i] = Expand(g[i]) /\ x[i] \in Seq(Symbols)
  <2>1. Len(x) = Len(g) /\ \A i \in 1..Len(g) : x[i] = Expand(g[i])
    BY <1>0, <1>1
  <2>2. \A i \in 1..Len(g) : g[i] \in Symbols
    BY <1>0
  <2> HIDE DEF x
  <2> QED
    BY <2>1, <2>2, ExpandLength
<1>3. r = IF Last(body) = "$" THEN body ELSE body \o <<"$">>
  BY DEF Anchored
<1> HIDE DEF x
<1>4. PICK at : Placed(z, x, at)
  BY <1>1, <1>2, FlatPlaced
<1>5. z \in Seq(Symbols)
  BY <1>1, <1>2, FlatPlaced
<1> HIDE DEF z, p, r
<1>6. /\ Hat(g) \in {0, 1} /\ Dollar(g) \in {0, 1} /\ (Hat(g) = 1 <=> g[1] = "^")
      /\ Dollar(g) = 1 <=> Last(g) = "$"
  BY DEF Hat, Dollar
<1> DEFINE Spot(i) ==
             /\ at[i] = at[i - 1] + Len(Expand(g[i])) /\ at[i] \in Nat /\ at[i - 1] \in Nat
             /\ at[i] <= Len(z)
             /\ \A k \in 1..Len(Expand(g[i])) : z[at[i - 1] + k] = Expand(g[i])[k]
<1>7. /\ \A i \in 0..Len(g) : at[i] \in Nat
      /\ at[0] = 0 /\ at[Len(g)] = Len(z) /\ \A i \in 1..Len(g) : Spot(i)
  <2>1. at[0] = 0 /\ at[Len(g)] = Len(z) /\ \A i \in 0..Len(g) : at[i] \in Nat
    BY <1>2, <1>4 DEF Placed
  <2> SUFFICES ASSUME NEW i \in 1..Len(g) PROVE Spot(i)
    BY <2>1
  <2>2. i \in 0..Len(g) /\ i - 1 \in 0..Len(g) /\ i \in 1..Len(x) /\ x[i] = Expand(g[i])
    BY <1>1, <1>2
  <2>3. /\ at[i] = at[i - 1] + Len(x[i]) /\ at[i] <= Len(z)
        /\ \A k \in 1..Len(x[i]) : z[at[i - 1] + k] = x[i][k]
    BY <1>4, <2>2 DEF Placed
  <2>4. at[i] \in Nat /\ at[i - 1] \in Nat
    BY <2>1, <2>2
  <2> QED
    BY <2>2, <2>3, <2>4
<1> HIDE DEF Spot
<1>8. front \in Seq(Symbols) /\ Len(front) = h /\ (h = 1 => front[1] = "^")
  <2>1. <<"^">> \in Seq(Symbols) /\ <<>> \in Seq(Symbols)
    BY DEF Symbols
  <2> QED
    BY <1>6, <2>1
<1> HIDE DEF front
<1>9. /\ body \in Seq(Symbols) /\ Len(body) = h + Len(z)
      /\ \A k \in 1..Len(z) : body[h + k] = z[k]
      /\ h = 1 => body[1] = "^"
  <2>1. /\ front \o z \in Seq(Symbols) /\ Len(front \o z) = Len(front) + Len(z)
        /\ \A k \in 1..Len(front) : (front \o z)[k] = front[k]
        /\ \A k \in 1..Len(z) : (front \o z)[Len(front) + k] = z[k]
    BY <1>5, <1>8
  <2> QED
    BY <1>8, <2>1
<1> HIDE DEF body
<1> DEFINE n0 == Len(g)
           e0 == Expand(g[n0])
<1>10. Len(z) \in Nat /\ Len(z) # 0 /\ body[Len(body)] = e0[Len(e0)]
  <2>1. Len(e0) \in 1..2 /\ n0 \in 1..Len(g)
    BY <1>1, ExpandForms
  <2>2. Spot(n0)
    BY <1>7, <2>1
  <2>3. Len(e0) \in 1..Len(e0)
    BY <2>1
  <2>4. /\ at[n0] = at[n0 - 1] + Len(e0) /\ at[n0 - 1] \in Nat /\ at[n0] \in Nat
        /\ z[at[n0 - 1] + Len(e0)] = e0[Len(e0)]
    BY <2>2, <2>3 DEF Spot
  <2>5. Len(z) = at[n0 - 1] + Len(e0) /\ Len(z) \in Nat /\ Len(z) # 0
    <3>1. at[n0] = Len(z)
      BY <1>7
    <3> HIDE DEF n0, e0
    <3> QED
      BY <2>1, <2>4, <3>1
  <2>6. body[h + Len(z)] = z[Len(z)]
    BY <1>9, <2>5
  <2> QED
    BY <1>9, <2>4, <2>5, <2>6
<1>11. Last(body) = "$" <=> Last(g) = "$"
  <2>1. Last(body) = body[Len(body)] /\ Last(g) = g[n0]
    BY DEF Last
  <2>2. e0[Len(e0)] = "$" <=> g[n0] = "$"
    BY ExpandForms DEF Metachar, Escaped
  <2> QED
    BY <1>10, <2>1, <2>2
<1>12. /\ Len(r) = Len(body) + 1 - Dollar(g) /\ r[Len(r)] = "$"
       /\ \A k \in 1..Len(body) : r[k] = body[k]
  <2>0. Len(body) \in Nat
    BY <1>9
  <2>1. CASE Last(g) = "$"
    <3>1. r = body /\ Dollar(g) = 1
      BY <1>3, <1>6, <1>11, <2>1
    <3>2. body[Len(body)] = "$"
      BY <1>11, <2>1 DEF Last
    <3> QED
      BY <2>0, <3>1, <3>2
  <2>2. CASE Last(g) # "$"
    <3>1. r = body \o <<"$">> /\ Dollar(g) = 0
      BY <1>3, <1>6, <1>11, <2>2
    <3>2. <<"$">> \in Seq(Symbols) /\ Len(<<"$">>) = 1 /\ <<"$">>[1] = "$" /\ 1 \in 1..Len(<<"$">>)
      BY DEF Symbols
    <3>3. /\ Len(body \o <<"$">>) = Len(body) + 1 /\ (body \o <<"$">>)[Len(body) + 1] = "$"
          /\ \A k \in 1..Len(body) : (body \o <<"$">>)[k] = body[k]
      BY <1>9, <3>2
    <3> QED
      BY <2>0, <3>1, <3>3
  <2> QED
    BY <2>1, <2>2
<1> DEFINE off == [n \in 0..Len(p) |-> at[n + Hat(g)] + h]
<1>13. \A n \in 0..Len(p) : /\ n + Hat(g) \in 0..Len(g) /\ at[n + Hat(g)] \in Nat
                            /\ off[n] = at[n + Hat(g)] + h /\ off[n] \in Nat
  <2> TAKE n \in 0..Len(p)
  <2>1. n + Hat(g) \in 0..Len(g)
    BY <1>1, <1>6
  <2>2. at[n + Hat(g)] \in Nat /\ h \in Nat
    BY <1>6, <1>7, <2>1
  <2> QED
    BY <2>1, <2>2
<1>14. off \in [0..Len(p) -> Nat]
  BY <1>13
<1> HIDE DEF off
<1>15. off[0] = 1 /\ r[1] = "^"
  <2>1. 0 \in 0..Len(p) /\ 1 \in 1..Len(g) /\ 1 \in 1..Len(body)
    BY <1>1, <1>6, <1>9, <1>10
  <2>2. CASE Hat(g) = 1
    <3>1. g[1] = "^" /\ Expand("^") = <<"^">>
      BY <1>6, <2>2, ExpandForms DEF Metachar, Escaped
    <3>2. at[1] = 1 /\ z[1] = "^"
      <4>1. Spot(1)
        BY <1>7, <2>1
      <4>2. Len(Expand(g[1])) = 1 /\ Expand(g[1])[1] = "^" /\ 1 \in 1..Len(Expand(g[1]))
        BY <3>1
      <4>3. at[1] = at[1 - 1] + Len(Expand(g[1])) /\ z[at[1 - 1] + 1] = Expand(g[1])[1]
        BY <4>1, <4>2 DEF Spot
      <4>4. 1 - 1 = 0 /\ 0 + 1 = 1 /\ at[0] = 0
        BY <1>7
      <4> QED
        BY <4>2, <4>3, <4>4
    <3>3. body[0 + 1] = z[1]
      BY <1>9, <1>10, <2>2
    <3> QED
      BY <1>12, <1>13, <2>1, <2>2, <3>2, <3>3
  <2>3. CASE Hat(g) = 0
    BY <1>7, <1>9, <1>12, <1>13, <2>1, <2>3
  <2> QED
    BY <1>6, <2>2, <2>3
<1>16. off[Len(p)] + 1 = Len(r)
  <2>1. Len(p) \in 0..Len(p) /\ off[Len(p)] = at[Len(p) + Hat(g)] + h
    BY <1>1, <1>13
  <2>2. CASE Dollar(g) = 0
    <3>1. Len(p) + Hat(g) = Len(g)
      BY <1>1, <1>6, <2>2
    <3> QED
      BY <1>6, <1>7, <1>9, <1>10, <1>12, <2>1, <2>2, <3>1
  <2>3. CASE Dollar(g) = 1
    <3>1. Len(p) + Hat(g) = n0 - 1 /\ n0 \in 1..Len(g)
      BY <1>1, <1>6, <2>3
    <3>2. g[n0] = "$" /\ Expand("$") = <<"$">>
      BY <1>6, <2>3, ExpandForms DEF Last, Metachar, Escaped
    <3>3. Spot(n0)
      BY <1>7, <3>1
    <3>4. Len(Expand(g[n0])) = 1
      BY <3>2
    <3>5. at[n0] = at[n0 - 1] + 1 /\ at[n0 - 1] \in Nat
      BY <3>3, <3>4 DEF Spot
    <3>6. at[n0] = Len(z) /\ Len(z) \in Nat
      BY <1>7, <1>10
    <3>7. off[Len(p)] = at[n0 - 1] + h /\ Len(r) = h + Len(z)
      BY <1>9, <1>12, <2>1, <2>3, <3>1, <1>10, <1>6
    <3>8. h \in Nat
      BY <1>6
    <3> HIDE DEF h, n0
    <3> QED
      BY <3>5, <3>6, <3>7, <3>8
  <2> QED
    BY <1>6, <2>2, <2>3
<1>17. ASSUME NEW n \in 1..Len(p)
       PROVE  /\ off[n] = off[n - 1] + Len(Expand(p[n]))
              /\ \A k \in 1..Len(Expand(p[n])) : r[off[n - 1] + k] = Expand(p[n])[k]
  <2> DEFINE i == n + Hat(g)
             e == Expand(g[i])
  <2>1. /\ n \in 0..Len(p) /\ n - 1 \in 0..Len(p) /\ i \in 1..Len(g) /\ (n - 1) + Hat(g) = i - 1
        /\ p[n] = g[i]
    BY <1>1, <1>6
  <2>2. /\ off[n] = at[i] + h /\ off[n - 1] = at[i - 1] + h
    BY <1>13, <2>1
  <2>3. Spot(i)
    BY <1>7, <2>1
  <2>4. /\ at[i] = at[i - 1] + Len(e) /\ at[i] \in Nat /\ at[i - 1] \in Nat
        /\ at[i] <= Len(z) /\ \A k \in 1..Len(e) : z[at[i - 1] + k] = e[k]
    BY <2>3 DEF Spot
  <2>5. Len(e) \in 1..2
    BY ExpandForms
  <2>6. \A k \in 1..Len(e) : r[off[n - 1] + k] = e[k]
    <3> TAKE k \in 1..Len(e)
    <3>0. h \in Nat /\ Len(z) \in Nat /\ Len(e) \in Nat
      BY <1>6, <1>10, <2>5
    <3>1. \A u, v, w, y \in Nat : u = v + w /\ u <= y => \A j \in 1..w : v + j \in 1..y
      OBVIOUS
    <3>2. at[i - 1] + k \in 1..Len(z)
      <4> HIDE DEF i, e
      <4> QED
        BY <2>4, <3>0, <3>1
    <3>3. h + (at[i - 1] + k) \in 1..Len(body) /\ off[n - 1] + k = h + (at[i - 1] + k)
      <4>1. off[n - 1] = at[i - 1] + h /\ at[i - 1] \in Nat /\ Len(body) = h + Len(z) /\ k \in Nat
        BY <1>9, <2>2, <2>4, <3>0
      <4> HIDE DEF h, i, e
      <4> QED
        BY <3>0, <3>2, <4>1
    <3>4. r[h + (at[i - 1] + k)] = z[at[i - 1] + k]
      BY <1>9, <1>12, <3>2, <3>3
    <3> QED
      BY <2>4, <3>3, <3>4
  <2>7. off[n] = off[n - 1] + Len(e)
    <3>1. h \in Nat /\ Len(e) \in Nat
      BY <1>6, <2>5
    <3> HIDE DEF h, i, e
    <3> QED
      BY <2>2, <2>4, <3>1
  <2> QED
    BY <2>1, <2>6, <2>7
<1>18. Laid(r, p, off)
  BY <1>12, <1>14, <1>15, <1>16, <1>17 DEF Laid
<1> QED
  BY <1>18 DEF r, p

\* A \ escapes what stands behind it in the expression, and itself in no glob.
NoEscapes == "\\" \notin Chars

\* The expression of a glob finds the strings that the glob means.
LEMMA FindsMeant ==
  ASSUME NoEscapes, NEW g \in Seq(Chars), IsGlob(g), NEW t, Len(t) \in Nat
  PROVE  RegexFinds(uvm_re_comp(g, 1), t) <=> Glob(Unanchored(g), t)
<1> DEFINE p == Unanchored(g)
<1>1. CASE g = <<>>
  <2> DEFINE r == <<"^", "$">>
             off == [n \in 0..0 |-> 1]
  <2>1. uvm_re_comp(g, 1) = r
    BY <1>1 DEF uvm_re_comp, uvm_re_deglobbed, Wrap
  <2>2. p = <<>>
    BY <1>1 DEF Unanchored
  <2>3. Len(p) = 0 /\ Len(p) \in Nat /\ Escapeless(p)
    BY <2>2 DEF Escapeless
  <2>4. Laid(r, p, off)
    BY <2>3 DEF Laid
  <2> HIDE DEF r, p, off
  <2> QED
    BY <2>1, <2>3, <2>4, LaidFinds DEF p
<1>2. CASE g # <<>>
  <2>1. ~EveryString(g) /\ ~Bracketed(g)
    <3>1. Bracketed(<<"/">>)
      BY DEF Bracketed, Last
    <3> QED
      BY <1>2, <3>1 DEF EveryString, IsGlob
  <2>2. uvm_re_comp(g, 1) = Anchored(g)
    BY <2>1 DEF uvm_re_comp, uvm_re_deglobbed, Wrap, EveryString
  <2>3. g \in Seq(Symbols)
    <3>1. Chars \subseteq Symbols
      BY DEF Symbols
    <3> QED
      BY <3>1
  <2>4. Converts(g)
    BY <1>2, <2>1, <2>3 DEF Converts, EveryString
  <2>5. PICK off : Laid(Anchored(g), p, off)
    BY <2>4, AnchoredLaid
  <2>6. /\ Len(p) \in Nat /\ Len(g) \in Nat /\ Len(p) = Len(g) - Hat(g) - Dollar(g)
        /\ \A n \in 1..Len(p) : p[n] = g[n + Hat(g)]
    BY <1>2, UnanchoredFacts
  <2>7. Hat(g) \in {0, 1} /\ Dollar(g) \in {0, 1}
    BY DEF Hat, Dollar
  <2>8. DOMAIN p = 1..Len(p)
    <3>1. p \in Seq(Chars)
      BY <1>2 DEF Unanchored
    <3> QED
      BY <3>1
  <2> HIDE DEF p
  <2>9. ASSUME NEW n \in 1..Len(p) PROVE p[n] \notin {"^", "$", "\\"}
    <3>1. n + Hat(g) \in 1..Len(g)
      BY <2>6, <2>7
    <3>2. p[n] \in Chars
      BY <2>6, <3>1
    <3>3. p[n] \notin {"^", "$"}
      BY <2>8 DEF IsGlob, p
    <3> QED
      BY <3>2, <3>3 DEF NoEscapes
  <2> QED
    BY <2>2, <2>5, <2>6, <2>9, LaidFinds DEF Escapeless, p
<1> QED
  BY <1>1, <1>2

\* Through both conversions, a glob finds the strings it means and no others
\* (uvm_regex.cc:85-190, 243-252): for globs of every length that need no \, and
\* for every set of strings.
THEOREM FindsMeantCorrect ==
  ASSUME NoEscapes
  PROVE  Spec => []FindsWhatIsMeant
<1>1. ConvertCalls => FindsWhatIsMeant
  <2> SUFFICES ASSUME ConvertInv, frame.step = "plain", IsGlob(frame.glob), NEW t \in Strings
               PROVE  RegexFinds(frame.buffer, t) <=> Glob(Unanchored(frame.glob), t)
    BY DEF ConvertCalls, FindsWhatIsMeant, At
  <2>1. frame.glob \in Seq(Chars) /\ frame.buffer = uvm_re_comp(frame.glob, 1)
    BY DEF ConvertInv, Converted
  <2>2. Len(t) \in Nat
    BY StringsAssumption
  <2> QED
    BY <2>1, <2>2, FindsMeant
<1> QED
  BY <1>1, ConvertSafe, PTL

-----------------------------------------------------------------------------
(* The value of a probed signal: words as sets of bits, by the weights of  *)
(* the bits; a mask is the bits below a weight.                            *)

\* The recursion of weight has a solution, so weight doubles.
LEMMA WeightUnfold ==
  /\ weight[0] = 1
  /\ \A i \in 0..ChunkWidth : i # 0 => weight[i] = 2 * weight[i - 1]
<1> DEFINE Unfolds(x, m) == x = [i \in 0..m |-> IF i = 0 THEN 1 ELSE 2 * x[i - 1]]
           T == {m \in Nat : \E x : Unfolds(x, m)}
           E == CHOOSE x : Unfolds(x, ChunkWidth)
<1>0. weight = E
  BY DEF weight
<1>1. 0 \in T
  <2> DEFINE e == [i \in 0..0 |-> 1]
  <2>1. Unfolds(e, 0)
    OBVIOUS
  <2> QED
    BY <2>1
<1>2. ASSUME NEW m \in Nat, m \in T PROVE m + 1 \in T
  <2>1. PICK e : Unfolds(e, m)
    BY <1>2
  <2> DEFINE g == [i \in 0..(m + 1) |-> IF i <= m THEN e[i] ELSE 2 * e[m]]
  <2>2. \A i \in 0..m : e[i] = IF i = 0 THEN 1 ELSE 2 * e[i - 1]
    BY <2>1
  <2>3. ASSUME NEW i \in 0..(m + 1)
        PROVE  g[i] = IF i = 0 THEN 1 ELSE 2 * g[i - 1]
    <3>1. CASE i = m + 1
      BY <3>1
    <3>2. CASE i \in 0..m
      BY <2>2, <3>2
    <3> QED
      BY <3>1, <3>2
  <2>4. Unfolds(g, m + 1)
    <3>1. g = [i \in 0..(m + 1) |-> g[i]]
      OBVIOUS
    <3> HIDE DEF g
    <3> QED
      BY <2>3, <3>1
  <2>5. \E x : Unfolds(x, m + 1)
    <3> HIDE DEF Unfolds, g
    <3> QED
      BY <2>4
  <2> HIDE DEF Unfolds
  <2> QED
    BY <2>5
<1>3. \E x : Unfolds(x, ChunkWidth)
  <2>1. Nat \subseteq T
    <3> HIDE DEF T
    <3> QED
      BY <1>1, <1>2, SetInduction
  <2> QED
    BY <2>1, ValueAssumption
<1>4. Unfolds(E, ChunkWidth)
  <2> HIDE DEF Unfolds
  <2> QED
    BY <1>3
<1> HIDE DEF E, T
<1>5. E[0] = 1 /\ \A i \in 0..ChunkWidth : i # 0 => E[i] = 2 * E[i - 1]
  <2>1. 0 \in 0..ChunkWidth
    BY ValueAssumption
  <2> QED
    BY <1>4, <2>1
<1> QED
  BY <1>0, <1>5

\* weight[i + d] is a multiple of weight[i].
LEMMA WeightGrows ==
  ASSUME NEW i \in 0..ChunkWidth
  PROVE  /\ weight[i] \in Nat \ {0}
         /\ \A j \in i..ChunkWidth :
              weight[j] = weight[i] * weight[j - i] /\ weight[j - i] \in Nat \ {0}
<1>0. ChunkWidth \in Nat \ {0}
  BY ValueAssumption
<1> DEFINE P == {n \in Nat : n <= ChunkWidth => weight[n] \in Nat \ {0}}
<1>1. 0 \in P
  BY WeightUnfold
<1>2. ASSUME NEW n \in Nat, n \in P PROVE n + 1 \in P
  <2> SUFFICES ASSUME n + 1 <= ChunkWidth PROVE weight[n + 1] \in Nat \ {0}
    OBVIOUS
  <2>1. n + 1 \in 0..ChunkWidth /\ n + 1 # 0 /\ (n + 1) - 1 = n /\ n <= ChunkWidth
    BY <1>0
  <2>2. weight[n + 1] = 2 * weight[n] /\ weight[n] \in Nat \ {0}
    BY <1>2, <2>1, WeightUnfold
  <2> QED
    BY <2>2
<1>3. \A n \in 0..ChunkWidth : weight[n] \in Nat \ {0}
  <2>1. Nat \subseteq P
    <3> HIDE DEF P
    <3> QED
      BY <1>1, <1>2, SetInduction
  <2> QED
    BY <1>0, <2>1
<1> DEFINE Q == {d \in Nat : i + d <= ChunkWidth => weight[i + d] = weight[i] * weight[d]}
<1> HIDE DEF P
<1>4. 0 \in Q
  BY <1>0, <1>3, WeightUnfold
<1>5. ASSUME NEW d \in Nat, d \in Q PROVE d + 1 \in Q
  <2> SUFFICES ASSUME i + (d + 1) <= ChunkWidth
               PROVE  weight[i + (d + 1)] = weight[i] * weight[d + 1]
    OBVIOUS
  <2>1. /\ i + d + 1 \in 0..ChunkWidth /\ i + d + 1 # 0
        /\ (i + d + 1) - 1 = i + d /\ i + d <= ChunkWidth
        /\ d + 1 \in 0..ChunkWidth /\ d + 1 # 0 /\ (d + 1) - 1 = d /\ d \in 0..ChunkWidth
        /\ i + (d + 1) = i + d + 1
    BY <1>0
  <2>2. weight[i + d + 1] = 2 * weight[i + d] /\ weight[d + 1] = 2 * weight[d]
    BY <2>1, WeightUnfold
  <2>3. weight[i + d] = weight[i] * weight[d]
    BY <1>5, <2>1
  <2>4. weight[i] \in Nat /\ weight[d] \in Nat
    BY <1>3, <2>1
  <2>5. ASSUME NEW a \in Nat, NEW b \in Nat PROVE 2 * (a * b) = a * (2 * b)
    OBVIOUS
  <2>6. 2 * (weight[i] * weight[d]) = weight[i] * (2 * weight[d])
    BY <2>4, <2>5
  <2> QED
    BY <2>1, <2>2, <2>3, <2>6
<1>6. Nat \subseteq Q
  <2> HIDE DEF Q
  <2> QED
    BY <1>4, <1>5, SetInduction
<1>7. ASSUME NEW j \in i..ChunkWidth
      PROVE  weight[j] = weight[i] * weight[j - i] /\ weight[j - i] \in Nat \ {0}
  <2>1. j - i \in Nat /\ i + (j - i) = j /\ j - i \in 0..ChunkWidth /\ j <= ChunkWidth
    BY <1>0
  <2>2. j - i \in Q
    BY <1>6, <2>1
  <2>3. weight[j] = weight[i] * weight[j - i]
    BY <2>1, <2>2
  <2> HIDE DEF Q
  <2> QED
    BY <1>3, <2>1, <2>3
<1> HIDE DEF Q
<1> QED
  BY <1>3, <1>7

\* A division with remainder has one quotient.
LEMMA QuotientOf ==
  ASSUME NEW q \in Nat, NEW b \in Nat \ {0}, NEW c \in 0..(b - 1)
  PROVE  (b * q + c) \div b = q
<1>1. b * q + c = q * b + c
  OBVIOUS
<1> QED
  BY <1>1

\* The weight of a bit is the word in which it alone is 1.
LEMMA BitsOfWeight ==
  ASSUME NEW r \in Bits
  PROVE  AsBits(weight[r]) = {r}
<1>0. ChunkWidth \in Nat \ {0}
  BY ValueAssumption
<1>1. ASSUME NEW i \in Bits, i = r
      PROVE  (weight[r] \div weight[i]) % 2 = 1
  <2>0. r \in 0..ChunkWidth
    BY <1>0 DEF Bits
  <2>1. weight[r] \in Nat \ {0}
    BY <2>0, WeightGrows
  <2>2. \A w \in Nat \ {0} : w \div w = 1
    OBVIOUS
  <2>3. weight[r] \div weight[r] = 1
    BY <2>1, <2>2
  <2> QED
    BY <1>1, <2>3
<1>2. ASSUME NEW i \in Bits, i < r
      PROVE  (weight[r] \div weight[i]) % 2 # 1
  <2>1. i \in 0..ChunkWidth /\ r \in i..ChunkWidth /\ r - i \in 0..ChunkWidth /\ r - i # 0
        /\ r - i - 1 \in 0..ChunkWidth
    BY <1>0, <1>2 DEF Bits
  <2>2. weight[r] = weight[i] * weight[r - i] /\ weight[i] \in Nat \ {0} /\ weight[r - i] \in Nat
    BY <2>1, WeightGrows
  <2>3. weight[r - i] = 2 * weight[r - i - 1] /\ weight[r - i - 1] \in Nat
    BY <2>1, WeightUnfold, WeightGrows
  <2>4. 0 \in 0..(weight[i] - 1) /\ weight[i] * weight[r - i] + 0 = weight[i] * weight[r - i]
    BY <2>2
  <2>5. weight[r] \div weight[i] = weight[r - i]
    BY <2>2, <2>4, QuotientOf
  <2>6. \A w \in Nat : (2 * w) % 2 = 0
    OBVIOUS
  <2> QED
    BY <2>3, <2>5, <2>6
<1>3. ASSUME NEW i \in Bits, i > r
      PROVE  (weight[r] \div weight[i]) % 2 # 1
  <2>1. r \in 0..ChunkWidth /\ i \in r..ChunkWidth /\ i - r \in 0..ChunkWidth /\ i - r # 0
        /\ i - r - 1 \in 0..ChunkWidth /\ i \in 0..ChunkWidth
    BY <1>0, <1>3 DEF Bits
  <2>2. weight[i] = weight[r] * weight[i - r] /\ weight[r] \in Nat \ {0} /\ weight[i] \in Nat \ {0}
    BY <2>1, WeightGrows
  <2>3. weight[i - r] = 2 * weight[i - r - 1] /\ weight[i - r - 1] \in Nat \ {0}
    BY <2>1, WeightUnfold, WeightGrows
  <2>4. ASSUME NEW a \in Nat \ {0}, NEW b \in Nat \ {0} PROVE a < a * (2 * b)
    <3>1. a * (2 * ((b - 1) + 1)) = 2 * (a * (b - 1)) + 2 * a
      OBVIOUS
    <3>2. a * (b - 1) >= 0 /\ a * (b - 1) \in Int
      OBVIOUS
    <3>3. (b - 1) + 1 = b
      OBVIOUS
    <3> QED
      BY <3>1, <3>2, <3>3
  <2>5. weight[r] < weight[i]
    BY <2>2, <2>3, <2>4
  <2>6. ASSUME NEW b \in Nat \ {0}, NEW a \in 0..(b - 1) PROVE a \div b = 0
    OBVIOUS
  <2>7. weight[r] \div weight[i] = 0
    <3>1. weight[r] \in 0..(weight[i] - 1)
      BY <2>2, <2>5
    <3> QED
      BY <2>2, <2>6, <3>1
  <2> QED
    BY <2>7
<1> QED
  BY <1>0, <1>1, <1>2, <1>3 DEF AsBits, Bits

\* One less than the weight of the next bit is the word whose bits are 1 up to it.
LEMMA BitsBelowWeight ==
  ASSUME NEW r \in Bits
  PROVE  AsBits(weight[r + 1] - 1) = 0..r
<1>0. ChunkWidth \in Nat \ {0} /\ r + 1 \in 0..ChunkWidth /\ r \in Nat
  BY ValueAssumption DEF Bits
<1>1. ASSUME NEW i \in Bits, i <= r
      PROVE  ((weight[r + 1] - 1) \div weight[i]) % 2 = 1
  <2>1. /\ i \in 0..ChunkWidth /\ r + 1 \in i..ChunkWidth /\ r + 1 - i \in 0..ChunkWidth
        /\ r + 1 - i # 0 /\ r + 1 - i - 1 \in 0..ChunkWidth
    BY <1>0, <1>1 DEF Bits
  <2> DEFINE w == weight[i]
             u == weight[r + 1 - i - 1]
  <2>2. weight[r + 1] = w * weight[r + 1 - i] /\ w \in Nat \ {0}
    BY <2>1, WeightGrows
  <2>3. weight[r + 1 - i] = 2 * u /\ u \in Nat \ {0}
    BY <2>1, WeightUnfold, WeightGrows
  <2> HIDE DEF w, u
  <2>4. ASSUME NEW a \in Nat, NEW b \in Nat PROVE a * (2 * b) - 1 = a * (2 * b - 1) + (a - 1)
    OBVIOUS
  <2>5. weight[r + 1] - 1 = w * (2 * u - 1) + (w - 1)
    BY <2>2, <2>3, <2>4
  <2>6. 2 * u - 1 \in Nat /\ w - 1 \in 0..(w - 1)
    BY <2>2, <2>3
  <2>7. (weight[r + 1] - 1) \div w = 2 * u - 1
    BY <2>2, <2>5, <2>6, QuotientOf
  <2>8. \A x \in Nat \ {0} : (2 * x - 1) % 2 = 1
    OBVIOUS
  <2> QED
    BY <2>3, <2>7, <2>8 DEF w
<1>2. ASSUME NEW i \in Bits, i > r
      PROVE  ((weight[r + 1] - 1) \div weight[i]) % 2 # 1
  <2>1. i \in (r + 1)..ChunkWidth /\ i - (r + 1) \in 0..ChunkWidth
    BY <1>0, <1>2 DEF Bits
  <2>2. /\ weight[i] = weight[r + 1] * weight[i - (r + 1)] /\ weight[r + 1] \in Nat \ {0}
        /\ weight[i - (r + 1)] \in Nat \ {0}
    BY <1>0, <2>1, WeightGrows
  <2>3. ASSUME NEW a \in Nat \ {0}, NEW b \in Nat \ {0}
        PROVE  a - 1 \in 0..(a * b - 1) /\ a * b \in Nat \ {0}
    <3>1. a * ((b - 1) + 1) = a * (b - 1) + a
      OBVIOUS
    <3>2. a * (b - 1) >= 0 /\ a * (b - 1) \in Int
      OBVIOUS
    <3>3. (b - 1) + 1 = b
      OBVIOUS
    <3>4. a * b >= a /\ a * b \in Int
      BY <3>1, <3>2, <3>3
    <3> QED
      BY <3>4
  <2>4. weight[r + 1] - 1 \in 0..(weight[i] - 1) /\ weight[i] \in Nat \ {0}
    BY <2>2, <2>3
  <2>5. ASSUME NEW b \in Nat \ {0}, NEW a \in 0..(b - 1) PROVE a \div b = 0
    OBVIOUS
  <2>6. (weight[r + 1] - 1) \div weight[i] = 0
    BY <2>4, <2>5
  <2> QED
    BY <2>6
<1>3. 0..r \subseteq Bits
  BY <1>0 DEF Bits
<1> QED
  BY <1>0, <1>1, <1>2, <1>3 DEF AsBits, Bits

\* The masks of a hook: its top bit, and the bits up to it.
LEMMA MaskBits ==
  ASSUME size \in Nat \ {0}
  PROVE  LET r == (size - 1) % ChunkWidth
         IN r \in Bits /\ AsBits(top_msb) = {r} /\ AsBits(top_mask) = 0..r
<1> DEFINE r == (size - 1) % ChunkWidth
<1>1. r \in Bits /\ ChunkWidth \in Nat \ {0}
  BY ValueAssumption DEF Bits
<1> HIDE DEF r
<1>2. /\ r \in 0..ChunkWidth /\ r + 1 \in 0..ChunkWidth /\ r + 1 # 0 /\ (r + 1) - 1 = r
      /\ ChunkWidth \in (r + 1)..ChunkWidth /\ ChunkWidth - (r + 1) \in 0..ChunkWidth
      /\ ChunkWidth \in 0..ChunkWidth
  BY <1>1 DEF Bits
<1>3. /\ weight[r + 1] = 2 * weight[r] /\ weight[r] \in Nat \ {0}
      /\ weight[ChunkWidth] = weight[r + 1] * weight[ChunkWidth - (r + 1)]
      /\ weight[ChunkWidth - (r + 1)] \in Nat \ {0} /\ weight[ChunkWidth] \in Nat \ {0}
  BY <1>2, WeightUnfold, WeightGrows
<1>4. weight[ChunkWidth] >= weight[r + 1]
  <2>1. ASSUME NEW a \in Nat \ {0}, NEW b \in Nat \ {0} PROVE a * b >= a
    <3>1. a * ((b - 1) + 1) = a * (b - 1) + a
      OBVIOUS
    <3>2. a * (b - 1) >= 0 /\ a * (b - 1) \in Int
      OBVIOUS
    <3>3. (b - 1) + 1 = b
      OBVIOUS
    <3> QED
      BY <3>1, <3>2, <3>3
  <2>2. weight[r + 1] \in Nat \ {0}
    BY <1>3
  <2> QED
    BY <1>3, <2>1, <2>2
<1>5. ASSUME NEW b \in Nat \ {0}, NEW a \in 0..(b - 1) PROVE a % b = a
  OBVIOUS
<1>6. top_msb = weight[r]
  <2>1. weight[r] \in 0..(weight[ChunkWidth] - 1)
    BY <1>3, <1>4
  <2>2. weight[r] % weight[ChunkWidth] = weight[r]
    BY <1>3, <1>5, <2>1
  <2> QED
    BY <2>2 DEF top_msb, r
<1>7. top_mask = weight[r + 1] - 1
  <2>1. weight[r + 1] - 1 \in 0..(weight[ChunkWidth] - 1)
    BY <1>3, <1>4
  <2>2. (weight[r + 1] - 1) % weight[ChunkWidth] = weight[r + 1] - 1
    BY <1>3, <1>5, <2>1
  <2> QED
    BY <1>3, <1>6, <2>2 DEF top_mask
<1>8. AsBits(top_msb) = {r} /\ AsBits(top_mask) = 0..r
  BY <1>1, <1>6, <1>7, BitsOfWeight, BitsBelowWeight
<1> QED
  BY <1>1, <1>8 DEF r

\* The word B has, of the bits of a chunk, those in V.
Shows(B, chunk, V) ==
  \A i \in Bits : i \in B <=> ExtendedBit(chunk * ChunkWidth + i) \in V

\* What the simulator gives for a chunk, and what is made of it.
Own(chunk)      == {i \in Bits : chunk * ChunkWidth + i < size}
Among(chunk, V) == {i \in Own(chunk) : frame.value[chunk * ChunkWidth + i] \in V}
Signed(B) ==
  LET cut == B \cap AsBits(top_mask)
  IN IF frame.isSigned /\ B \cap AsBits(top_msb) # {} THEN cut \cup Complement(AsBits(top_mask))
     ELSE cut

\* The top chunk, extended by the masks.
LEMMA TopChunk ==
  ASSUME size \in Nat \ {0}, NEW chunk \in Nat, chunk * ChunkWidth < size,
         (chunk + 1) * ChunkWidth > size, NEW V, "0" \notin V,
         NEW above \in SUBSET (Bits \ Own(chunk))
  PROVE  Shows(Signed(Among(chunk, V) \cup above), chunk, V)
<1> DEFINE r == (size - 1) % ChunkWidth
           B == Among(chunk, V) \cup above
           base == chunk * ChunkWidth
<1>1. ChunkWidth \in Nat \ {0}
  BY ValueAssumption
<1>2. r \in Bits /\ AsBits(top_msb) = {r} /\ AsBits(top_mask) = 0..r
  BY MaskBits
<1>3. base \in Nat /\ base < size /\ size < base + ChunkWidth
  <2>1. (chunk + 1) * ChunkWidth = chunk * ChunkWidth + ChunkWidth
    BY <1>1
  <2> QED
    BY <1>1, <2>1
<1>4. size - 1 = base + r
  <2>1. size - 1 - base \in 0..(ChunkWidth - 1) /\ size - 1 = base + (size - 1 - base)
    BY <1>1, <1>3
  <2>2. ASSUME NEW q \in Nat, NEW b \in Nat \ {0}, NEW c \in 0..(b - 1) PROVE (q * b + c) % b = c
    OBVIOUS
  <2>3. (base + (size - 1 - base)) % ChunkWidth = size - 1 - base
    BY <1>1, <2>1, <2>2
  <2> QED
    BY <2>1, <2>3
<1> HIDE DEF r, base
<1>5. Own(chunk) = 0..r
  BY <1>1, <1>2, <1>3, <1>4 DEF Own, Bits, base
<1>6. \A i \in Bits : i \in 0..r => (i \in B <=> frame.value[base + i] \in V)
  BY <1>5 DEF Among, base
<1>7. ASSUME NEW i \in Bits, i \in 0..r
      PROVE  i \in Signed(B) <=> ExtendedBit(chunk * ChunkWidth + i) \in V
  <2>1. ExtendedBit(base + i) = frame.value[base + i]
    BY <1>1, <1>2, <1>3, <1>4, <1>7 DEF ExtendedBit, Bits
  <2>2. i \in Signed(B) <=> i \in B
    BY <1>2, <1>7 DEF Signed, Complement
  <2> QED
    BY <1>6, <1>7, <2>1, <2>2 DEF base
<1>8. ASSUME NEW i \in Bits, i \notin 0..r
      PROVE  i \in Signed(B) <=> ExtendedBit(chunk * ChunkWidth + i) \in V
  <2>1. r \in 0..r /\ ~(base + i < size)
    BY <1>1, <1>2, <1>3, <1>4, <1>8 DEF Bits
  <2>2. ExtendedBit(base + i) = IF frame.isSigned THEN frame.value[base + r] ELSE "0"
    BY <1>4, <2>1 DEF ExtendedBit
  <2>3. r \in B <=> frame.value[base + r] \in V
    BY <1>2, <1>6, <2>1
  <2>4. i \in Signed(B) <=> frame.isSigned /\ r \in B
    BY <1>2, <1>8 DEF Signed, Complement
  <2> QED
    BY <2>2, <2>3, <2>4 DEF base
<1> QED
  BY <1>7, <1>8 DEF Shows

\* Any other chunk is the signal's.
LEMMA FullChunk ==
  ASSUME size \in Nat \ {0}, NEW chunk \in Nat, ~((chunk + 1) * ChunkWidth > size), NEW V,
         NEW above \in SUBSET (Bits \ Own(chunk))
  PROVE  Shows(Among(chunk, V) \cup above, chunk, V)
<1>1. ChunkWidth \in Nat \ {0}
  BY ValueAssumption
<1>2. (chunk + 1) * ChunkWidth = chunk * ChunkWidth + ChunkWidth /\ chunk * ChunkWidth \in Nat
  BY <1>1
<1>3. ASSUME NEW i \in Bits
      PROVE  chunk * ChunkWidth + i < size
  BY <1>1, <1>2 DEF Bits
<1>4. Own(chunk) = Bits /\ above = {}
  BY <1>3 DEF Own
<1> QED
  BY <1>3, <1>4 DEF Shows, Among, ExtendedBit

ValueTypeOK ==
  /\ {"size", "isSigned", "value", "asked", "result", "ret"} \subseteq DOMAIN frame
  /\ size \in Nat \ {0}

ValueInv == ValueTypeOK /\ ValueExtended

\* A call that returns 1 has extended the chunk that it was asked for.
LEMMA ChunkExtends ==
  ASSUME size \in Nat \ {0}, NEW chunk \in Nat, chunk * ChunkWidth < size,
         NEW v \in Vectors(ReadAs(chunk))
  PROVE  LET w == IF (chunk + 1) * ChunkWidth > size THEN Extended(v) ELSE v
         IN Shows(w.aval, chunk, {"1", "x"}) /\ Shows(w.bval, chunk, {"z", "x"})
<1>1. ReadAs(chunk) = chunk
  <2>1. ChunkWidth \in Nat \ {0}
    BY ValueAssumption
  <2>2. chunk * ChunkWidth \in Nat
    BY <2>1
  <2>3. ~(chunk * ChunkWidth >= size)
    BY <2>2
  <2> QED
    BY <2>3 DEF ReadAs
<1>2. PICK above \in SUBSET (Bits \ Own(chunk)) :
        v = [aval |-> Among(chunk, {"1", "x"}) \cup above,
             bval |-> Among(chunk, {"z", "x"}) \cup above]
  BY <1>1 DEF Vectors, Own, Among
<1>3. CASE (chunk + 1) * ChunkWidth > size
  <2>1. Extended(v) = [aval |-> Signed(v.aval), bval |-> Signed(v.bval)]
    BY DEF Extended, Signed
  <2>2. /\ Shows(Signed(v.aval), chunk, {"1", "x"})
        /\ Shows(Signed(v.bval), chunk, {"z", "x"})
    BY <1>2, <1>3, TopChunk
  <2> QED
    BY <1>3, <2>1, <2>2
<1>4. CASE ~((chunk + 1) * ChunkWidth > size)
  BY <1>2, <1>4, FullChunk
<1> QED
  BY <1>3, <1>4

\* Each step of the call keeps the invariant of the value.
LEMMA ValueKeepsInv ==
  ASSUME ValueTypeOK, Calling("uvm_polling_getValue32"), ValueStep
  PROVE  ValueInv'
<1>1. PICK chunk \in -1..MaxChunk : getValue32(chunk)
  BY DEF ValueStep
<1>2. CASE chunk < 0
  <2>0. ~(chunk >= 0)
    BY <1>2
  <2>1. frame' = [frame EXCEPT !.asked = chunk, !.ret = 0]
    BY <1>1, <2>0, Zenon DEF getValue32
  <2>2. DOMAIN frame' = DOMAIN frame /\ frame'.size = frame.size /\ frame'.ret = 0
    BY <2>1 DEF ValueTypeOK
  <2> QED
    BY <2>2 DEF ValueInv, ValueTypeOK, ValueExtended, size
<1>3. CASE chunk >= 0
  <2> DEFINE Word(v) == IF (chunk + 1) * ChunkWidth > size THEN Extended(v) ELSE v
  <2>0. ~(chunk < 0)
    BY <1>3
  <2>1. PICK v \in Vectors(ReadAs(chunk)) :
          frame' = [frame EXCEPT !.asked = chunk, !.ret = 1, !.result = Word(v)]
    BY <1>1, <2>0, Zenon DEF getValue32
  <2>2. chunk \in Nat
    BY <1>3, ValueAssumption
  <2>3. ASSUME chunk * ChunkWidth < size
        PROVE  Shows(Word(v).aval, chunk, {"1", "x"}) /\ Shows(Word(v).bval, chunk, {"z", "x"})
    BY <2>2, <2>3, ChunkExtends DEF ValueTypeOK
  <2> HIDE DEF Word
  <2>4. /\ DOMAIN frame' = DOMAIN frame /\ frame'.size = frame.size
        /\ frame'.value = frame.value /\ frame'.isSigned = frame.isSigned
        /\ frame'.asked = chunk /\ frame'.result = Word(v)
    BY <2>1 DEF ValueTypeOK
  <2>5. \A i : ExtendedBit(i)' = ExtendedBit(i)
    BY <2>4 DEF ExtendedBit, size
  <2>6. ValueExtended'
    BY <2>3, <2>4, <2>5 DEF ValueExtended, Shows, ExtendedBit, size
  <2> QED
    BY <2>4, <2>6 DEF ValueInv, ValueTypeOK, size
<1> QED
  BY <1>1, <1>2, <1>3 DEF getValue32

\* A value is asked for a signal of at least one bit, and nothing is returned yet.
LEMMA ValueInit ==
  ASSUME frame \in ValueFrames
  PROVE  ValueInv
<1>1. PICK n \in 1..MaxSize :
        frame \in {[of |-> "uvm_polling_getValue32", size |-> n, isSigned |-> signed, value |-> v,
                    asked |-> -1, result |-> [aval |-> {}, bval |-> {}], ret |-> 0] :
                     v \in [0..(n - 1) -> Logic], signed \in BOOLEAN}
  BY DEF ValueFrames
<1>2. PICK v \in [0..(n - 1) -> Logic], signed \in BOOLEAN :
        frame = [of |-> "uvm_polling_getValue32", size |-> n, isSigned |-> signed, value |-> v,
                 asked |-> -1, result |-> [aval |-> {}, bval |-> {}], ret |-> 0]
  BY <1>1
<1>3. ValueTypeOK
  BY <1>2, ValueAssumption DEF ValueTypeOK, size
<1> QED
  BY <1>2, <1>3 DEF ValueInv, ValueExtended

\* "reads bits [32*chunk+:32] ... zero-extended if the signal is unsigned, and
\* sign-extended in the standard Verilog 4-state way if the signal is signed"
\* (uvm_hdl_polling.c:96-102): for signals and chunks of every width.
THEOREM ValueExtendedCorrect == Spec => []ValueExtended
<1> DEFINE Inv == Named /\ (Calling("uvm_polling_getValue32") => ValueInv)
<1>1. Init => Inv
  BY CallInit, ValueInit
<1>2. Inv /\ [Next]_frame => Inv'
  <2> SUFFICES ASSUME Inv, [Next]_frame, Calling("uvm_polling_getValue32")' PROVE ValueInv'
    BY CallStays
  <2>1. Calling("uvm_polling_getValue32")
    BY CallStays DEF Calling
  <2>2. ValueInv /\ (ValueStep \/ UNCHANGED frame)
    BY <2>1, CallStays
  <2>3. CASE UNCHANGED frame
    BY <2>2, <2>3 DEF ValueInv, ValueTypeOK, ValueExtended, ExtendedBit, size, Calling
  <2> QED
    BY <2>1, <2>2, <2>3, ValueKeepsInv DEF ValueInv
<1>3. Inv => ValueExtended
  BY DEF ValueInv, ValueExtended
<1> QED
  BY <1>1, <1>2, <1>3, PTL DEF Spec
=============================================================================
