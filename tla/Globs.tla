-------------------------------- MODULE Globs --------------------------------
(***************************************************************************)
(* What a glob means, as a reference for the two implementations of        *)
(* uvm_is_match: * is any sequence, + any sequence but the empty one, ?    *)
(* any character, and every other character itself.                        *)
(***************************************************************************)
EXTENDS Integers, Sequences

\* The character c of a glob stands for t[j+1..k].
Spans(c, t, j, k) ==
  CASE c = "*" -> j <= k
    [] c = "+" -> j < k
    [] OTHER   -> k = j + 1 /\ c \in {"?", t[k]}

\* Where in t the first i characters of p may end, for each i.
Ends(p, t) ==
  LET ends[i \in 0..Len(p)] ==
        IF i = 0 THEN {0}
        ELSE {k \in 0..Len(t) : \E j \in ends[i - 1] : Spans(p[i], t, j, k)}
  IN ends

Glob(p, t) == Len(t) \in Ends(p, t)[Len(p)]
=============================================================================
