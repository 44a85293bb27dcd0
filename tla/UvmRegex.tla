------------------------------ MODULE UvmRegex ------------------------------
(***************************************************************************)
(* Globs as POSIX regular expressions (dpi/uvm_regex.cc): uvm_re_deglobbed *)
(* with and without brackets, and the expression that uvm_re_comp hands to *)
(* regcomp.  Texts are sequences of the characters that the conversion     *)
(* tells apart; "\\" is one character.                                     *)
(***************************************************************************)
EXTENDS Globs, DpiCall, FiniteSets, SequencesExt

CONSTANTS
  Chars,           \* characters of globs
  MaxGlob,         \* characters in a glob
  MaxLengths,      \* what UVM_REGEX_MAX_LENGTH may be
  Strings          \* strings to match

\* 2048 in the code, which is enough for the expression of an empty glob.
ASSUME RegexLengths == MaxGlob \in Nat /\ \A m \in MaxLengths : m \in Nat /\ m >= 4
\* C strings, which end.
ASSUME StringsAssumption == \A t \in Strings : Len(t) \in Nat

Bracketed(g) == g # <<>> /\ g[1] = "/" /\ Last(g) = "/"
Inner(g)     == SubSeq(g, 2, Len(g) - 1)

Meta(c) == c \in {"*", "+", ".", "[", "]", "(", ")"}
Fault_Expand(c) ==                     \* the . of a glob is left as it is
  CASE c \in {"*", "+"}           -> <<".", c>>
    [] c \in {"[", "]", "(", ")"} -> <<"\\", c>>
    [] c = "?"                    -> <<".">>
    [] OTHER                      -> <<c>>
Expand(c) ==
  CASE c \in {"*", "+"}                -> <<".", c>>
    [] c \in {".", "[", "]", "(", ")"} -> <<"\\", c>>
    [] c = "?"                         -> <<".">>
    [] OTHER                           -> <<c>>

\* The glob between ^ and $, neither of them twice.
Anchored(g) ==
  LET body == (IF g[1] = "^" THEN <<>> ELSE <<"^">>)
                \o FlattenSeq([i \in DOMAIN g |-> Expand(g[i])])
  IN IF Last(body) = "$" THEN body ELSE body \o <<"$">>

\* What glob_len has counted when the buffer is filled, the final 0 included.
Fault_Counted(g, with_brackets) ==     \* expansions are not counted
  Len(g) + (IF with_brackets THEN 2 ELSE 0) + 1
Counted(g, with_brackets) ==
  Len(g) + 2 * Cardinality({i \in DOMAIN g : Meta(g[i])})
    + (IF g[1] = "^" THEN 0 ELSE 1) + (IF Last(g) = "$" THEN 0 ELSE 1)
    + (IF with_brackets THEN 2 ELSE 0) + 1

Wrap(r, with_brackets) == IF with_brackets THEN <<"/">> \o r \o <<"/">> ELSE r

TooLong(g, with_brackets) ==
  /\ g # <<>> /\ g # <<"/">>
  /\ frame.limit < IF Bracketed(g) THEN Len(g) ELSE Counted(g, with_brackets)

Fault_uvm_re_deglobbed(g, with_brackets) ==   \* brackets are not looked for
  IF g = <<>> \/ g = <<"/">> THEN Wrap(<<"^", "$">>, with_brackets)
  ELSE Wrap(Anchored(g), with_brackets)
uvm_re_deglobbed(g, with_brackets) ==
  IF g = <<>> \/ g = <<"/">> THEN Wrap(<<"^", "$">>, with_brackets)
  ELSE IF Bracketed(g) THEN (IF with_brackets THEN g ELSE Inner(g))
  ELSE Wrap(Anchored(g), with_brackets)

\* What uvm_re_comp compiles.  Without deglob it takes a text of one / for
\* bracketed and copies -1 characters: not among its inputs here.
uvm_re_comp(re, deglob) ==
  IF deglob = 1 THEN uvm_re_deglobbed(re, FALSE)
  ELSE IF Bracketed(re) THEN Inner(re) ELSE re

-----------------------------------------------------------------------------
(* uvm_glob_to_re, and the use of its result as a pattern: how a resource  *)
(* made with a scope gets to match it (base/uvm_resource_base.svh:389).    *)

\* step: "asked", "bracketed", then "plain" when the result was used; buffer:
\* the static buffer, written anew by each call; failed: the call returned NULL,
\* or would not compile.
ConvertFrames ==
  {[of |-> "uvm_glob_to_re", limit |-> m, glob |-> g,
    step |-> "asked", buffer |-> <<>>, failed |-> FALSE] :
     m \in MaxLengths, g \in UNION {[1..n -> Chars] : n \in 0..MaxGlob}}

At(step) == Calling("uvm_glob_to_re") /\ frame.step = step

Convert(step, text, with_brackets, result) ==
  frame' = [frame EXCEPT !.step = step,
                         !.failed = TooLong(text, with_brackets),
                         !.buffer = IF TooLong(text, with_brackets) THEN <<>> ELSE result]

uvm_glob_to_re ==
  /\ At("asked")
  /\ Convert("bracketed", frame.glob, TRUE, uvm_re_deglobbed(frame.glob, TRUE))

uvm_is_match ==
  /\ At("bracketed") /\ ~frame.failed
  /\ Convert("plain", frame.buffer, FALSE, uvm_re_comp(frame.buffer, 1))

ConvertStep == uvm_glob_to_re \/ uvm_is_match

-----------------------------------------------------------------------------
(* Properties. *)

\* regexec of an expression of characters, any (.), escapes, anchors, * and +
\* (POSIX; external).  The item that stands behind the first i characters of r:
\* whether it takes the character c, where it ends, how often it is repeated,
\* and where the next item begins.
Escape(r, i)   == r[i + 1] = "\\"
Takes(r, i, c) == IF Escape(r, i) THEN r[i + 2] = c ELSE r[i + 1] \in {".", c}
Behind(r, i)   == i + (IF Escape(r, i) THEN 2 ELSE 1)
Repeats(r, i)  == Behind(r, i) < Len(r) /\ r[Behind(r, i) + 1] \in {"*", "+"}
Often(r, i, n) == IF Repeats(r, i) THEN r[Behind(r, i) + 1] = "+" => n > 0 ELSE n = 1
Past(r, i)     == Behind(r, i) + (IF Repeats(r, i) THEN 1 ELSE 0)

\* The places of t behind which what follows the first i characters of r finds
\* a text, for each i.
Finds(r, t) ==
  LET finds[i \in 0..Len(r)] ==
        IF i = Len(r) THEN 0..Len(t)
        ELSE IF r[i + 1] = "^" THEN {0} \cap finds[i + 1]
        ELSE IF r[i + 1] = "$" THEN {Len(t)} \cap finds[i + 1]
        ELSE {j \in 0..Len(t) : \E k \in j..Len(t) :
                /\ Often(r, i, k - j) /\ \A l \in (j + 1)..k : Takes(r, i, t[l])
                /\ k \in finds[Past(r, i)]}
  IN finds

RegexFinds(r, t) == Finds(r, t)[0] # {}

\* A glob without its anchors; within, they are not characters of a glob.
Unanchored(g) ==
  LET front == IF g # <<>> /\ g[1] = "^" THEN Tail(g) ELSE g
  IN IF front # <<>> /\ Last(front) = "$" THEN SubSeq(front, 1, Len(front) - 1) ELSE front
IsGlob(g) ==
  /\ ~Bracketed(g)
  /\ \A i \in DOMAIN Unanchored(g) : Unanchored(g)[i] \notin {"^", "$"}

\* Through both conversions, a glob finds the strings it means, and no others;
\* so does the Verilog version (UvmGlobMatch), for globs without a +.
FindsWhatIsMeant ==
  At("plain") /\ ~frame.failed /\ IsGlob(frame.glob) =>
    \A t \in Strings : RegexFinds(frame.buffer, t) <=> Glob(Unanchored(frame.glob), t)

\* The result of uvm_glob_to_re is a pattern again: converted once more, or
\* compiled as an expression, it is what the glob alone is converted to.
ConvertsOnce ==
  At("bracketed") /\ ~frame.failed =>
    /\ uvm_re_deglobbed(frame.buffer, TRUE) = frame.buffer
    /\ \A deglob \in {0, 1} : uvm_re_comp(frame.buffer, deglob) = uvm_re_comp(frame.glob, 1)

\* Whatever is accepted fits the buffer with its final 0, and is accepted again
\* when it is used.
Fits ==
  Calling("uvm_glob_to_re") =>
    /\ ~frame.failed => Len(frame.buffer) < frame.limit + 4
    /\ frame.step = "plain" => ~frame.failed
=============================================================================
