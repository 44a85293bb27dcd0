---------------------------- MODULE UvmGlobMatch ----------------------------
(***************************************************************************)
(* uvm_re_match without DPI (dpi/uvm_regex.svh:94-145), which is what the  *)
(* build of this repository runs for every look-up in the configuration    *)
(* database, the resource pool and the factory: one step for each turn of  *)
(* its three loops, with s, e and the place to go back to.                 *)
(***************************************************************************)
EXTENDS Globs, DpiCall

CONSTANTS
  PatternChars, MaxPattern,
  StringChars, MaxString

\* A character 0 ends a string, and getc answers it behind the end.
ASSUME LengthsAssumption ==
  MaxPattern \in Nat /\ MaxString \in Nat /\ "0" \notin PatternChars \cup StringChars

Texts(C, n) == UNION {[1..k -> C] : k \in 0..n}

\* asked, str: the arguments; re: what is left of the pattern behind a ^;
\* loop: "enter", the three loops "lead", "star" and "rest", or "returned".
MatchFrames ==
  {[of |-> "uvm_re_match", asked |-> p, str |-> t, re |-> <<>>,
    e |-> 0, s |-> 0, es |-> 0, ss |-> 0, loop |-> "enter", ret |-> 1] :
     p \in Texts(PatternChars, MaxPattern), t \in Texts(StringChars, MaxString)}

In(l) == Calling("uvm_re_match") /\ frame.loop = l

\* getc, with the index of the source; behind the end it is 0.
Getc(q, i)  == IF i < Len(q) THEN q[i + 1] ELSE "0"
PatternChar == Getc(frame.re, frame.e)
StringChar  == Getc(frame.str, frame.s)
StringEnds  == frame.s = Len(frame.str)
Same        == PatternChar \in {StringChar, "?"}

Return(r) == frame' = [frame EXCEPT !.loop = "returned", !.ret = r]

Enter ==
  /\ In("enter")
  /\ \/ frame.asked = <<>> /\ Return(0)
     \/ /\ frame.asked # <<>>
        /\ frame' = [frame EXCEPT
             !.re = IF frame.asked[1] = "^" THEN Tail(frame.asked) ELSE frame.asked,
             !.loop = "lead"]

\* As far as the first *.
Lead ==
  /\ In("lead")
  /\ \/ ~StringEnds /\ PatternChar # "*" /\ ~Same /\ Return(1)
     \/ /\ ~StringEnds /\ PatternChar # "*" /\ Same
        /\ frame' = [frame EXCEPT !.e = @ + 1, !.s = @ + 1]
     \/ /\ StringEnds \/ PatternChar = "*"
        /\ frame' = [frame EXCEPT !.loop = "star"]

\* A * is matched with nothing first; ss is where its next attempt starts.
MeetStar ==
  /\ In("star") /\ ~StringEnds /\ PatternChar = "*"
  /\ IF frame.e + 1 = Len(frame.re)
     THEN Return(0)
     ELSE frame' = [frame EXCEPT !.e = @ + 1, !.es = frame.e + 1, !.ss = frame.s + 1]

Advance ==
  /\ In("star") /\ ~StringEnds /\ PatternChar # "*" /\ Same
  /\ frame' = [frame EXCEPT !.e = @ + 1, !.s = @ + 1]

Fault_GoBack ==                        \* s = ss++ without the increment
  /\ In("star") /\ ~StringEnds /\ PatternChar # "*" /\ ~Same
  /\ frame' = [frame EXCEPT !.e = frame.es, !.s = frame.ss]
GoBack ==
  /\ In("star") /\ ~StringEnds /\ PatternChar # "*" /\ ~Same
  /\ frame' = [frame EXCEPT !.e = frame.es, !.s = frame.ss, !.ss = @ + 1]

StringOver ==
  /\ In("star") /\ StringEnds
  /\ frame' = [frame EXCEPT !.loop = "rest"]

Fault_Rest ==                          \* only one * is passed over
  /\ In("rest")
  /\ Return(IF frame.e >= Len(frame.re) - 1 /\ PatternChar \in {"*", "0"} THEN 0 ELSE 1)
Rest ==
  /\ In("rest")
  /\ IF PatternChar = "*"
     THEN frame' = [frame EXCEPT !.e = @ + 1]
     ELSE Return(IF frame.e = Len(frame.re) THEN 0 ELSE 1)

MatchStep == Enter \/ Lead \/ MeetStar \/ Advance \/ GoBack \/ StringOver \/ Rest

-----------------------------------------------------------------------------
(* Properties. *)

\* The answer is 0 exactly for the strings that the pattern without its ^ means;
\* the empty pattern is for every string (uvm_regex.svh:94-145).
MatchesGlob ==
  In("returned") =>
    LET p == frame.asked
    IN frame.ret = 0 <=> p = <<>> \/ Glob(IF p[1] = "^" THEN Tail(p) ELSE p, frame.str)

\* Going back never loops: every match returns.
Returns == Calling("uvm_re_match") ~> In("returned")
=============================================================================
