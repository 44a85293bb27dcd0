--------------------------- MODULE MCHdlBackdoor ----------------------------
(***************************************************************************)
(* Calls of the backdoor access routines on a signal s of three bits, with *)
(* values of four, in chunks of two.  Left out, build by build, are the    *)
(* calls that do not do what they say (README, "Divergences").             *)
(***************************************************************************)
EXTENDS HdlBackdoor

At(kind, l, r) == [kind |-> kind, lhs |-> l, rhs |-> r]
Whole   == At("whole", 0, 0)
Nowhere == At("nowhere", 0, 0)
Bits    == {At("bit", i, 0) : i \in {1, 3}}             \* s[3] is not there
Up      == {At("slice", 2, 1)}
Down    == {At("slice", 0, 2), At("slice", 1, 1)}
Beyond  == {At("slice", 3, 1), At("slice", 2, 3)}       \* in part, and from the start
Slices  == Up \cup Down \cup Beyond
Simple  == {Whole, Nowhere} \cup Bits

Value(a, b, c, d) ==
  [k \in 0..3 |-> CASE k = 0 -> a [] k = 1 -> b [] k = 2 -> c [] OTHER -> d]
Past     == Value("1", "0", "x", "1")                   \* what a value held before
Patterns == {Value("0", "1", "1", "0"), Past}
TwoState == {Value("0", "1", "1", "0"), Value("1", "0", "0", "1")}
Low      == {Value("0", "1", "1", "0"), Value("1", "0", "0", "0"), Value("1", "1", "1", "0")}
LowTwo   == {Value("0", "1", "0", "0"), Value("1", "1", "0", "0")}

Made(ops, paths, values) == [op : ops, path : paths, value : values]

Setting(paths) == Made({"deposit", "force"}, paths, Patterns)
Asking(paths)  == Made({"check_path", "release", "read"}, paths, {Past})
Both(paths)    == Made({"release_and_read"}, paths, {Past})

\* Slices are not released and read at once.
SlicedCalls   == Setting(Simple \cup Slices) \cup Asking(Simple \cup Slices) \cup Both(Simple)
UnslicedCalls == Setting(Simple) \cup Asking(Simple) \cup Both(Simple)

\* Parts of VHDL signals are not forced, and single bits not set.
QuestaVhdlCalls ==
  LET parts == {At("bit", 1, 0)} \cup Up \cup Down
  IN Setting({Whole, Nowhere}) \cup Made({"deposit"}, Up \cup Down, TwoState)
       \cup Asking(parts \cup {Whole, Nowhere}) \cup Both(parts \cup {Whole, Nowhere})

\* The simulator takes slices apart itself.
VcsPaths == Simple \cup Up \cup Down
VcsCalls == Setting(VcsPaths) \cup Asking(VcsPaths) \cup Both(VcsPaths)

\* Values without a 1 above the bits of the path, and no release_and_read.
MhdlCalls ==
  Made({"deposit", "force"}, {Whole, Nowhere}, Low)
    \cup Made({"deposit", "force"}, {At("slice", 0, 1)}, LowTwo)
    \cup Asking(VcsPaths)

AllCallsIn ==
  [b \in Builds |->
     CASE b \in {"xcelium_vlog", "questa_vlog"} -> SlicedCalls
       [] b = "xcelium_vhdl"                    -> UnslicedCalls
       [] b = "questa_vhdl"                     -> QuestaVhdlCalls
       [] b \in {"vcs_mixed", "vcs_fast"}       -> MhdlCalls
       [] OTHER                                 -> VcsCalls]

AllCalls == UNION {AllCallsIn[b] : b \in Builds}

ThreeBits == {[i \in 0..2 |-> "0"], [i \in 0..2 |-> IF i = 1 THEN "1" ELSE "x"]}
=============================================================================
