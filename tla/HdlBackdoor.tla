---------------------------- MODULE HdlBackdoor -----------------------------
(***************************************************************************)
(* A testbench with one signal, of either language, in one of the builds   *)
(* of the UVM library: the routines of uvm_hdl_xcelium.c, uvm_hdl_questa.c *)
(* or uvm_hdl_vcs.c behind the six functions that uvm_hdl.svh imports.     *)
(***************************************************************************)
EXTENDS HdlSignal

CONSTANTS
  ChunkWidth,
  CallsIn          \* the calls that are made in each build that is tried

VARIABLES
  build,           \* chosen when the library is compiled
  partsel          \* Questa's static flag

vars == <<signalVars, build, partsel>>

Builds == {"xcelium_vlog", "xcelium_vhdl", "questa_vlog", "questa_vhdl",
           "vcs_plain", "vcs_array", "vcs_mixed", "vcs_fast", "vcs_denied"}

ASSUME CallsAssumption ==
  DOMAIN CallsIn \subseteq Builds /\ \A b \in DOMAIN CallsIn : CallsIn[b] \subseteq Calls

ASSUME WidthsAssumption == ChunkWidth \in Nat \ {0} /\ Size <= MaxWidth

\* The calls that do what they say in a build; what the others do instead is
\* in the README, "Divergences".
Straight(b, c) ==
  LET slice == c.path.kind = "slice"
      sets  == c.op \in {"deposit", "force"} /\ Exists(c.path)
  IN /\ b \in {"xcelium_vlog", "questa_vlog"} => ~(c.op = "release_and_read" /\ slice)
     /\ b = "xcelium_vhdl" => ~slice
     /\ b = "questa_vhdl" =>
          /\ c.path.kind # "nowhere" => Exists(c.path)
          /\ sets /\ c.path.kind # "whole" =>
               /\ c.op = "deposit" /\ slice
               /\ \A k \in DOMAIN Places(c.path) : k < MaxWidth => c.value[k] # "x"
     /\ b \in {"vcs_mixed", "vcs_fast"} =>
          /\ c.op # "release_and_read"
          /\ sets => \A k \in 0..(MaxWidth - 1) :
                       c.value[k] # "x" /\ (k >= Width(c.path) => c.value[k] = "0")

ASSUME StraightAssumption == \A b \in DOMAIN CallsIn : \A c \in CallsIn[b] : Straight(b, c)

\* A VHDL object fits into a chunk, but for strings of digits.
XceliumVlog == INSTANCE HdlXcelium WITH Lang <- "vlog", Calls <- CallsIn["xcelium_vlog"]
XceliumVhdl == INSTANCE HdlXcelium WITH Lang <- "vhdl", Calls <- CallsIn["xcelium_vhdl"],
                                        ChunkWidth <- MaxWidth
QuestaVlog == INSTANCE HdlQuesta WITH Lang <- "vlog", Calls <- CallsIn["questa_vlog"]
QuestaVhdl == INSTANCE HdlQuesta WITH Lang <- "vhdl", Calls <- CallsIn["questa_vhdl"],
                                      ChunkWidth <- MaxWidth
VcsPlain == INSTANCE HdlVcs WITH
  Build <- "plain", Lang <- "vlog", Prefill <- FALSE, Object <- "vector",
  Calls <- CallsIn["vcs_plain"]
VcsArray == INSTANCE HdlVcs WITH
  Build <- "plain", Lang <- "vlog", Prefill <- FALSE, Object <- "array",
  Calls <- CallsIn["vcs_array"]
VcsMixed == INSTANCE HdlVcs WITH
  Build <- "mixed", Lang <- "vhdl", Prefill <- FALSE, Object <- "vector",
  Calls <- CallsIn["vcs_mixed"]
VcsFast == INSTANCE HdlVcs WITH
  Build <- "fast", Lang <- "vhdl", Prefill <- TRUE, Object <- "vector",
  Calls <- CallsIn["vcs_fast"], ChunkWidth <- MaxWidth
VcsDenied == INSTANCE HdlVcs WITH
  Build <- "mixed", Lang <- "vlog", Prefill <- TRUE, Object <- "no_access",
  Calls <- CallsIn["vcs_denied"]

Init == build \in DOMAIN CallsIn /\ SignalInit /\ partsel = FALSE

Xcelium ==
  \/ build = "xcelium_vlog" /\ XceliumVlog!Next
  \/ build = "xcelium_vhdl" /\ XceliumVhdl!Next

Questa ==
  \/ build = "questa_vlog" /\ QuestaVlog!Next
  \/ build = "questa_vhdl" /\ QuestaVhdl!Next

Vcs ==
  \/ build = "vcs_plain"  /\ VcsPlain!Next
  \/ build = "vcs_array"  /\ VcsArray!Next
  \/ build = "vcs_mixed"  /\ VcsMixed!Next
  \/ build = "vcs_fast"   /\ VcsFast!Next
  \/ build = "vcs_denied" /\ VcsDenied!Next

Next ==
  \/ Xcelium /\ UNCHANGED <<build, partsel>>
  \/ Questa /\ UNCHANGED build
  \/ Vcs /\ UNCHANGED <<build, partsel>>

Spec == Init /\ [][Next]_vars

-----------------------------------------------------------------------------
(* Properties. *)

\* State and answers are in their range; no call ends the simulation but
\* Xcelium's, for a name that is not found.
TypeOK ==
  /\ SignalTypeOK /\ partsel \in BOOLEAN
  /\ ended => build \in {"xcelium_vlog", "xcelium_vhdl"} /\ ~Exists(call.path)

\* Deposit, force, release and read do to the bits of the path what
\* uvm_hdl.svh:73-143 says, if they return 1, and touch no other bit whatever
\* they return.
Promise == INSTANCE HdlAccess
KeepsPromise == Promise!Spec

\* Where the simulator gives access to the object, a call succeeds if its path
\* exists, to the last bit, and else fails (uvm_hdl_xcelium.c:559-687,
\* uvm_hdl_questa.c:861-955, uvm_hdl_vcs.c:1025-1487).
FoundMeansDone ==
  call.op # "none" /\ build \notin {"vcs_array", "vcs_denied"} =>
    (call.ret = 1 <=> Exists(call.path))
=============================================================================
