----------------------------- MODULE HdlSignal -----------------------------
(***************************************************************************)
(* What the backdoor access routines of the three simulators (uvm_hdl_     *)
(* xcelium.c, uvm_hdl_questa.c, uvm_hdl_vcs.c) work on: one signal of the  *)
(* design, paths into it, and the simulator's own way of putting a value   *)
(* (vpi_put_value, vhpi_put_value, mti_ForceSignal), which is external.    *)
(*                                                                         *)
(* A uvm_hdl_data_t is a function from bit positions to logic values; "x"  *)
(* stands for x and z.                                                     *)
(***************************************************************************)
EXTENDS Integers, FiniteSets

CONSTANTS
  Size,            \* bits of the signal, declared [Size-1:0]
  MaxWidth,        \* UVM_HDL_MAX_WIDTH
  Calls,           \* the calls that are made: [op, path, value]
  DesignValues     \* what the design assigns to its signal

Index == 0..(Size - 1)
Logic == {"0", "1", "x"}
Data  == [0..(MaxWidth - 1) -> Logic]
Ops   == {"check_path", "read", "deposit", "force", "release", "release_and_read"}
Path  == [kind : {"whole", "bit", "slice", "nowhere"}, lhs : Nat, rhs : Nat]

ASSUME SizesAssumption ==
  /\ Size \in Nat \ {0} /\ MaxWidth \in Nat \ {0}
  /\ Calls \subseteq [op : Ops, path : Path, value : Data]
  /\ DesignValues \subseteq [Index -> Logic]

VARIABLES
  sig,             \* the value of the signal
  forced,          \* the bits that are forced
  call,            \* the last call, its answer and what its value became
  ended            \* the simulation has been ended, or has crashed

signalVars == <<sig, forced, call, ended>>

\* The bit of the signal behind each bit of the value.
Places(p) ==
  CASE p.kind = "whole"   -> [k \in Index |-> k]
    [] p.kind = "bit"     -> [k \in {0} |-> p.lhs]
    [] p.kind = "slice"   -> IF p.lhs > p.rhs
                             THEN [k \in 0..(p.lhs - p.rhs) |-> p.rhs + k]
                             ELSE [k \in 0..(p.rhs - p.lhs) |-> p.rhs - k]
    [] p.kind = "nowhere" -> [k \in {} |-> 0]

Exists(p) == p.kind # "nowhere" /\ \A k \in DOMAIN Places(p) : Places(p)[k] \in Index
Width(p)  == Cardinality(DOMAIN Places(p))

\* The bits a loop over single bits gets to before one is missing.
Reached(p) == {k \in DOMAIN Places(p) : \A j \in 0..k : Places(p)[j] \in Index}

\* What may be written to the places K of a path: the bits of the value and,
\* where the signal is wider than that, whatever follows it in memory.
Written(p, K, v) ==
  {f \in [{Places(p)[k] : k \in K} -> Logic] :
     \A k \in K : k < MaxWidth => f[Places(p)[k]] = v[k]}

\* The simulator puts the bits f.  The signal is a reg: released, it keeps its
\* value until the design assigns to it.
PutValue(flag, f) ==
  /\ sig' = [i \in Index |->
               IF /\ i \in DOMAIN f
                  /\ flag = "force" \/ (flag = "deposit" /\ i \notin forced)
               THEN f[i] ELSE sig[i]]
  /\ forced' = CASE flag = "force"   -> forced \cup DOMAIN f
                 [] flag = "release" -> forced \ DOMAIN f
                 [] OTHER            -> forced

NoPut == UNCHANGED <<sig, forced>>

Answer(c, ret, value) ==
  call' = [op |-> c.op, path |-> c.path, value |-> value, ret |-> ret]

NoCall == [op |-> "none", ret |-> 0,
           path |-> [kind |-> "nowhere", lhs |-> 0, rhs |-> 0],
           value |-> [k \in 0..(MaxWidth - 1) |-> "0"]]

\* The caller has seen the answer.
GoOn ==
  /\ call # NoCall
  /\ call' = NoCall
  /\ UNCHANGED <<sig, forced, ended>>

\* The design assigns to its signal between two calls, which take no time;
\* forced bits do not follow.
DesignWrites ==
  /\ call = NoCall /\ ~ended
  /\ \E d \in DesignValues :
       sig' = [i \in Index |-> IF i \in forced THEN sig[i] ELSE d[i]]
  /\ UNCHANGED <<forced, call, ended>>

Testbench == GoOn \/ DesignWrites

SignalInit ==
  /\ sig \in DesignValues
  /\ forced = {}
  /\ call = NoCall
  /\ ended = FALSE

SignalTypeOK ==
  /\ sig \in [Index -> Logic]
  /\ forced \subseteq Index
  /\ call.op \in Ops \cup {"none"} /\ call.path \in Path
  /\ call.value \in Data /\ call.ret \in {0, 1}
  /\ ended \in BOOLEAN

\* A value holds what the signal has at the path.
Agrees(value, p) ==
  \A k \in DOMAIN Places(p) : k < MaxWidth => value[k] = sig[Places(p)[k]]
=============================================================================
