----------------------------- MODULE HdlQuesta -----------------------------
(***************************************************************************)
(* Backdoor access in Questa (uvm_hdl_questa.c).  A path whose name, less  *)
(* its bit select, is a VHDL signal goes through the FLI, by way of        *)
(* strings of '0', '1', 'x', most significant bit first; any other through *)
(* VPI, a slice bit by bit.                                                *)
(***************************************************************************)
EXTENDS HdlSignal

CONSTANTS
  Lang,            \* "vlog" or "vhdl"
  ChunkWidth       \* bits of an s_vpi_vecval: 32

VARIABLE partsel                       \* the static flag: a slice is being read

uvm_is_vhdl_path(p) == Lang = "vhdl" /\ p.kind # "nowhere"

Chunks(width) == (width - 1) \div ChunkWidth + 1

-----------------------------------------------------------------------------
(* VPI. *)

\* Also for a slice, whose bits are put one by one until one is missing.
VlogBits(p, v) == Written(p, Reached(p), v)

VlogAnswer(p) == IF Exists(p) THEN 1 ELSE 0

set_vlog(c, flag) ==
  /\ \E f \in VlogBits(c.path, c.value) : PutValue(flag, f)
  /\ Answer(c, VlogAnswer(c.path), c.value)
  /\ UNCHANGED partsel

\* All chunks but the last are cleared, unless a slice is being read.
Cleared(v) ==
  [k \in DOMAIN v |->
     IF ~partsel /\ k < (Chunks(MaxWidth) - 1) * ChunkWidth THEN "0" ELSE v[k]]

\* A slice is gathered bit by bit; behind the last bit that is there, the one
\* before it is repeated.
Gathered(p, v) ==
  LET next == Cardinality(Reached(p)) IN
  [k \in DOMAIN v |->
     CASE k \in Reached(p) -> sig[Places(p)[k]]
       [] k = next /\ k \in DOMAIN Places(p) ->
            IF k = 0 THEN "0" ELSE sig[Places(p)[k - 1]]
       [] OTHER -> v[k]]

get_vlog_partsel(c, p) ==
  /\ Answer(c, VlogAnswer(p), Gathered(p, Cleared(c.value)))
  /\ partsel' = ~Exists(p)             \* a bit that is missing leaves it set

Fault_Copied(p, v) ==                  \* dpi and vpi are reversed
  [k \in DOMAIN v |->
     IF k \in DOMAIN Places(p) THEN sig[Places(p)[Width(p) - 1 - k]]
     ELSE IF k < Chunks(Width(p)) * ChunkWidth THEN "0" ELSE v[k]]
Copied(p, v) ==
  [k \in DOMAIN v |->
     IF k \in DOMAIN Places(p) THEN sig[Places(p)[k]]
     ELSE IF k < Chunks(Width(p)) * ChunkWidth THEN "0" ELSE v[k]]

get_vlog_object(c, p) ==
  /\ IF Exists(p) /\ Width(p) <= MaxWidth
     THEN Answer(c, 1, Copied(p, Cleared(c.value)))
     ELSE Answer(c, 0, Cleared(c.value))
  /\ UNCHANGED partsel

get_vlog(c, p) ==
  \/ p.kind = "slice" /\ get_vlog_partsel(c, p)
  \/ p.kind # "slice" /\ get_vlog_object(c, p)

-----------------------------------------------------------------------------
(* FLI. *)

\* The string of n characters s fills the chunks from the first on.
string_to_vecval(s, n, v) ==
  [k \in DOMAIN v |->
     LET first == (k \div ChunkWidth) * ChunkWidth
         bits  == IF n - first < ChunkWidth THEN n - first ELSE ChunkWidth
     IN IF k - first < bits THEN s[first + bits - 1 - (k % ChunkWidth)]
        ELSE IF k < Chunks(n) * ChunkWidth THEN "0" ELSE v[k]]

\* The characters for a path: behind the ends of the signal, whatever is in
\* memory there.
Characters(p) ==
  {s \in [0..(Width(p) - 1) -> Logic] :
     \A j \in DOMAIN s : LET place == Places(p)[Width(p) - 1 - j]
                         IN place \in Index => s[j] = sig[place]}

get_vhdl(c) ==
  /\ \E s \in Characters(c.path) :
       Answer(c, 1, string_to_vecval(s, Width(c.path), c.value))
  /\ UNCHANGED partsel

TwoValued(b) == IF b = "1" THEN "1" ELSE "0"

\* The bits of a slice, from the low end of the value.
SliceBits(p, v) ==
  {f \in [{Places(p)[k] : k \in DOMAIN Places(p)} \cap Index -> {"0", "1"}] :
     \A k \in DOMAIN Places(p) :
       Places(p)[k] \in Index /\ k < MaxWidth /\ k < Size => f[Places(p)[k]] = TwoValued(v[k])}

\* A single bit, from its own position in the value.
SingleBit(p, v) ==
  {f \in [{p.lhs} \cap Index -> {"0", "1"}] :
     p.lhs \in Index /\ p.lhs < MaxWidth => f[p.lhs] = TwoValued(v[p.lhs])}

\* Parts of a signal are deposited, also when they are to be frozen.
PartFlag(flag) == IF flag = "release" THEN "release" ELSE "deposit"

set_vhdl(c, flag) ==
  /\ \/ /\ c.path.kind = "whole"
        /\ \E f \in Written(c.path, Index, c.value) : PutValue(flag, f)
     \/ /\ c.path.kind = "slice"
        /\ \E f \in SliceBits(c.path, c.value) : PutValue(PartFlag(flag), f)
     \/ /\ c.path.kind = "bit"
        /\ \E f \in SingleBit(c.path, c.value) : PutValue(PartFlag(flag), f)

-----------------------------------------------------------------------------
(* The functions that SystemVerilog imports. *)

uvm_hdl_check_path(c) ==
  /\ c.op = "check_path"
  /\ Answer(c, IF uvm_is_vhdl_path(c.path) \/ Exists(c.path) THEN 1 ELSE 0, c.value)
  /\ NoPut /\ UNCHANGED partsel

uvm_hdl_read(c) ==
  /\ c.op = "read"
  /\ IF uvm_is_vhdl_path(c.path) THEN get_vhdl(c) ELSE get_vlog(c, c.path)
  /\ NoPut

Set(c, flag) ==
  IF uvm_is_vhdl_path(c.path)
  THEN set_vhdl(c, flag) /\ Answer(c, 1, c.value) /\ UNCHANGED partsel
  ELSE set_vlog(c, flag)

uvm_hdl_deposit(c) == c.op = "deposit" /\ Set(c, "deposit")
uvm_hdl_force(c)   == c.op = "force" /\ Set(c, "force")
uvm_hdl_release(c) == c.op = "release" /\ Set(c, "release")

\* In Verilog, the path of a slice is that of its last bit when it is read.
LastBit(p) == IF p.kind = "slice" THEN [kind |-> "bit", lhs |-> p.lhs, rhs |-> 0] ELSE p

uvm_hdl_release_and_read(c) ==
  /\ c.op = "release_and_read"
  /\ \/ uvm_is_vhdl_path(c.path) /\ set_vhdl(c, "release") /\ get_vhdl(c)
     \/ /\ ~uvm_is_vhdl_path(c.path)
        /\ \E f \in VlogBits(c.path, c.value) : PutValue("release", f)
        /\ IF VlogAnswer(c.path) = 1
           THEN get_vlog(c, LastBit(c.path))
           ELSE Answer(c, 0, c.value) /\ UNCHANGED partsel

Call(c) ==
  /\ call = NoCall /\ ~ended
  /\ \/ uvm_hdl_check_path(c) \/ uvm_hdl_read(c) \/ uvm_hdl_deposit(c)
     \/ uvm_hdl_force(c) \/ uvm_hdl_release(c) \/ uvm_hdl_release_and_read(c)
  /\ UNCHANGED ended

Next ==
  \/ \E c \in Calls : Call(c)
  \/ Testbench /\ UNCHANGED partsel
=============================================================================
