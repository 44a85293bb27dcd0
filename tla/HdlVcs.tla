------------------------------- MODULE HdlVcs -------------------------------
(***************************************************************************)
(* Backdoor access in VCS (uvm_hdl_vcs.c).  The simulator finds bits and   *)
(* slices itself.  The code is compiled in three ways:                     *)
(*   plain   Verilog alone, through VPI;                                   *)
(*   mixed   with VCSMX: Verilog through VPI, VHDL through strings of      *)
(*           digits, releases through the mixed-language interface;        *)
(*   fast    with VCSMX_FAST_UVM: as mixed, VHDL is read through VHPI.     *)
(* In each, PREFILL_ALL_BITS_WITH_ZERO may be defined.                     *)
(***************************************************************************)
EXTENDS HdlSignal

CONSTANTS
  ChunkWidth,      \* bits of an s_vpi_vecval: 32
  Lang,            \* "vlog" or "vhdl"
  Build,           \* "plain", for Verilog alone, "mixed" or "fast"
  Prefill,         \* PREFILL_ALL_BITS_WITH_ZERO
  Object           \* "vector", "array" (not a type that is supported) or
                   \* "no_access" (the simulator reports an error)

Chunks(width) == (width - 1) \div ChunkWidth + 1
Prefilled(v)  == IF Prefill THEN [k \in DOMAIN v |-> "0"] ELSE v

Fault_Refuse(c, value) == NoPut /\ Answer(c, 1, value)   \* reported, answered 1
Refuse(c, value) == NoPut /\ Answer(c, 0, value)

-----------------------------------------------------------------------------
(* Verilog. *)

\* vpi_get_value, and the copy of as many chunks as the object has.
Fault_Copied(p, v) ==                  \* the simulator's vector is handed out
  [k \in DOMAIN Places(p) |-> sig[Places(p)[k]]]
Copied(p, v) ==
  [k \in DOMAIN v |->
     IF k \in DOMAIN Places(p) THEN sig[Places(p)[k]]
     ELSE IF k < Chunks(Width(p)) * ChunkWidth THEN "0" ELSE v[k]]

\* vpi_put_value; releasing, it answers with the value.
PutObject(c, flag) ==
  /\ \E f \in Written(c.path, DOMAIN Places(c.path), c.value) : PutValue(flag, f)
  /\ Answer(c, 1, IF flag = "release" THEN Copied(c.path, c.value) ELSE c.value)

Accepted(p) == Exists(p) /\ Object = "vector"

set_vlog(c, flag) ==
  \/ Accepted(c.path) /\ PutObject(c, flag)
  \/ ~Accepted(c.path) /\ Refuse(c, c.value)

TooWide(p) == Width(p) > MaxWidth

get_vlog(c) ==
  /\ NoPut
  /\ IF ~Exists(c.path) \/ TooWide(c.path) THEN Answer(c, 0, c.value)
     ELSE IF Accepted(c.path) THEN Answer(c, 1, Copied(c.path, Prefilled(c.value)))
     ELSE Answer(c, 0, Prefilled(c.value))

-----------------------------------------------------------------------------
(* VHDL. *)

\* Digits shifted into each chunk, the topmost first: what the chunk held
\* moves up.
Shifted(p, v) ==
  [k \in DOMAIN v |->
     LET first == (k \div ChunkWidth) * ChunkWidth
         bits  == IF Width(p) - first < ChunkWidth THEN Width(p) - first ELSE ChunkWidth
     IN CASE k \in DOMAIN Places(p) -> sig[Places(p)[k]]
          [] first < Width(p) /\ k >= Width(p) -> v[k - bits]
          [] OTHER -> v[k]]

get_mhdl(c) ==
  IF TooWide(c.path) THEN Answer(c, 0, c.value)
  ELSE IF Object = "no_access" THEN Answer(c, 0, Prefilled(c.value))
  ELSE Answer(c, 1, Shifted(c.path, Prefilled(c.value)))

\* memset clears as many bytes as there are chunks, and a chunk is eight.
\* The vector fills the chunks from the first on, most significant bit first.
VhpiVector(p, v) ==
  [k \in DOMAIN v |->
     LET first == (k \div ChunkWidth) * ChunkWidth
         bits  == IF Width(p) - first < ChunkWidth THEN Width(p) - first ELSE ChunkWidth
         bit   == first + bits - 1 - (k % ChunkWidth)
     IN CASE k - first < bits -> sig[Places(p)[Width(p) - 1 - bit]]
          [] k < Chunks(Width(p)) * ChunkWidth /\ k - first >= bits -> "0"
          [] k < (Chunks(MaxWidth) \div 8) * ChunkWidth -> "0"
          [] OTHER -> v[k]]

get_vhpi(c) ==
  IF TooWide(c.path) THEN Answer(c, 0, c.value)
  ELSE Answer(c, 1, VhpiVector(c.path, c.value))

\* The digit for a bit is that of its aval: an x counts as 1, a z as 0.
Digits(v) == {d \in [DOMAIN v -> {"0", "1"}] : \A k \in DOMAIN v : v[k] # "x" => d[k] = v[k]}

\* The digits of the topmost chunk begin with the highest 1 of the chunk, and
\* no more are taken than the object has bits there.
TopShift(d, width) ==
  LET first == (Chunks(width) - 1) * ChunkWidth
      ones  == {j \in 0..(ChunkWidth - 1) : first + j \in DOMAIN d /\ d[first + j] = "1"}
      taken == width - first
  IN IF \E j \in ones : j >= taken
     THEN (CHOOSE j \in ones : \A i \in ones : i <= j) + 1 - taken
     ELSE 0

\* A string that is shorter than the object is filled with zeros (external).
MhdlBits(p, v) ==
  {[i \in {Places(p)[k] : k \in DOMAIN Places(p)} |->
      LET k == CHOOSE j \in DOMAIN Places(p) : Places(p)[j] = i
          first == (Chunks(Width(p)) - 1) * ChunkWidth
          from == IF k < first THEN k ELSE k + TopShift(d, Width(p))
      IN IF from \in DOMAIN d /\ (k < first \/ from < first + ChunkWidth) THEN d[from] ELSE "0"]
   : d \in Digits(v)}

set_mhdl(c, flag) ==
  IF Object = "no_access" THEN Refuse(c, c.value)
  ELSE /\ \E f \in MhdlBits(c.path, c.value) : PutValue(flag, f)
       /\ Answer(c, 1, c.value)

\* mhpi_release_force, for either language.
release_force(c) ==
  IF Object = "no_access" THEN Refuse(c, c.value)
  ELSE /\ PutValue("release", [i \in {Places(c.path)[k] : k \in DOMAIN Places(c.path)} |-> "0"])
       /\ Answer(c, 1, c.value)

-----------------------------------------------------------------------------
(* The functions that SystemVerilog imports.  In the mixed builds the      *)
(* interface that a handle belongs to decides; a null handle belongs to    *)
(* none.                                                                   *)

Vpi(p)  == Build = "plain" \/ (Exists(p) /\ Lang = "vlog")
Vhpi(p) == Build # "plain" /\ Exists(p) /\ Lang = "vhdl"
NoPli(p) == ~Vpi(p) /\ ~Vhpi(p)

uvm_hdl_check_path(c) ==
  /\ c.op = "check_path"
  /\ NoPut /\ Answer(c, IF Exists(c.path) THEN 1 ELSE 0, c.value)

uvm_hdl_read(c) ==
  /\ c.op = "read"
  /\ \/ Vpi(c.path) /\ get_vlog(c)
     \/ Vhpi(c.path) /\ Build = "mixed" /\ NoPut /\ get_mhdl(c)
     \/ Vhpi(c.path) /\ Build = "fast" /\ NoPut /\ get_vhpi(c)
     \/ NoPli(c.path) /\ Refuse(c, c.value)

Set(c, flag) ==
  \/ Vpi(c.path) /\ set_vlog(c, flag)
  \/ Vhpi(c.path) /\ set_mhdl(c, flag)
  \/ NoPli(c.path) /\ Refuse(c, c.value)

uvm_hdl_deposit(c) == c.op = "deposit" /\ Set(c, "deposit")
uvm_hdl_force(c)   == c.op = "force" /\ Set(c, "force")

uvm_hdl_release(c) ==
  /\ c.op = "release"
  /\ \/ Vpi(c.path) /\ set_vlog(c, "release")
     \/ Vhpi(c.path) /\ release_force(c)
     \/ NoPli(c.path) /\ Refuse(c, c.value)

uvm_hdl_release_and_read(c) ==
  /\ c.op = "release_and_read"
  /\ \/ Build = "plain" /\ set_vlog(c, "release")
     \/ Build # "plain" /\ ~NoPli(c.path) /\ release_force(c)
     \/ Build # "plain" /\ NoPli(c.path) /\ Refuse(c, c.value)

Call(c) ==
  /\ call = NoCall /\ ~ended
  /\ \/ uvm_hdl_check_path(c) \/ uvm_hdl_read(c) \/ uvm_hdl_deposit(c)
     \/ uvm_hdl_force(c) \/ uvm_hdl_release(c) \/ uvm_hdl_release_and_read(c)
  /\ UNCHANGED ended

Next == (\E c \in Calls : Call(c)) \/ Testbench
=============================================================================
