----------------------------- MODULE HdlXcelium -----------------------------
(***************************************************************************)
(* Backdoor access in Xcelium (uvm_hdl_xcelium.c).  A path that ends in    *)
(* [l:r] is split into single bits and goes through VPI; any other goes    *)
(* through VPI or VHPI, as the language of the object says.  VPI does not  *)
(* see the bits of a VHDL object (external).                               *)
(***************************************************************************)
EXTENDS HdlSignal

CONSTANTS
  Lang,            \* "vlog" or "vhdl"
  ChunkWidth       \* bits of an s_vpi_vecval: 32

\* The language of an object that is not found is not assigned: it is
\* whatever the variable held.
Language(p) == IF Exists(p) THEN {Lang} ELSE {"vlog", "vhdl", "other"}

Chunks(width) == (width - 1) \div ChunkWidth + 1

\* The last chunk is left as it is.
clear_value(v) ==
  [k \in DOMAIN v |-> IF k < (Chunks(MaxWidth) - 1) * ChunkWidth THEN "0" ELSE v[k]]

-----------------------------------------------------------------------------
(* Setting.  Each operator is one C function, its calls included. *)

set_vlog(c, flag) ==
  \/ /\ Exists(c.path)
     /\ \E f \in Written(c.path, DOMAIN Places(c.path), c.value) : PutValue(flag, f)
     /\ Answer(c, 1, c.value)
     /\ UNCHANGED ended
  \/ /\ ~Exists(c.path)
     /\ NoPut
     /\ Answer(c, 0, c.value)
     /\ UNCHANGED ended

PartselReached(p) == IF Lang = "vlog" THEN Reached(p) ELSE {}
PartselDone(p)    == PartselReached(p) = DOMAIN Places(p)

\* The path's name is overwritten with that of the last bit.
Fault_SliceBits(p, v) ==               \* always upwards from the right bound
  {f \in [{p.rhs + k : k \in PartselReached(p)} -> Logic] :
     \A k \in PartselReached(p) : k < MaxWidth => f[p.rhs + k] = v[k]}
SliceBits(p, v) == Written(p, PartselReached(p), v)

PartselAnswer(p) == IF PartselDone(p) THEN 1 ELSE 0

set_vlog_partsel(c, flag) ==
  /\ \E f \in SliceBits(c.path, c.value) : PutValue(flag, f)
  /\ Answer(c, PartselAnswer(c.path), c.value)
  /\ UNCHANGED ended

\* The bits are put least significant first.  Without an object, or with one
\* that is too wide, the simulation is ended.
set_vhdl(c, flag) ==
  \/ /\ Exists(c.path)
     /\ \E f \in Written(c.path, DOMAIN Places(c.path), c.value) : PutValue(flag, f)
     /\ Answer(c, 1, c.value)
     /\ ended' = (Width(c.path) > MaxWidth)
  \/ /\ ~Exists(c.path)
     /\ NoPut
     /\ Answer(c, 0, c.value)
     /\ ended' = TRUE

\* uvm_hdl_deposit and uvm_hdl_force, and uvm_hdl_release, whose value is one
\* uninitialized chunk that nothing looks at.
set_path(c, flag) ==
  \/ c.path.kind = "slice" /\ set_vlog_partsel(c, flag)
  \/ /\ c.path.kind # "slice"
     /\ \E language \in Language(c.path) :
          \/ language = "vlog"  /\ set_vlog(c, flag)
          \/ language = "vhdl"  /\ set_vhdl(c, flag)
          \/ language = "other" /\ NoPut /\ Answer(c, 0, c.value) /\ UNCHANGED ended

-----------------------------------------------------------------------------
(* Getting: the answer, what becomes of the caller's value v, and whether  *)
(* the simulation may go on or may end.                                    *)

Got(ret, value, ends) == [ret |-> ret, value |-> value, ends |-> ends]

get_vlog(p, v) ==
  IF Exists(p) /\ Width(p) <= MaxWidth
  THEN Got(1, [k \in DOMAIN v |->
                 IF k \in DOMAIN Places(p) THEN sig[Places(p)[k]]
                 ELSE IF k < Chunks(Width(p)) * ChunkWidth THEN "0" ELSE v[k]], {FALSE})
  ELSE Got(0, v, {FALSE})

\* A path without a slice is answered with 0.
get_vlog_partsel(p, v) ==
  IF p.kind = "slice"
  THEN Got(IF PartselDone(p) THEN 1 ELSE 0,
           [k \in DOMAIN v |-> IF k \in PartselReached(p) THEN sig[Places(p)[k]] ELSE v[k]],
           {FALSE})
  ELSE Got(0, v, {FALSE})

\* The vector comes most significant bit first and fills the chunks from the
\* first on.
VhdlVector(p) ==
  LET w == Width(p) IN
  [k \in 0..(MaxWidth - 1) |->
     LET first == (k \div ChunkWidth) * ChunkWidth
         bits  == IF w - first < ChunkWidth THEN w - first ELSE ChunkWidth
         bit   == first + bits - 1 - (k % ChunkWidth)
     IN IF k - first < bits THEN sig[Places(p)[w - 1 - bit]] ELSE "0"]

\* A scalar fills chunk 0.  The buffer is freed once per chunk.  Where the
\* simulation is ended, what the call still does is left out.
get_vhdl(p, v) ==
  IF ~Exists(p) \/ Width(p) > MaxWidth THEN Got(0, v, {TRUE})
  ELSE IF Width(p) = 1
       THEN Got(1, [k \in DOMAIN v |-> IF k = 0 THEN sig[Places(p)[0]]
                                       ELSE IF k < ChunkWidth THEN "0" ELSE v[k]],
                {FALSE})
       ELSE Got(1, VhdlVector(p), {FALSE, Chunks(Width(p)) > 1})

GotAnswer(c, got) ==
  /\ Answer(c, got.ret, got.value)
  /\ ended' \in got.ends

get_path(c) ==
  \/ c.path.kind = "slice" /\ GotAnswer(c, get_vlog_partsel(c.path, clear_value(c.value)))
  \/ /\ c.path.kind # "slice"
     /\ \E language \in Language(c.path) :
          \/ language = "vlog"  /\ GotAnswer(c, get_vlog(c.path, c.value))
          \/ language = "vhdl"  /\ GotAnswer(c, get_vhdl(c.path, c.value))
          \/ language = "other" /\ GotAnswer(c, Got(0, c.value, {FALSE}))

-----------------------------------------------------------------------------
(* The functions that SystemVerilog imports. *)

uvm_hdl_check_path(c) ==
  /\ c.op = "check_path"
  /\ NoPut /\ Answer(c, IF Exists(c.path) THEN 1 ELSE 0, c.value)
  /\ UNCHANGED ended

uvm_hdl_read(c) ==
  /\ c.op = "read"
  /\ NoPut /\ get_path(c)

uvm_hdl_deposit(c) == c.op = "deposit" /\ set_path(c, "deposit")

uvm_hdl_force(c) == c.op = "force" /\ set_path(c, "force")

uvm_hdl_release(c) == c.op = "release" /\ set_path(c, "release")

\* The path of a slice is that of a single bit when it comes to reading it.
LastBit(p) == [kind |-> "bit", lhs |-> p.lhs, rhs |-> 0]

uvm_hdl_release_and_read(c) ==
  /\ c.op = "release_and_read"
  /\ \/ /\ c.path.kind = "slice"
        /\ \E f \in SliceBits(c.path, c.value) : PutValue("release", f)
        /\ GotAnswer(c, get_vlog_partsel(LastBit(c.path), clear_value(c.value)))
     \/ /\ c.path.kind # "slice"
        /\ \E language \in Language(c.path) :
             /\ IF Exists(c.path)
                THEN PutValue("release", [i \in {Places(c.path)[k] : k \in DOMAIN Places(c.path)} |-> "0"])
                ELSE NoPut
             /\ \/ language = "vlog"  /\ GotAnswer(c, get_vlog(c.path, c.value))
                \/ language = "vhdl"  /\ GotAnswer(c, get_vhdl(c.path, c.value))
                \/ language = "other" /\ GotAnswer(c, Got(0, c.value, {FALSE}))

Call(c) ==
  /\ call = NoCall /\ ~ended
  /\ \/ uvm_hdl_check_path(c) \/ uvm_hdl_read(c) \/ uvm_hdl_deposit(c)
     \/ uvm_hdl_force(c) \/ uvm_hdl_release(c) \/ uvm_hdl_release_and_read(c)

Next == (\E c \in Calls : Call(c)) \/ Testbench
=============================================================================
