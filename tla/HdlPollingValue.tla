--------------------------- MODULE HdlPollingValue ---------------------------
(***************************************************************************)
(* uvm_polling_getValue32 (dpi/uvm_hdl_polling.c:576-618): one chunk of a  *)
(* probed signal's value, extended to the width of a chunk by the masks    *)
(* that uvm_polling_create put into the hook record.  A chunk, 32 bits in  *)
(* the code, is the sets of the bits that are 1 in its aval and its bval.  *)
(***************************************************************************)
EXTENDS Integers, DpiCall

CONSTANTS
  ChunkWidth,
  MaxSize,         \* bits of the widest signal
  MaxChunk         \* highest chunk that is asked for

ASSUME ValueAssumption == ChunkWidth \in Nat \ {0} /\ MaxSize \in Nat \ {0} /\ MaxChunk \in Nat

Bits == 0..(ChunkWidth - 1)
Logic == {"0", "1", "x", "z"}

size == frame.size

\* The weight of a bit, and of the one above a chunk.
weight[i \in 0..ChunkWidth] == IF i = 0 THEN 1 ELSE 2 * weight[i - 1]

\* An unsigned word as the set of its bits.
AsBits(n) == {i \in Bits : (n \div weight[i]) % 2 = 1}
Complement(B) == Bits \ B

\* 1U << ((size-1) % 32) and 2U * top_msb - 1U, in words of ChunkWidth bits.
top_msb == weight[(size - 1) % ChunkWidth] % weight[ChunkWidth]
Fault_top_mask == (top_msb - 1) % weight[ChunkWidth]      \* without the sign bit
top_mask == (2 * top_msb - 1) % weight[ChunkWidth]

\* vpi_get_value: what is in the last chunk above the signal is not specified.
Vectors(chunk) ==
  LET own      == {i \in Bits : chunk * ChunkWidth + i < size}
      Among(V) == {i \in own : frame.value[chunk * ChunkWidth + i] \in V}
  IN {[aval |-> Among({"1", "x"}) \cup above, bval |-> Among({"z", "x"}) \cup above]
      : above \in SUBSET (Bits \ own)}

\* The top chunk is cut to the signal and, of a signed one, its sign repeated.
Extended(v) ==
  LET Cut(B)  == B \cap AsBits(top_mask)
      Sign(B) == IF frame.isSigned /\ B \cap AsBits(top_msb) # {}
                 THEN Cut(B) \cup Complement(AsBits(top_mask)) ELSE Cut(B)
  IN [aval |-> Sign(v.aval), bval |-> Sign(v.bval)]

\* A chunk that is not there is read as the last one.
ReadAs(chunk) == IF chunk * ChunkWidth >= size THEN (size - 1) \div ChunkWidth ELSE chunk

\* value: the signal, bit by bit; asked: the chunk that was asked for, -1 before.
ValueFrames ==
  UNION {{[of |-> "uvm_polling_getValue32", size |-> n, isSigned |-> signed, value |-> v,
           asked |-> -1, result |-> [aval |-> {}, bval |-> {}], ret |-> 0] :
            v \in [0..(n - 1) -> Logic], signed \in BOOLEAN} : n \in 1..MaxSize}

getValue32(chunk) ==
  /\ Calling("uvm_polling_getValue32")
  /\ \/ /\ chunk < 0
        /\ frame' = [frame EXCEPT !.asked = chunk, !.ret = 0]
     \/ /\ chunk >= 0
        /\ \E v \in Vectors(ReadAs(chunk)) :
             frame' = [frame EXCEPT
               !.asked = chunk, !.ret = 1,
               !.result = IF (chunk + 1) * ChunkWidth > size THEN Extended(v) ELSE v]

ValueStep == \E chunk \in -1..MaxChunk : getValue32(chunk)

-----------------------------------------------------------------------------
(* Properties. *)

\* Bit i of a signal that is extended for ever: its own bits, then its sign, or 0.
ExtendedBit(i) ==
  IF i < size THEN frame.value[i] ELSE IF frame.isSigned THEN frame.value[size - 1] ELSE "0"

\* "reads bits [32*chunk+:32] ... zero-extended if the signal is unsigned, and
\* sign-extended in the standard Verilog 4-state way if the signal is signed"
\* (uvm_hdl_polling.c:96-102), whatever the width.
ValueExtended ==
  Calling("uvm_polling_getValue32") /\ frame.ret = 1 /\ frame.asked * ChunkWidth < size =>
    \A i \in Bits :
      LET bit == ExtendedBit(frame.asked * ChunkWidth + i)
      IN /\ i \in frame.result.aval <=> bit \in {"1", "x"}
         /\ i \in frame.result.bval <=> bit \in {"z", "x"}
=============================================================================
