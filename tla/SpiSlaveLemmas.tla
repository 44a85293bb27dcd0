---------------------------- MODULE SpiSlaveLemmas ----------------------------
(***************************************************************************)
(* What the operators and the clk edge of SpiSlave return and preserve,    *)
(* for the proofs about the modules that put the slave on some wires.      *)
(***************************************************************************)
EXTENDS SpiSlave, TLAPS

USE WidthAssumption DEF Bit, WidthAssumption

-----------------------------------------------------------------------------
(* Shifting a bit into a byte gives a byte.                                *)
LEMMA ShiftLeftType ==
  ASSUME NEW b \in Byte, NEW in \in Bit
  PROVE  ShiftLeft(b, in) \in Byte
<1>1. ASSUME NEW j \in 1..W, j < W PROVE b[j + 1] \in Bit
  BY <1>1 DEF Byte
<1> QED
  BY <1>1 DEF ShiftLeft, Byte

(* What a read returns is a byte.                                          *)
LEMMA ReadRegType ==
  ASSUME regfile \in [Byte -> Byte], gpio_in \in Byte, NEW a \in Byte
  PROVE  read_reg(a) \in Byte
BY AddressAssumption DEF read_reg, ReadReg

(* The byte of zeros is a byte.                                            *)
LEMMA ZeroType == Zero \in Byte
BY DEF Zero, Byte

(* What a clk edge completes is a byte.                                    *)
LEMMA FullByteType ==
  ASSUME SlaveTypeOK
  PROVE  full_byte \in Byte
BY ShiftLeftType DEF SlaveTypeOK, full_byte

(* Multiples of W by a byte number, without the product.                   *)
LEMMA Products ==
  ASSUME NEW k \in 0..3
  PROVE  /\ k * W \in Nat
         /\ k = 0 => k * W = 0
         /\ k = 1 => k * W = W
         /\ k <= 3 => k * W <= 3 * W
         /\ k = 2 => k * W = 2 * W
         /\ k < 3 => k * W <= 2 * W
         /\ (k + 1) * W = k * W + W
<1>1. k = 0 \/ k = 1 \/ k = 2 \/ k = 3
  OBVIOUS
<1> QED
  BY <1>1

(* A clk edge keeps the width of every register, in reset and out of it.   *)
LEMMA TypeClockEdge ==
  ASSUME SlaveTypeOK, {mosi, sclk, cs} \subseteq Bit, gpio_in \in Byte, ClockEdge
  PROVE  SlaveTypeOK'
<1> USE DEF SlaveTypeOK
<1>1. CASE rst_n # 1
  BY <1>1 DEF ClockEdge, slaveVars, syncVars, spiVars
<1>2. CASE rst_n = 1
  <2>1. Synchronize /\ rst_n' = rst_n
    BY <1>2 DEF ClockEdge
  <2>2. {sclk_d1, sclk_d2, cs_d1, cs_d2, mosi_d1, mosi_d2}' \subseteq Bit
    BY <2>1 DEF Synchronize
  <2>3. full_byte \in Byte
    BY FullByteType
  <2>4. CASE Deselected
    BY <2>1, <2>2, <2>4 DEF Deselected
  <2>5. CASE SampleBit
    BY <2>1, <2>2, <2>3, <2>5 DEF SampleBit
  <2>6. CASE SampleByte
    <3>1. read_reg(full_byte) \in Byte
      BY <2>3, ReadRegType
    <3>2. full_byte[W] \in Bit
      BY <2>3 DEF Byte
    <3>3. regfile' \in [Byte -> Byte]
      BY <2>3, <2>6 DEF SampleByte, StoreByte
    <3>4. byte_cnt' \in 0..3
      BY <2>6 DEF SampleByte, CountByte
    <3> QED
      BY <2>1, <2>2, <2>3, <2>6, <3>1, <3>2, <3>3, <3>4 DEF SampleByte, CountByte
  <2>7. CASE ShiftOut
    <3>1. ShiftLeft(shift_out, 0) \in Byte
      BY ShiftLeftType
    <3>2. shift_out[1] \in Bit
      BY DEF Byte
    <3> QED
      BY <2>1, <2>2, <2>7, <3>1, <3>2 DEF ShiftOut
  <2>8. CASE NoEdge
    BY <2>1, <2>2, <2>8 DEF NoEdge, spiVars
  <2> QED
    BY <1>2, <2>4, <2>5, <2>6, <2>7, <2>8 DEF ClockEdge
<1> QED
  BY <1>1, <1>2

=============================================================================
