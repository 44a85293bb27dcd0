------------------------ MODULE SpiSlaveFramesProofs ------------------------
(***************************************************************************)
(* The slave decodes what is on its wires, whatever the master does and    *)
(* for every width W of a byte: proofs of the properties of SpiSlaveFrames.*)
(***************************************************************************)
EXTENDS SpiSlaveFrames, SpiSlaveLemmas

USE WidthAssumption DEF Bit, WidthAssumption

-----------------------------------------------------------------------------
LEMMA TypeInit == Init => TypeOK
<1> SUFFICES ASSUME Init PROVE TypeOK
  OBVIOUS
<1>1. SlaveTypeOK
  BY ZeroType DEF Init, ResetState, SlaveTypeOK
<1>2. gpio_in \in Byte
  BY InputsAssumption DEF Init
<1> QED
  BY <1>1, <1>2, ZeroType DEF Init, TypeOK, IdlePins

LEMMA ExtendType ==
  ASSUME NEW bits \in Seq(Bit), NEW selected, NEW risen, NEW bit \in Bit
  PROVE  Extend(bits, selected, risen, bit) \in Seq(Bit)
BY DEF Extend

LEMMA TypeStep == TypeOK /\ [Next]_vars => TypeOK'
<1> SUFFICES ASSUME TypeOK, [Next]_vars PROVE TypeOK'
  OBVIOUS
<1>1. CASE Clock
  <2>1. SlaveTypeOK'
    BY <1>1, TypeClockEdge DEF Clock, TypeOK
  <2>2. ({mosi, sclk, cs} \subseteq Bit /\ gpio_in \in Byte)'
    BY <1>1, InputsAssumption DEF Clock, AnyPins
  <2>3. /\ {window', wire'} \subseteq Seq(Bit) /\ loaded' \in Byte
        /\ seen' \in [{"sclk", "cs", "mosi"} -> Bit]
    <3>1. /\ mosi_d2 \in Bit /\ seen.mosi \in Bit /\ {mosi, sclk, cs} \subseteq Bit
          /\ {window, wire} \subseteq Seq(Bit) /\ loaded \in Byte
          /\ seen \in [{"sclk", "cs", "mosi"} -> Bit]
      BY DEF TypeOK, SlaveTypeOK
    <3>2. read_reg(full_byte) \in Byte
      BY FullByteType, ReadRegType DEF TypeOK, SlaveTypeOK
    <3>3. CASE Observe
      <4>1. {window', wire'} \subseteq Seq(Bit)
        BY <3>1, <3>3, ExtendType DEF Observe
      <4>2. seen' \in [{"sclk", "cs", "mosi"} -> Bit]
        BY <3>1, <3>3 DEF Observe
      <4> QED
        BY <3>1, <3>2, <3>3, <4>1, <4>2 DEF Observe
    <3>4. CASE UNCHANGED history
      BY <3>1, <3>4 DEF history
    <3> QED
      BY <1>1, <3>3, <3>4 DEF Clock
  <2> QED
    BY <2>1, <2>2, <2>3 DEF TypeOK
<1>2. CASE Reset
  BY <1>2, ZeroType DEF Reset, AssertReset, TypeOK, SlaveTypeOK, spiPins, IdlePins
<1>3. CASE Release
  BY <1>3 DEF Release, ReleaseReset, TypeOK, SlaveTypeOK, spiPins, slaveVars,
              syncVars, spiVars, history
<1>4. CASE UNCHANGED vars
  BY <1>4 DEF vars, TypeOK, SlaveTypeOK, spiPins, slaveVars, syncVars, spiVars, history
<1> QED
  BY <1>1, <1>2, <1>3, <1>4 DEF Next

(* Every register of the slave keeps its width: no counter leaves its      *)
(* range, every byte has W bits (spi_slave_gpio_regmap.sv:31-73).          *)
THEOREM TypeCorrect == Spec => []TypeOK
<1> QED
  BY TypeInit, TypeStep, PTL DEF Spec

-----------------------------------------------------------------------------
(* The bytes of the window, without the multiplication by a byte number.   *)
LEMMA WindowBytes ==
  /\ WindowByte(2) = [j \in 1..W |-> window[W + j]]
  /\ WindowByte(3) = [j \in 1..W |-> window[2 * W + j]]
  /\ WindowByte(2)' = [j \in 1..W |-> window'[W + j]]
  /\ WindowByte(3)' = [j \in 1..W |-> window'[2 * W + j]]
<1>1. (2 - 1) * W = W /\ (3 - 1) * W = 2 * W
  OBVIOUS
<1> QED
  BY <1>1 DEF WindowByte

(* Appending to a sequence of bits.                                        *)
LEMMA AppendBit ==
  ASSUME NEW s \in Seq(Bit), NEW b \in Bit
  PROVE  /\ Append(s, b) \in Seq(Bit)
         /\ Len(Append(s, b)) = Len(s) + 1
         /\ Append(s, b)[Len(s) + 1] = b
         /\ \A i \in 1..Len(s) : Append(s, b)[i] = s[i]
OBVIOUS

(* What a clk edge adds to the window, by what the slave does at that edge.*)
LEMMA ObserveWindow ==
  ASSUME TypeOK, Decoded, Observe
  PROVE  /\ Deselected => window' = <<>>
         /\ SampleBit => window' = Append(window, mosi_d2)
         /\ SampleByte /\ byte_cnt # 3 => window' = Append(window, mosi_d2)
         /\ SampleByte /\ byte_cnt = 3 => window' = <<>>
         /\ ShiftOut \/ NoEdge => window' = window
<1>1. /\ byte_cnt \in 0..3 /\ bit_cnt \in 0..W-1
      /\ Len(window) = byte_cnt * W + bit_cnt
      /\ sclk_d1 \in Bit /\ sclk_d2 \in Bit
  BY DEF TypeOK, SlaveTypeOK, Decoded
<1>2. Deselected => window' = <<>>
  BY DEF Deselected, Extend, Observe
<1>3. SampleBit => Len(window) # 4 * W - 1
  BY <1>1, Products DEF SampleBit
<1>4. SampleByte /\ byte_cnt # 3 => Len(window) # 4 * W - 1
  BY <1>1, Products DEF SampleByte
<1>5. SampleByte /\ byte_cnt = 3 => Len(window) = 4 * W - 1
  BY <1>1 DEF SampleByte
<1>6. ShiftOut \/ NoEdge => window' = window
  BY <1>1 DEF ShiftOut, NoEdge, sclk_fall, sclk_rise, Extend, Observe
<1>7. SampleBit => window' = Append(window, mosi_d2)
  BY <1>3 DEF SampleBit, Extend, Observe
<1>8. SampleByte /\ byte_cnt # 3 => window' = Append(window, mosi_d2)
  BY <1>4 DEF SampleByte, Extend, Observe
<1>9. SampleByte /\ byte_cnt = 3 => window' = <<>>
  BY <1>5 DEF SampleByte, Extend, Observe
<1> QED
  BY <1>2, <1>6, <1>7, <1>8, <1>9

(* When a byte is complete, full_byte is the last W bits on the wire.      *)
LEMMA FullByteDecoded ==
  ASSUME TypeOK, Decoded, bit_cnt = W - 1
  PROVE  /\ Len(window) + 1 = byte_cnt * W + W
         /\ full_byte = [j \in 1..W |-> Append(window, mosi_d2)[byte_cnt * W + j]]
<1> DEFINE P == byte_cnt * W
<1>1. /\ P \in Nat /\ Len(window) = P + (W - 1)
      /\ window \in Seq(Bit) /\ mosi_d2 \in Bit
  BY Products DEF TypeOK, SlaveTypeOK, Decoded
<1>2. \A j \in 1..W-1 : shift_in[1 + j] = window[P + j]
  <2>1. \A j \in 1..bit_cnt : shift_in[W - bit_cnt + j] = window[P + j]
    BY DEF Decoded
  <2>2. W - bit_cnt = 1
    OBVIOUS
  <2> QED
    BY <2>1, <2>2
<1> HIDE DEF P
<1>3. \A j \in 1..W : ShiftLeft(shift_in, mosi_d2)[j] = Append(window, mosi_d2)[P + j]
  <2> TAKE j \in 1..W
  <2>1. CASE j < W
    <3>1. shift_in[j + 1] = window[P + j] /\ P + j \in 1..Len(window)
      BY <1>1, <1>2, <2>1
    <3> QED
      BY <1>1, <2>1, <3>1, AppendBit DEF ShiftLeft
  <2>2. CASE j = W
    BY <1>1, <2>2, AppendBit DEF ShiftLeft
  <2>3. j < W \/ j = W
    OBVIOUS
  <2> QED
    BY <2>1, <2>2, <2>3, Zenon
<1>4. full_byte = [j \in 1..W |-> Append(window, mosi_d2)[P + j]]
  BY <1>3 DEF full_byte, ShiftLeft
<1> QED
  BY <1>1, <1>4 DEF P

-----------------------------------------------------------------------------
LEMMA DecodedInit == Init => Decoded
BY DEF Init, ResetState, Decoded

LEMMA DecodedClockEdge ==
  ASSUME TypeOK, Decoded, rst_n = 1, ClockEdge, Observe
  PROVE  Decoded'
<1> USE DEF TypeOK, SlaveTypeOK
<1>1. /\ byte_cnt \in 0..3 /\ bit_cnt \in 0..W-1 /\ mosi_d2 \in Bit
      /\ window \in Seq(Bit) /\ Len(window) = byte_cnt * W + bit_cnt
      /\ byte_cnt * W \in Nat
  BY Products DEF Decoded
<1>2. CASE Deselected
  BY <1>1, <1>2, ObserveWindow DEF Deselected, Decoded
<1>3. CASE SampleBit
  <2>1. /\ window' = Append(window, mosi_d2) /\ bit_cnt' = bit_cnt + 1
        /\ byte_cnt' = byte_cnt /\ rw' = rw /\ addr' = addr
        /\ shift_in' = ShiftLeft(shift_in, mosi_d2) /\ bit_cnt + 1 \in 1..W-1
    BY <1>1, <1>3, ObserveWindow DEF SampleBit, full_byte
  <2>2. Len(window') = byte_cnt' * W + bit_cnt'
    <3>1. Len(window') = Len(window) + 1
      BY <1>1, <2>1, AppendBit
    <3> QED
      BY <1>1, <2>1, <3>1
  <2>3. byte_cnt >= 1 => rw' = window'[W]
    <3> SUFFICES ASSUME byte_cnt >= 1 PROVE rw' = window'[W]
      OBVIOUS
    <3>1. W \in 1..Len(window)
      BY <1>1, Products
    <3> QED
      BY <1>1, <2>1, <3>1, AppendBit DEF Decoded
  <2>4. byte_cnt >= 2 => addr' = WindowByte(2)'
    <3> SUFFICES ASSUME byte_cnt >= 2 PROVE addr' = WindowByte(2)'
      OBVIOUS
    <3>1. \A j \in 1..W : W + j \in 1..Len(window)
      BY <1>1, Products
    <3>2. \A j \in 1..W : window'[W + j] = window[W + j]
      BY <1>1, <2>1, <3>1, AppendBit
    <3>3. WindowByte(2)' = WindowByte(2)
      BY <3>2, WindowBytes, ZenonT(60)
    <3> QED
      BY <2>1, <3>3 DEF Decoded
  <2>5. \A j \in 1..bit_cnt' : shift_in'[W - bit_cnt' + j] = window'[byte_cnt' * W + j]
    <3> DEFINE P == byte_cnt * W
    <3>1. P \in Nat /\ Len(window) = P + bit_cnt
      BY <1>1
    <3>2. \A j \in 1..bit_cnt : shift_in[W - bit_cnt + j] = window[P + j]
      BY DEF Decoded
    <3> HIDE DEF P
    <3>3. ASSUME NEW j \in 1..bit_cnt + 1
          PROVE  ShiftLeft(shift_in, mosi_d2)[W - (bit_cnt + 1) + j]
                   = Append(window, mosi_d2)[P + j]
      <4>1. W - (bit_cnt + 1) + j \in 1..W
        BY <1>1, <2>1
      <4>2. CASE j <= bit_cnt
        <5> DEFINE i == W - (bit_cnt + 1) + j
        <5>1. i < W /\ i + 1 = W - bit_cnt + j /\ P + j \in 1..Len(window)
          BY <1>1, <3>1, <4>2, SMTT(30)
        <5>2. shift_in[i + 1] = window[P + j]
          BY <3>2, <4>2, <5>1
        <5>3. Append(window, mosi_d2)[P + j] = window[P + j]
          BY <1>1, <5>1, AppendBit
        <5>4. i \in 1..W
          BY <4>1
        <5> HIDE DEF i
        <5>5. ShiftLeft(shift_in, mosi_d2)[i] = shift_in[i + 1]
          BY <5>1, <5>4 DEF ShiftLeft
        <5> QED
          BY <5>2, <5>3, <5>5 DEF i
      <4>3. CASE j = bit_cnt + 1
        <5>1. W - (bit_cnt + 1) + j = W /\ P + j = Len(window) + 1
          BY <1>1, <3>1, <4>3
        <5>2. ShiftLeft(shift_in, mosi_d2)[W] = mosi_d2
          BY DEF ShiftLeft
        <5>3. Append(window, mosi_d2)[Len(window) + 1] = mosi_d2
          BY <1>1, AppendBit
        <5> QED
          BY <5>1, <5>2, <5>3
      <4>4. j <= bit_cnt \/ j = bit_cnt + 1
        BY <1>1
      <4> QED
        BY <4>2, <4>3, <4>4, Zenon
    <3> QED
      BY <2>1, <3>3 DEF P
  <2> QED
    BY <2>1, <2>2, <2>3, <2>4, <2>5 DEF Decoded
<1>4. CASE SampleByte /\ byte_cnt = 3
  BY <1>1, <1>4, ObserveWindow DEF SampleByte, CountByte, Decoded
<1>5. CASE SampleByte /\ byte_cnt # 3
  <2>1. /\ window' = Append(window, mosi_d2) /\ bit_cnt = W - 1 /\ bit_cnt' = 0
        /\ byte_cnt' = byte_cnt + 1 /\ byte_cnt' \in 1..3
        /\ rw' = IF byte_cnt = 0 THEN full_byte[W] ELSE rw
        /\ addr' = IF byte_cnt = 1 THEN full_byte ELSE addr
    <3>1. window' = Append(window, mosi_d2)
      BY <1>5, ObserveWindow
    <3>2. (byte_cnt + 1) % 4 = byte_cnt + 1 /\ byte_cnt + 1 \in 1..3
      BY <1>1, <1>5
    <3> QED
      BY <1>5, <3>1, <3>2 DEF SampleByte, CountByte
  <2>2. /\ Len(window) + 1 = byte_cnt * W + W
        /\ full_byte = [j \in 1..W |-> window'[byte_cnt * W + j]]
    BY <2>1, FullByteDecoded
  <2>3. Len(window') = byte_cnt' * W + bit_cnt'
    <3>1. Len(window') = Len(window) + 1
      BY <1>1, <2>1, AppendBit
    <3> QED
      BY <1>1, <2>1, <2>2, <3>1, Products
  <2>4. rw' = window'[W]
    <3>1. CASE byte_cnt = 0
      BY <2>1, <2>2, <3>1
    <3>2. CASE byte_cnt >= 1
      <4>1. W \in 1..Len(window)
        BY <1>1, <2>1, <3>2, Products
      <4> QED
        BY <1>1, <2>1, <3>2, <4>1, AppendBit DEF Decoded
    <3> QED
      BY <1>1, <3>1, <3>2
  <2>5. byte_cnt' >= 2 => addr' = WindowByte(2)'
    <3>1. CASE byte_cnt = 1
      BY <2>1, <2>2, <3>1, Products, WindowBytes
    <3>2. CASE byte_cnt = 2
      <4>1. \A j \in 1..W : W + j \in 1..Len(window)
        BY <1>1, <2>1, <3>2, Products
      <4>2. \A j \in 1..W : window'[W + j] = window[W + j]
        BY <1>1, <2>1, <4>1, AppendBit
      <4>3. WindowByte(2)' = WindowByte(2)
        BY <4>2, WindowBytes, ZenonT(60)
      <4> QED
        BY <2>1, <3>2, <4>3 DEF Decoded
    <3> QED
      BY <1>1, <1>5, <2>1, <3>1, <3>2
  <2> QED
    BY <2>1, <2>3, <2>4, <2>5 DEF Decoded
<1>6. CASE ShiftOut \/ NoEdge
  BY <1>6, ObserveWindow DEF ShiftOut, NoEdge, spiVars, Decoded, WindowByte
<1> QED
  BY <1>2, <1>3, <1>4, <1>5, <1>6 DEF ClockEdge

LEMMA DecodedStep == TypeOK /\ Decoded /\ [Next]_vars => Decoded'
<1> SUFFICES ASSUME TypeOK, Decoded, [Next]_vars PROVE Decoded'
  OBVIOUS
<1>1. CASE Clock /\ rst_n = 1
  BY <1>1, DecodedClockEdge DEF Clock
<1>2. CASE Clock /\ rst_n # 1
  BY <1>2 DEF Clock, ClockEdge, slaveVars, spiVars, history, Decoded, WindowByte
<1>3. CASE Reset
  BY <1>3 DEF Reset, AssertReset, Decoded
<1>4. CASE Release
  BY <1>4 DEF Release, ReleaseReset, slaveVars, spiVars, history, Decoded, WindowByte
<1>5. CASE UNCHANGED vars
  BY <1>5 DEF vars, slaveVars, spiVars, history, Decoded, WindowByte
<1> QED
  BY <1>1, <1>2, <1>3, <1>4, <1>5 DEF Next

(* The position in the frame, the direction, the address and the bits      *)
(* shifted in are a decoding of the bits on the wire since the slave was   *)
(* selected (spi_slave_gpio_regmap.sv:104-149).                            *)
THEOREM DecodedCorrect == Spec => []Decoded
<1> QED
  BY TypeCorrect, DecodedInit, DecodedStep, PTL DEF Spec

-----------------------------------------------------------------------------
(* Why the slave is one clk edge behind its pins: its first flops hold     *)
(* what the observer saw, and the window by one clk edge more is the wire. *)
OneEdgeBehind ==
  /\ seen.sclk = sclk_d1 /\ seen.cs = cs_d1 /\ seen.mosi = mosi_d1
  /\ wire = Extend(window, cs_active, sclk_rise, mosi_d2)

LEMMA BehindInit == Init => OneEdgeBehind
BY DEF Init, ResetState, IdlePins, OneEdgeBehind, Extend, cs_active

LEMMA BehindStep == TypeOK /\ OneEdgeBehind /\ [Next]_vars => OneEdgeBehind'
<1> SUFFICES ASSUME TypeOK, OneEdgeBehind, [Next]_vars PROVE OneEdgeBehind'
  OBVIOUS
<1>1. CASE Clock /\ rst_n = 1
  <2>1. Observe /\ Synchronize
    BY <1>1 DEF Clock, ClockEdge
  <2>2. seen'.sclk = sclk_d1' /\ seen'.cs = cs_d1' /\ seen'.mosi = mosi_d1'
    BY <2>1 DEF Observe, Synchronize
  <2>3. window' = wire
    BY <2>1 DEF Observe, OneEdgeBehind
  <2>4. /\ cs_active' = (seen.cs = 0) /\ mosi_d2' = seen.mosi
        /\ sclk_rise' = (sclk = 1 /\ seen.sclk = 0)
    BY <2>1 DEF Synchronize, OneEdgeBehind, cs_active, sclk_rise
  <2>5. wire' = Extend(window', cs_active', sclk_rise', mosi_d2')
    BY <2>1, <2>3, <2>4 DEF Observe
  <2> QED
    BY <2>2, <2>5 DEF OneEdgeBehind, Extend
<1>2. CASE Clock /\ rst_n # 1
  BY <1>2 DEF Clock, ClockEdge, slaveVars, syncVars, history, OneEdgeBehind, cs_active, sclk_rise,
              Extend
<1>3. CASE Reset
  BY <1>3 DEF Reset, AssertReset, IdlePins, OneEdgeBehind, Extend, cs_active
<1>4. CASE Release
  BY <1>4 DEF Release, ReleaseReset, slaveVars, syncVars, history, OneEdgeBehind, cs_active,
              sclk_rise, Extend
<1>5. CASE UNCHANGED vars
  BY <1>5 DEF vars, slaveVars, syncVars, history, OneEdgeBehind, cs_active, sclk_rise, Extend
<1> QED
  BY <1>1, <1>2, <1>3, <1>4, <1>5 DEF Next

(* The slave is one clk edge behind its pins, whatever the master does and *)
(* whenever reset comes: what it has counted after a clk edge is what the  *)
(* pins said up to the edge before (spi_slave_gpio_regmap.sv:31-62,        *)
(* 104-123).                                                               *)
THEOREM FollowsTheWireCorrect == Spec => FollowsTheWire
<1>1. TypeOK /\ Decoded /\ OneEdgeBehind /\ [Next]_vars =>
        [rst_n = 1 /\ rst_n' = 1 =>
           window' = wire /\ byte_cnt' * W + bit_cnt' = Len(wire)]_vars
  <2> SUFFICES ASSUME TypeOK, Decoded, OneEdgeBehind, Next, rst_n = 1, rst_n' = 1
               PROVE  window' = wire /\ byte_cnt' * W + bit_cnt' = Len(wire)
    OBVIOUS
  <2>1. Clock
    BY DEF Next, Reset, AssertReset, Release, ReleaseReset
  <2>2. window' = wire
    BY <2>1 DEF Clock, Observe, OneEdgeBehind
  <2>3. Decoded'
    BY DecodedStep
  <2> QED
    BY <2>2, <2>3 DEF Decoded
<1> QED
  BY <1>1, TypeCorrect, DecodedCorrect, BehindInit, BehindStep, PTL DEF Spec, FollowsTheWire

-----------------------------------------------------------------------------
(* The edge that completes the third byte of a window.                     *)
LEMMA DataByte ==
  ASSUME TypeOK, Decoded, rst_n = 1, ClockEdge, Observe, SampleByte, byte_cnt = 2
  PROVE  /\ Len(window') = 3 * W /\ window'[W] = rw
         /\ WindowByte(2)' = addr /\ WindowByte(3)' = full_byte
<1>1. /\ bit_cnt = W - 1 /\ bit_cnt' = 0 /\ byte_cnt' = 3 /\ rw' = rw /\ addr' = addr
      /\ window' = Append(window, mosi_d2)
  BY ObserveWindow DEF SampleByte, CountByte
<1>2. Decoded'
  BY DecodedClockEdge
<1>3. full_byte = [j \in 1..W |-> window'[2 * W + j]]
  BY <1>1, FullByteDecoded
<1>4. Len(window') = 3 * W /\ rw' = window'[W] /\ addr' = WindowByte(2)'
  BY <1>1, <1>2 DEF Decoded
<1> QED
  BY <1>1, <1>3, <1>4, WindowBytes

(* Bits that arrive later leave the first three bytes of a window alone.   *)
LEMMA FirstBytesStay ==
  ASSUME TypeOK, Decoded, byte_cnt = 3, window' = Append(window, mosi_d2)
  PROVE  /\ window'[W] = window[W]
         /\ WindowByte(2)' = WindowByte(2) /\ WindowByte(3)' = WindowByte(3)
<1>1. /\ window \in Seq(Bit) /\ mosi_d2 \in Bit /\ bit_cnt \in Nat
      /\ Len(window) = 3 * W + bit_cnt
  BY DEF TypeOK, SlaveTypeOK, Decoded
<1>2. ASSUME NEW i \in 1..3 * W PROVE window'[i] = window[i]
  BY <1>1, AppendBit
<1>3. \A j \in 1..W : {j, W + j, 2 * W + j} \subseteq 1..3 * W
  OBVIOUS
<1>4. W \in 1..3 * W
  OBVIOUS
<1>5. \A j \in 1..W : window'[W + j] = window[W + j] /\ window'[2 * W + j] = window[2 * W + j]
  BY <1>2, <1>3
<1> QED
  BY <1>2, <1>4, <1>5, WindowBytes, ZenonT(60)

LEMMA WriteTakenStep == TypeOK /\ Decoded /\ WriteTaken /\ [Next]_vars => WriteTaken'
<1> SUFFICES ASSUME TypeOK, Decoded, WriteTaken, [Next]_vars PROVE WriteTaken'
  OBVIOUS
<1>1. ASSUME Clock, rst_n = 1 PROVE WriteTaken'
  <2>1. ClockEdge /\ Observe
    BY <1>1 DEF Clock
  <2>2. byte_cnt \in 0..3 /\ regfile \in [Byte -> Byte] /\ addr \in Byte
    BY DEF TypeOK, SlaveTypeOK
  <2>3. CASE Deselected
    BY <2>3 DEF Deselected, WriteTaken
  <2>4. CASE SampleBit
    <3> SUFFICES ASSUME byte_cnt = 3 PROVE WriteTaken'
      BY <2>4 DEF SampleBit, WriteTaken
    <3>1. window' = Append(window, mosi_d2) /\ regfile' = regfile
      BY <2>1, <2>4, ObserveWindow DEF SampleBit
    <3> QED
      BY <3>1, FirstBytesStay DEF WriteTaken, ReadOnly
  <2>5. CASE SampleByte /\ byte_cnt = 2
    <3>1. window'[W] = rw /\ WindowByte(2)' = addr /\ WindowByte(3)' = full_byte
      BY <1>1, <2>1, <2>5, DataByte
    <3> QED
      BY <2>2, <2>5, <3>1 DEF SampleByte, StoreByte, WriteTaken, ReadOnly
  <2>6. CASE SampleByte /\ byte_cnt # 2
    BY <2>2, <2>6 DEF SampleByte, CountByte, WriteTaken
  <2>7. CASE ShiftOut \/ NoEdge
    BY <2>1, <2>7, ObserveWindow DEF ShiftOut, NoEdge, spiVars, WriteTaken, WindowByte, ReadOnly
  <2> QED
    BY <1>1, <2>1, <2>3, <2>4, <2>5, <2>6, <2>7 DEF ClockEdge
<1>2. CASE Clock /\ rst_n # 1
  BY <1>2 DEF Clock, ClockEdge, slaveVars, spiVars, history, WriteTaken, WindowByte, ReadOnly
<1>3. CASE Reset
  BY <1>3 DEF Reset, AssertReset, WriteTaken
<1>4. CASE Release
  BY <1>4 DEF Release, ReleaseReset, slaveVars, spiVars, history, WriteTaken, WindowByte, ReadOnly
<1>5. CASE UNCHANGED vars
  BY <1>5 DEF vars, slaveVars, spiVars, history, WriteTaken, WindowByte, ReadOnly
<1> QED
  BY <1>1, <1>2, <1>3, <1>4, <1>5 DEF Next

(* A write frame takes effect exactly when its third byte is complete, and *)
(* what it wrote is there while the frame lasts                            *)
(* (spi_slave_gpio_regmap.sv:134-139).                                     *)
THEOREM WriteTakenCorrect == Spec => []WriteTaken
<1>1. Init => WriteTaken
  BY DEF Init, ResetState, WriteTaken
<1> QED
  BY <1>1, TypeCorrect, DecodedCorrect, WriteTakenStep, PTL DEF Spec

LEMMA OnlyFramesWriteStep ==
  ASSUME TypeOK, Decoded, [Next]_vars, regfile' # regfile
  PROVE  \/ rst_n' = 0
         \/ /\ Len(window') = 3 * W /\ window'[W] = 1
            /\ WindowByte(2)' \notin ReadOnly
            /\ regfile' = [regfile EXCEPT ![WindowByte(2)'] = WindowByte(3)']
<1>1. CASE Clock /\ rst_n = 1
  <2>1. ClockEdge /\ Observe
    BY <1>1 DEF Clock
  <2>2. SampleByte /\ byte_cnt = 2 /\ rw = 1 /\ addr \notin ReadOnly
    BY <1>1, <2>1 DEF ClockEdge, Deselected, SampleBit, SampleByte, StoreByte, ShiftOut, NoEdge
  <2>3. /\ Len(window') = 3 * W /\ window'[W] = rw
        /\ WindowByte(2)' = addr /\ WindowByte(3)' = full_byte
    BY <1>1, <2>1, <2>2, DataByte
  <2> QED
    BY <2>2, <2>3 DEF SampleByte, StoreByte
<1>2. CASE Clock /\ rst_n # 1
  BY <1>2 DEF Clock, ClockEdge, slaveVars
<1>3. CASE Reset
  BY <1>3 DEF Reset, AssertReset
<1>4. CASE Release
  BY <1>4 DEF Release, ReleaseReset, slaveVars
<1>5. CASE UNCHANGED vars
  BY <1>5 DEF vars, slaveVars
<1> QED
  BY <1>1, <1>2, <1>3, <1>4, <1>5 DEF Next

(* Nothing but a reset and complete write frames changes the register      *)
(* file, and the read-only registers are never stored to                   *)
(* (spi_slave_gpio_regmap.sv:98-100, 134-139).                             *)
THEOREM OnlyFramesWriteCorrect == Spec => OnlyFramesWrite
<1>1. TypeOK /\ Decoded /\ [Next]_vars =>
        [regfile' # regfile =>
           \/ rst_n' = 0
           \/ /\ Len(window') = 3 * W /\ window'[W] = 1
              /\ LET a == WindowByte(2)' IN
                   a \notin ReadOnly /\ regfile' = [regfile EXCEPT ![a] = WindowByte(3)']
        ]_vars
  BY OnlyFramesWriteStep
<1> QED
  BY <1>1, TypeCorrect, DecodedCorrect, PTL DEF Spec, OnlyFramesWrite

-----------------------------------------------------------------------------
LEMMA ReadAnsweredClockEdge ==
  ASSUME TypeOK, Decoded, ReadAnswered, rst_n = 1, ClockEdge, Observe
  PROVE  ReadAnswered'
<1>1. /\ byte_cnt \in 0..3 /\ bit_cnt \in 0..W-1 /\ mosi_d2 \in Bit
      /\ window \in Seq(Bit) /\ Len(window) = byte_cnt * W + bit_cnt
      /\ sclk_d1 \in Bit /\ sclk_d2 \in Bit
      /\ sclk_d2' = sclk_d1 /\ loaded \in Byte /\ shift_out \in Byte
  BY DEF TypeOK, SlaveTypeOK, Decoded, ClockEdge, Synchronize
<1>2. CASE Deselected
  BY <1>2 DEF Deselected, ReadAnswered
<1>3. CASE SampleByte /\ byte_cnt # 1
  BY <1>1, <1>3 DEF SampleByte, CountByte, ReadAnswered
<1>4. CASE SampleByte /\ byte_cnt = 1
  <2>1. /\ Len(window) = 2 * W - 1 /\ bit_cnt' = 0 /\ sclk_d2' = 1
        /\ window' = Append(window, mosi_d2)
    BY <1>1, <1>4, ObserveWindow DEF SampleByte, CountByte, sclk_rise
  <2>2. loaded' = read_reg(full_byte) /\ loaded' \in Byte
    <3>1. read_reg(full_byte) \in Byte
      BY FullByteType, ReadRegType DEF TypeOK, SlaveTypeOK
    <3> QED
      BY <1>4, <2>1, <3>1 DEF SampleByte, Sampled, Observe
  <2>3. window'[W] = rw
    <3>1. W \in 1..Len(window)
      BY <2>1
    <3> QED
      BY <1>1, <1>4, <2>1, <3>1, AppendBit DEF Decoded
  <2>4. Falls' = 0
    BY <2>1 DEF Falls
  <2>5. window'[W] = 0 => shift_out' = loaded'
    BY <1>4, <2>2, <2>3 DEF SampleByte
  <2>6. loaded' = [j \in 1..W |-> IF j + 0 <= W THEN loaded'[j + 0] ELSE 0]
    BY <2>2 DEF Byte
  <2> QED
    BY <2>4, <2>5, <2>6 DEF ReadAnswered
<1>5. CASE SampleBit
  <2> SUFFICES ASSUME byte_cnt = 2 PROVE ReadAnswered'
    BY <1>5 DEF SampleBit, ReadAnswered
  <2>1. /\ Len(window) = 2 * W + bit_cnt /\ window' = Append(window, mosi_d2)
        /\ bit_cnt' = bit_cnt + 1 /\ sclk_d2 = 0 /\ sclk_d2' = 1
        /\ shift_out' = shift_out /\ miso' = miso /\ byte_cnt' = byte_cnt
    BY <1>1, <1>5, ObserveWindow DEF SampleBit, sclk_rise
  <2>2. Falls' = Falls
    BY <1>1, <2>1 DEF Falls
  <2>3. loaded' = loaded
    BY <1>1, <2>1 DEF Observe
  <2>4. window'[W] = window[W]
    <3>1. W \in 1..Len(window)
      BY <1>1, <2>1
    <3> QED
      BY <1>1, <2>1, <3>1, AppendBit
  <2> QED
    BY <2>1, <2>2, <2>3, <2>4 DEF ReadAnswered
<1>6. CASE ShiftOut
  <2> SUFFICES ASSUME byte_cnt = 2, window[W] = 0 PROVE ReadAnswered'
    BY <1>6, ObserveWindow DEF ShiftOut, ReadAnswered
  <2>1. /\ window' = window /\ bit_cnt' = bit_cnt /\ byte_cnt' = byte_cnt
        /\ sclk_d2 = 1 /\ sclk_d2' = 0 /\ miso' = shift_out[1]
        /\ shift_out' = ShiftLeft(shift_out, 0) /\ loaded' = loaded
    <3>1. ~Sampled
      BY <1>6 DEF ShiftOut, sclk_fall, sclk_rise, Sampled
    <3>2. loaded' = loaded
      BY <3>1 DEF Observe
    <3> QED
      BY <1>1, <1>6, <3>2, ObserveWindow DEF ShiftOut, sclk_fall
  <2>2. Falls = bit_cnt /\ Falls' = bit_cnt + 1
    BY <1>1, <2>1 DEF Falls
  <2>3. \A j \in 1..W : shift_out[j] = IF j + bit_cnt <= W THEN loaded[j + bit_cnt] ELSE 0
    BY <2>2 DEF ReadAnswered
  <2>4. miso' = loaded[bit_cnt + 1]
    <3>1. 1 \in 1..W /\ 1 + bit_cnt <= W /\ 1 + bit_cnt = bit_cnt + 1
      BY <1>1
    <3> QED
      BY <2>1, <2>3, <3>1
  <2>5. ASSUME NEW j \in 1..W
        PROVE  ShiftLeft(shift_out, 0)[j]
                 = IF j + (bit_cnt + 1) <= W THEN loaded[j + (bit_cnt + 1)] ELSE 0
    <3>1. CASE j < W
      <4>1. j + 1 \in 1..W /\ j + 1 + bit_cnt = j + (bit_cnt + 1)
        BY <1>1, <3>1
      <4>2. ShiftLeft(shift_out, 0)[j] = shift_out[j + 1]
        BY <3>1 DEF ShiftLeft
      <4> QED
        BY <2>3, <4>1, <4>2
    <3>2. CASE j = W
      BY <1>1, <3>2 DEF ShiftLeft
    <3>3. j < W \/ j = W
      OBVIOUS
    <3> QED
      BY <3>1, <3>2, <3>3, Zenon
  <2>6. shift_out' = [j \in 1..W |-> IF j + (bit_cnt + 1) <= W
                                     THEN loaded[j + (bit_cnt + 1)] ELSE 0]
    BY <2>1, <2>5 DEF ShiftLeft
  <2> QED
    BY <2>1, <2>2, <2>4, <2>6 DEF ReadAnswered
<1>7. CASE NoEdge
  <2>1. sclk_d2' = sclk_d2 /\ window' = window /\ UNCHANGED <<spiVars, miso>>
    BY <1>1, <1>7, ObserveWindow DEF NoEdge, sclk_rise, sclk_fall
  <2>2. loaded' = loaded
    BY <1>7 DEF NoEdge, Sampled, Observe
  <2> QED
    BY <2>1, <2>2 DEF ReadAnswered, Falls, spiVars
<1> QED
  BY <1>2, <1>3, <1>4, <1>5, <1>6, <1>7 DEF ClockEdge

LEMMA ReadAnsweredStep == TypeOK /\ Decoded /\ ReadAnswered /\ [Next]_vars => ReadAnswered'
<1> SUFFICES ASSUME TypeOK, Decoded, ReadAnswered, [Next]_vars PROVE ReadAnswered'
  OBVIOUS
<1>1. CASE Clock /\ rst_n = 1
  BY <1>1, ReadAnsweredClockEdge DEF Clock
<1>2. CASE Clock /\ rst_n # 1
  BY <1>2 DEF Clock, ClockEdge, slaveVars, spiVars, syncVars, history, ReadAnswered, Falls
<1>3. CASE Reset
  BY <1>3 DEF Reset, AssertReset, ReadAnswered
<1>4. CASE Release
  BY <1>4 DEF Release, ReleaseReset, slaveVars, spiVars, syncVars, history, ReadAnswered, Falls
<1>5. CASE UNCHANGED vars
  BY <1>5 DEF vars, slaveVars, spiVars, syncVars, history, ReadAnswered, Falls
<1> QED
  BY <1>1, <1>2, <1>3, <1>4, <1>5 DEF Next

(* In the third byte of a read frame MISO carries the value the register   *)
(* had when the address was complete, most significant bit first, one bit  *)
(* per falling edge, whatever the pace of the master                       *)
(* (spi_slave_gpio_regmap.sv:127-132, 151-157).                            *)
THEOREM ReadAnsweredCorrect == Spec => []ReadAnswered
<1>1. Init => ReadAnswered
  BY DEF Init, ResetState, ReadAnswered
<1> QED
  BY <1>1, TypeCorrect, DecodedCorrect, ReadAnsweredStep, PTL DEF Spec

=============================================================================
