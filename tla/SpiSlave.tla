------------------------------ MODULE SpiSlave ------------------------------
(***************************************************************************)
(* The design under test, source/spi_slave_gpio_regmap.sv: an SPI slave in *)
(* front of a register file, all of whose state is clocked by clk.         *)
(*                                                                         *)
(* One ClockEdge step is one posedge of clk: both always_ff blocks read    *)
(* the values of before the edge and their nonblocking assignments take    *)
(* effect together, which is what priming says.  ClockEdge leaves the      *)
(* input pins to whoever composes the module.                              *)
(***************************************************************************)
EXTENDS SpiAgentIf

CONSTANTS ADDR_ID, ADDR_GPIO_IN, ADDR_GPIO_OUT, ID_VALUE

ASSUME AddressAssumption ==
  /\ {ADDR_ID, ADDR_GPIO_IN, ADDR_GPIO_OUT, ID_VALUE} \subseteq Byte
  /\ ADDR_GPIO_OUT \notin {ADDR_ID, ADDR_GPIO_IN}

VARIABLES
  rst_n, regfile,
  sclk_d1, sclk_d2, cs_d1, cs_d2, mosi_d1, mosi_d2,   \* synchronizers
  bit_cnt, byte_cnt, shift_in, shift_out, rw, addr    \* SPI state

syncVars == <<sclk_d1, sclk_d2, cs_d1, cs_d2, mosi_d1, mosi_d2>>
spiVars  == <<bit_cnt, byte_cnt, shift_in, shift_out, rw, addr>>
slaveVars == <<miso, regfile, syncVars, spiVars>>

-----------------------------------------------------------------------------
(* Definitions named Fault_... are variants with a plausible bug: nothing  *)
(* uses them but the tests of the properties (README, "Fault variants").   *)

-----------------------------------------------------------------------------
\* A level instead of an edge.
Fault_sclk_rise == sclk_d1 = 1

sclk_rise == sclk_d1 = 1 /\ sclk_d2 = 0
sclk_fall == sclk_d1 = 0 /\ sclk_d2 = 1
cs_active == cs_d2 = 0
gpio_out  == regfile[ADDR_GPIO_OUT]

\* {b[6:0], in}: the most significant bit drops out, in enters at the other end.
ShiftLeft(b, in) == [j \in 1..W |-> IF j < W THEN b[j + 1] ELSE in]
\* The byte before its last bit.
Fault_full_byte  == shift_in
full_byte        == ShiftLeft(shift_in, mosi_d2)

ReadOnly == {ADDR_ID, ADDR_GPIO_IN}

\* read_reg, over any register file and pins, so that it can be promised too.
ReadReg(mem, pins, a) == IF a = ADDR_ID THEN ID_VALUE
                         ELSE IF a = ADDR_GPIO_IN THEN pins
                         ELSE mem[a]
read_reg(a) == ReadReg(regfile, gpio_in, a)

-----------------------------------------------------------------------------
(* What negedge rst_n leaves in every register of the design.              *)
ResetState ==
  /\ sclk_d1 = 0 /\ sclk_d2 = 0
  /\ cs_d1 = 1   /\ cs_d2 = 1
  /\ mosi_d1 = 0 /\ mosi_d2 = 0
  /\ bit_cnt = 0 /\ byte_cnt = 0
  /\ shift_in = Zero /\ shift_out = Zero
  /\ rw = 0 /\ addr = Zero /\ miso = 0
  /\ regfile = [a \in Byte |-> Zero]

\* MOSI passes one flop, CS and SCLK two.
Fault_Synchronize ==
  /\ sclk_d1' = sclk /\ sclk_d2' = sclk_d1
  /\ cs_d1'   = cs   /\ cs_d2'   = cs_d1
  /\ mosi_d1' = mosi /\ mosi_d2' = mosi

Synchronize ==
  /\ sclk_d1' = sclk /\ sclk_d2' = sclk_d1
  /\ cs_d1'   = cs   /\ cs_d2'   = cs_d1
  /\ mosi_d1' = mosi /\ mosi_d2' = mosi_d1

\* The byte counter survives the end of a frame.
Fault_Deselected ==
  /\ ~cs_active
  /\ bit_cnt' = 0
  /\ UNCHANGED <<byte_cnt, shift_in, shift_out, rw, addr, miso, regfile>>

\* CS is high: the position in the frame is forgotten, nothing else.
Deselected ==
  /\ ~cs_active
  /\ bit_cnt' = 0 /\ byte_cnt' = 0
  /\ UNCHANGED <<shift_in, shift_out, rw, addr, miso, regfile>>

\* A rising edge of SCLK that does not complete a byte.
SampleBit ==
  /\ cs_active /\ sclk_rise /\ bit_cnt # W - 1
  /\ shift_in' = full_byte
  /\ bit_cnt'  = bit_cnt + 1
  /\ UNCHANGED <<byte_cnt, shift_out, rw, addr, miso, regfile>>

CountByte == bit_cnt' = 0 /\ byte_cnt' = (byte_cnt + 1) % 4

\* The read-only registers are not protected.
Fault_StoreByte ==
  regfile' = IF byte_cnt = 2 /\ rw = 1 THEN [regfile EXCEPT ![addr] = full_byte] ELSE regfile
StoreByte ==
  regfile' = IF byte_cnt = 2 /\ rw = 1 /\ addr \notin ReadOnly
             THEN [regfile EXCEPT ![addr] = full_byte] ELSE regfile

\* A rising edge of SCLK that completes the command, address or data byte.
SampleByte ==
  /\ cs_active /\ sclk_rise /\ bit_cnt = W - 1
  /\ shift_in'  = full_byte
  /\ CountByte
  /\ rw'        = IF byte_cnt = 0 THEN full_byte[W] ELSE rw
  /\ addr'      = IF byte_cnt = 1 THEN full_byte ELSE addr
  /\ shift_out' = IF byte_cnt = 1 /\ rw = 0 THEN read_reg(full_byte) ELSE shift_out
  /\ StoreByte
  /\ UNCHANGED miso

\* The byte on its way out is not shifted.
Fault_ShiftOut ==
  /\ cs_active /\ sclk_fall
  /\ miso' = shift_out[1]
  /\ UNCHANGED <<bit_cnt, byte_cnt, shift_in, shift_out, rw, addr, regfile>>

\* A falling edge of SCLK: the next bit goes out on MISO.
ShiftOut ==
  /\ cs_active /\ sclk_fall
  /\ miso'      = shift_out[1]
  /\ shift_out' = ShiftLeft(shift_out, 0)
  /\ UNCHANGED <<bit_cnt, byte_cnt, shift_in, rw, addr, regfile>>

NoEdge ==
  /\ cs_active /\ ~sclk_rise /\ ~sclk_fall
  /\ UNCHANGED <<spiVars, miso, regfile>>

(* posedge clk.  Under reset it changes nothing: every register holds its  *)
(* reset value already.                                                    *)
ClockEdge ==
  /\ UNCHANGED rst_n
  /\ \/ rst_n = 0 /\ UNCHANGED slaveVars
     \/ /\ rst_n = 1
        /\ Synchronize
        /\ Deselected \/ SampleBit \/ SampleByte \/ ShiftOut \/ NoEdge

\* negedge rst_n: asynchronous.
AssertReset ==
  /\ rst_n = 1 /\ rst_n' = 0
  /\ sclk_d1' = 0 /\ sclk_d2' = 0
  /\ cs_d1' = 1   /\ cs_d2' = 1
  /\ mosi_d1' = 0 /\ mosi_d2' = 0
  /\ bit_cnt' = 0 /\ byte_cnt' = 0
  /\ shift_in' = Zero /\ shift_out' = Zero
  /\ rw' = 0 /\ addr' = Zero /\ miso' = 0
  /\ regfile' = [a \in Byte |-> Zero]

ReleaseReset == rst_n = 0 /\ rst_n' = 1 /\ UNCHANGED slaveVars

-----------------------------------------------------------------------------
SlaveTypeOK ==
  /\ rst_n \in Bit /\ miso \in Bit
  /\ regfile \in [Byte -> Byte]
  /\ {sclk_d1, sclk_d2, cs_d1, cs_d2, mosi_d1, mosi_d2, rw} \subseteq Bit
  /\ bit_cnt \in 0..W-1 /\ byte_cnt \in 0..3
  /\ {shift_in, shift_out, addr} \subseteq Byte

=============================================================================
