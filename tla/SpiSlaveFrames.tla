--------------------------- MODULE SpiSlaveFrames ---------------------------
(***************************************************************************)
(* The slave alone, facing any master: between two clk edges the pins may  *)
(* take any level, frames may be cut short or run on, and reset may come   *)
(* at any time.  Four history variables say what has happened, two behind  *)
(* the synchronizers: `window', the MOSI bits sampled since the slave was  *)
(* last deselected (the byte counter has two bits: after four bytes it     *)
(* starts over), and `loaded', the value the slave took to answer the last *)
(* read; and two in front of them, for an observer who looks at the pins   *)
(* at every clk edge: `seen', the levels he saw at the last one, and       *)
(* `wire', the bits he has noted in this frame.                            *)
(***************************************************************************)
EXTENDS SpiSlave

CONSTANT Inputs           \* levels of gpio_in: a bound for model checking

ASSUME InputsAssumption == Inputs \subseteq Byte

VARIABLES window, loaded, seen, wire

history == <<window, loaded, seen, wire>>
vars    == <<spiPins, gpio_in, intent_fifo, rst_n, slaveVars, history>>

-----------------------------------------------------------------------------
AnyPins ==
  /\ mosi' \in Bit /\ sclk' \in Bit /\ cs' \in Bit
  /\ gpio_in' \in Inputs

\* The levels of a deselected bus, which the synchronizers are reset to.
IdlePins == [sclk |-> 0, cs |-> 1, mosi |-> 0]

Init ==
  /\ rst_n = 0 /\ ResetState
  /\ mosi \in Bit /\ sclk \in Bit /\ cs \in Bit /\ gpio_in \in Inputs
  /\ window = <<>> /\ loaded = Zero
  /\ seen = IdlePins /\ wire = <<>>
  /\ intent_fifo = <<>>

Sampled == cs_active /\ sclk_rise

\* A frame by one clk edge more: a bit for a rising edge of SCLK.
Extend(bits, selected, risen, bit) ==
  IF ~selected \/ (risen /\ Len(bits) = 4 * W - 1) THEN <<>>
  ELSE IF risen THEN Append(bits, bit) ELSE bits

\* What one clk edge adds to the history.
Observe ==
  /\ window' = Extend(window, cs_active, sclk_rise, mosi_d2)
  /\ wire'   = Extend(wire, seen.cs = 0, sclk = 1 /\ seen.sclk = 0, seen.mosi)
  /\ seen'   = [sclk |-> sclk, cs |-> cs, mosi |-> mosi]
  /\ loaded' = IF Sampled /\ Len(window) = 2 * W - 1 THEN read_reg(full_byte)
               ELSE loaded

Clock ==
  /\ ClockEdge /\ AnyPins
  /\ IF rst_n = 1 THEN Observe ELSE UNCHANGED history
  /\ UNCHANGED intent_fifo

Reset ==
  /\ AssertReset
  /\ window' = <<>> /\ wire' = <<>> /\ seen' = IdlePins
  /\ UNCHANGED <<spiPins, gpio_in, intent_fifo, loaded>>

Release ==
  /\ ReleaseReset
  /\ UNCHANGED <<spiPins, gpio_in, intent_fifo, history>>

Next == Clock \/ Reset \/ Release

Spec == Init /\ [][Next]_vars

-----------------------------------------------------------------------------
TypeOK ==
  /\ SlaveTypeOK
  /\ {mosi, sclk, cs} \subseteq Bit /\ gpio_in \in Byte
  /\ {window, wire} \subseteq Seq(Bit) /\ loaded \in Byte
  /\ seen \in [{"sclk", "cs", "mosi"} -> Bit]

\* Byte k of the window.
WindowByte(k) == [j \in 1..W |-> window[(k - 1) * W + j]]

(* The registers of the slave are a decoding of the bits on the wire.      *)
Decoded ==
  /\ Len(window) = byte_cnt * W + bit_cnt
  /\ byte_cnt >= 1 => rw = window[W]
  /\ byte_cnt >= 2 => addr = WindowByte(2)
  /\ \A j \in 1..bit_cnt : shift_in[W - bit_cnt + j] = window[byte_cnt * W + j]

(* The slave is one clk edge behind its pins, neither more nor less, and   *)
(* in all three at once: the bits an observer of the pins noted up to one  *)
(* clk edge are those the slave has counted after the next.  A bit is the  *)
(* level MOSI had one clk edge before SCLK was high, so no edge is lost,   *)
(* none is counted twice, none goes to the frame before or behind it, and  *)
(* no bit is taken while the master is changing it.                        *)
FollowsTheWire ==
  [][rst_n = 1 /\ rst_n' = 1 =>
       window' = wire /\ byte_cnt' * W + bit_cnt' = Len(wire)]_vars

(* A write frame that has been received is in the register file, until the *)
(* slave is deselected and some later frame may overwrite it.              *)
WriteTaken ==
  byte_cnt = 3 /\ window[W] = 1 /\ WindowByte(2) \notin ReadOnly
    => regfile[WindowByte(2)] = WindowByte(3)

(* While the third byte of a read frame is transferred, MISO carries the   *)
(* value read, one bit per falling edge of SCLK, and every bit is there    *)
(* before the rising edge of its cycle.  `Falls' are the falling edges     *)
(* since the address was complete.                                         *)
Falls == bit_cnt + 1 - sclk_d2
ReadAnswered ==
  byte_cnt = 2 /\ window[W] = 0 =>
    /\ shift_out = [j \in 1..W |-> IF j + Falls <= W THEN loaded[j + Falls] ELSE 0]
    /\ Falls >= 1 => miso = loaded[Falls]

(* The register file changes by a reset or by a complete write frame: the  *)
(* third byte of the window goes to the address in the second.             *)
OnlyFramesWrite ==
  [][regfile' # regfile =>
       \/ rst_n' = 0
       \/ /\ Len(window') = 3 * W /\ window'[W] = 1
          /\ LET a == WindowByte(2)' IN
               a \notin ReadOnly /\ regfile' = [regfile EXCEPT ![a] = WindowByte(3)']
    ]_vars

=============================================================================
