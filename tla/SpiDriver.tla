----------------------------- MODULE SpiDriver ------------------------------
(***************************************************************************)
(* spi_txn_driver.run_phase (tb_drivers.sv) over the low-level driver's    *)
(* send_multi_byte and send_byte (tb_spi_driver.sv): one process that      *)
(* turns a transaction into pin activity.                                  *)
(*                                                                         *)
(* The process only gives up control at a delay, so an action runs from    *)
(* one delay to the next.  A delay is the number of clk edges that fall in *)
(* it: `timer' counts those still to come, and the step behind the delay   *)
(* is due when it is 0.                                                    *)
(***************************************************************************)
EXTENDS SpiConfig

VARIABLES
  drv,             \* the delay the process is in, "idle" in get_next_item
  timer,           \* clk edges left of that delay
  tx_bytes,        \* the three bytes of the frame
  byte_i, bit_i    \* loop indices of send_multi_byte and send_byte

driverVars == <<drv, timer, tx_bytes, byte_i, bit_i>>

-----------------------------------------------------------------------------
CPOL == IF MODE >= 2 THEN 1 ELSE 0
CPHA == MODE % 2

FirstBit   == W - BPW + 1            \* data[bits_per_word - 1]
FrameBytes == 3

(* Definitions named Fault_... are variants with a plausible bug: nothing  *)
(* uses them but the tests of the properties (README, "Fault variants").   *)

\* Data before address.
Fault_FrameOf(tr) == << [j \in 1..W |-> IF j = W THEN tr.is_write ELSE 0],
                        tr.data, tr.addr >>

FrameOf(tr) == << [j \in 1..W |-> IF j = W THEN tr.is_write ELSE 0],
                  tr.addr, tr.data >>

Due(delay) == drv = delay /\ timer = 0
DriverDue  == drv # "idle" /\ timer = 0

\* Enter a delay of one of the lengths of S.
Delay(S, delay) == drv' = delay /\ timer' \in S

-----------------------------------------------------------------------------
\* init_spi_clock does not wait: CS is high for no time between two frames.
Fault_SendItem(tr) ==
  /\ drv = "idle"
  /\ tx_bytes' = FrameOf(tr)
  /\ intent_fifo' = Append(intent_fifo, tr)
  /\ sclk' = CPOL
  /\ Delay({0}, "init")
  /\ UNCHANGED <<mosi, cs, byte_i, bit_i>>

(* get_next_item, the three bytes, ap.write of the intent and              *)
(* init_spi_clock.                                                         *)
SendItem(tr) ==
  /\ drv = "idle"
  /\ tx_bytes' = FrameOf(tr)
  /\ intent_fifo' = Append(intent_fifo, tr)
  /\ sclk' = CPOL
  /\ Delay(PeriodTicks, "init")
  /\ UNCHANGED <<mosi, cs, byte_i, bit_i>>

\* CS is not driven low.
Fault_AssertCs ==
  /\ Due("init")
  /\ cs' = 1
  /\ Delay(CsTicks, "select")
  /\ UNCHANGED <<mosi, sclk, intent_fifo, tx_bytes, byte_i, bit_i>>

AssertCs ==
  /\ Due("init")
  /\ cs' = 0
  /\ Delay(CsTicks, "select")
  /\ UNCHANGED <<mosi, sclk, intent_fifo, tx_bytes, byte_i, bit_i>>

\* Enter send_byte for byte k: with CPHA = 0 its first bit goes on the wire.
StartByte(k) ==
  /\ byte_i' = k
  /\ bit_i'  = FirstBit
  /\ mosi'   = IF CPHA = 0 THEN tx_bytes[k][FirstBit] ELSE mosi
  /\ Delay(HalfTicks, "lead")
  /\ UNCHANGED <<sclk, cs, intent_fifo, tx_bytes>>

FirstByte == Due("select") /\ StartByte(1)

LeadingEdge ==
  /\ Due("lead")
  /\ sclk' = 1 - sclk
  /\ mosi' = IF CPHA = 1 THEN tx_bytes[byte_i][bit_i] ELSE mosi
  /\ Delay(HalfTicks, "trail")
  /\ UNCHANGED <<cs, intent_fifo, tx_bytes, byte_i, bit_i>>

\* The loop over the bits makes one turn too many.
Fault_TrailingEdge ==
  /\ Due("trail") /\ bit_i <= W
  /\ sclk'  = 1 - sclk
  /\ bit_i' = bit_i + 1
  /\ mosi'  = IF CPHA = 0 /\ bit_i < W THEN tx_bytes[byte_i][bit_i + 1] ELSE mosi
  /\ Delay(HalfTicks, "lead")
  /\ UNCHANGED <<cs, intent_fifo, tx_bytes, byte_i>>

\* The trailing edge of a bit and the data of the next one, at the same time.
TrailingEdge ==
  /\ Due("trail") /\ bit_i < W
  /\ sclk'  = 1 - sclk
  /\ bit_i' = bit_i + 1
  /\ mosi'  = IF CPHA = 0 THEN tx_bytes[byte_i][bit_i + 1] ELSE mosi
  /\ Delay(HalfTicks, "lead")
  /\ UNCHANGED <<cs, intent_fifo, tx_bytes, byte_i>>

LastTrailingEdge ==
  /\ Due("trail") /\ bit_i = W
  /\ sclk' = 1 - sclk
  /\ Delay(GapTicks, "gap")
  /\ UNCHANGED <<mosi, cs, intent_fifo, tx_bytes, byte_i, bit_i>>

NextByte == Due("gap") /\ byte_i < FrameBytes /\ StartByte(byte_i + 1)

EndFrame ==
  /\ Due("gap") /\ byte_i = FrameBytes
  /\ Delay(CsTicks, "deselect")
  /\ UNCHANGED <<spiPins, intent_fifo, tx_bytes, byte_i, bit_i>>

\* CS is deasserted and item_done lets the sequence go on.
NegateCs ==
  /\ Due("deselect")
  /\ cs'  = 1
  /\ drv' = "idle"
  /\ UNCHANGED <<mosi, sclk, intent_fifo, timer, tx_bytes, byte_i, bit_i>>

\* The steps behind a delay.
DriverStep ==
  \/ AssertCs \/ FirstByte \/ LeadingEdge \/ TrailingEdge
  \/ LastTrailingEdge \/ NextByte \/ EndFrame \/ NegateCs

\* A clk edge brings the end of the current delay nearer.
DriverTick ==
  /\ ~DriverDue
  /\ timer' = IF drv = "idle" THEN 0 ELSE timer - 1
  /\ UNCHANGED <<drv, tx_bytes, byte_i, bit_i>>

DriverInit ==
  /\ drv = "idle" /\ timer = 0
  /\ tx_bytes = <<>> /\ byte_i = 1 /\ bit_i = 1

DriverTypeOK ==
  /\ drv \in {"idle", "init", "select", "lead", "trail", "gap", "deselect"}
  /\ timer \in Nat
  /\ tx_bytes \in {<<>>} \cup (Byte \X Byte \X Byte)
  /\ drv # "idle" => tx_bytes # <<>>
  /\ byte_i \in 1..FrameBytes /\ bit_i \in 1..W
  /\ mosi \in Bit /\ sclk \in Bit /\ cs \in Bit

=============================================================================
