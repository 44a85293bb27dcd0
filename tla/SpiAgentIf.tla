----------------------------- MODULE SpiAgentIf -----------------------------
(***************************************************************************)
(* What the processes of the SPI side share: the pins of tb_spi_if and     *)
(* tb_gpio_if, and the analysis FIFO through which the driver hands every  *)
(* transaction it is about to drive to the monitor (tb_agents.sv).         *)
(*                                                                         *)
(* A byte is the function of its bits, most significant bit first: b[1] is *)
(* the source's b[7] and b[W] is its b[0].                                 *)
(***************************************************************************)
EXTENDS Naturals, Sequences

CONSTANT W              \* bits of a byte: 8 in the source

ASSUME WidthAssumption == W \in Nat \ {0}

VARIABLES
  mosi, sclk, cs, miso, \* tb_spi_if; cs is active low
  gpio_in,              \* tb_gpio_if, the pins the testbench drives
  intent_fifo           \* spi_monitor's uvm_tlm_analysis_fifo

spiPins == <<mosi, sclk, cs>>

Bit  == {0, 1}
Byte == [1..W -> Bit]
Zero == [j \in 1..W |-> 0]

\* spi_transaction: what the stimulus asks for and, in data, what a read got.
Transaction ==
  [transaction_id : Nat, is_write : Bit, addr : Byte, data : Byte,
   compare_data : Bit, expected_data : Byte]

\* The levels tb_spi_if gives its signals when it is elaborated.
PinsInit == mosi = 0 /\ sclk = 0 /\ cs = 1

=============================================================================
