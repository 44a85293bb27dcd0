------------------------------- MODULE SpiBus -------------------------------
(***************************************************************************)
(* The SPI side of the testbench, closed: the stimulus, the driver, the    *)
(* design under test, the monitor and the scoreboard on the same pins, in  *)
(* simulated time.                                                         *)
(*                                                                         *)
(* Time is counted in edges of clk.  It moves (Tick) only when no process  *)
(* is due: a simulator runs every process that can run in the current time *)
(* step, in any order, before it advances.  No pin of the driver changes   *)
(* in the very time step of a clk edge, because clk has its edges at half  *)
(* nanoseconds (tb_top's CLK_PERIOD / 2) and the stimulus starts and       *)
(* paces everything in whole ones.                                         *)
(***************************************************************************)
EXTENDS SpiSlave, SpiDriver, SpiMonitor

CONSTANTS
  MaxItems,       \* SPI lines of the stimuli file: bounds the model
  Addresses, Data,\* bytes the stimuli file uses
  Offsets         \* GPIO lines it sets

ASSUME StimulusAssumption ==
  /\ MaxItems \in Nat
  /\ Addresses \subseteq Byte /\ Data \subseteq Byte /\ Offsets \subseteq 1..W

VARIABLE sent     \* SPI lines executed so far

vars == <<spi_cfg, spiPins, gpio_in, intent_fifo, rst_n, slaveVars, driverVars,
          monitorVars, scoreVars, sent>>

-----------------------------------------------------------------------------
\* The two transactions fstim_generator builds from an SPI line.
WriteItem(id, a, d) ==
  [transaction_id |-> id, is_write |-> 1, addr |-> a, data |-> d,
   compare_data |-> 0, expected_data |-> Zero]
ReadItem(id, a, e, c) ==
  [transaction_id |-> id, is_write |-> 0, addr |-> a, data |-> Zero,
   compare_data |-> c, expected_data |-> e]

Items(id) == {WriteItem(id, a, d) : a \in Addresses, d \in Data} \cup
             {ReadItem(id, a, e, c) : a \in Addresses, e \in Data, c \in Bit}

Init ==
  /\ ConfigInit
  /\ PinsInit /\ gpio_in = Zero
  /\ rst_n = 0 /\ ResetState
  /\ DriverInit /\ MonitorInit
  /\ sent = 0

(* finish_item of the next SPI line.  The stimuli file pauses beyond the   *)
(* reset pulse before its first line.                                      *)
Send ==
  /\ rst_n = 1 /\ sent < MaxItems
  /\ sent' = sent + 1
  /\ \E tr \in Items(sent + 1) : SendItem(tr)
  /\ UNCHANGED <<spi_cfg, gpio_in, rst_n, slaveVars, monitorVars, scoreVars>>

(* A GPIO SET line.  The generator runs its lines one at a time, so the    *)
(* SPI driver is idle.                                                     *)
SetGpio ==
  /\ drv = "idle"
  /\ \E offset \in Offsets, value \in Bit : gpio_in' = [gpio_in EXCEPT ![offset] = value]
  /\ UNCHANGED <<spi_cfg, spiPins, intent_fifo, rst_n, slaveVars, driverVars,
                 monitorVars, scoreVars, sent>>

Drive ==
  /\ DriverStep
  /\ UNCHANGED <<spi_cfg, gpio_in, rst_n, slaveVars, monitorVars, scoreVars, sent>>

Monitor ==
  /\ MonitorStep
  /\ UNCHANGED <<spi_cfg, spiPins, gpio_in, rst_n, slaveVars, driverVars, sent>>

Tick ==
  /\ ~MonitorDue
  /\ DriverTick
  /\ ClockEdge
  /\ UNCHANGED <<spi_cfg, spiPins, gpio_in, intent_fifo, monitorVars, scoreVars, sent>>

Release ==
  /\ ReleaseReset
  /\ UNCHANGED <<spi_cfg, spiPins, gpio_in, intent_fifo, driverVars, monitorVars, scoreVars, sent>>

Next == Send \/ SetGpio \/ Drive \/ Monitor \/ Tick \/ Release

Spec == Init /\ [][Next]_vars

(* The simulator keeps running every process that can run, and time.       *)
Fairness == WF_vars(Drive) /\ WF_vars(Monitor) /\ WF_vars(Tick)

FairSpec == Spec /\ Fairness

-----------------------------------------------------------------------------
TypeOK ==
  /\ SlaveTypeOK /\ DriverTypeOK /\ MonitorTypeOK
  /\ gpio_in \in Byte
  /\ sent \in 0..MaxItems

(* No edge of SCLK is lost, duplicated or counted in the wrong frame: the  *)
(* bits the slave has counted in this frame and the rising edges still in  *)
(* its synchronizer are the rising edges the driver has made, the leading  *)
(* ones when SCLK idles low, the trailing ones when it idles high.  What   *)
(* the slave has counted, or will, with the high level of CS in its        *)
(* synchronizer does not count: that level will clear it.                  *)
InFrame == cs = 0 /\ drv # "idle"

RiseMade  == IF CPOL = 0 THEN {"trail", "gap", "deselect"} ELSE {"gap", "deselect"}
EdgesMade == IF drv \in {"init", "select"} THEN 0
             ELSE (byte_i - 1) * BPW + (bit_i - FirstBit) + (IF drv \in RiseMade THEN 1 ELSE 0)

BitsCounted  == IF cs_d1 = 1 \/ cs_d2 = 1 THEN 0 ELSE byte_cnt * W + bit_cnt
RisesPending == (IF sclk = 1 /\ sclk_d1 = 0 /\ cs_d1 = 0 THEN 1 ELSE 0) +
                (IF sclk_rise /\ cs_active THEN 1 ELSE 0)

EdgesConserved == InFrame => BitsCounted + RisesPending = EdgesMade

(* While CS is low, the monitor is inside receive_transaction for the very *)
(* transaction whose bytes the driver is sending, and no other is queued;  *)
(* and whenever it waits for the next edge it has every bit the driver has *)
(* finished and not one more, in byte and bit.                             *)
BitsFinished == IF drv \in {"init", "select"} THEN 0
                ELSE (byte_i - 1) * BPW + (bit_i - FirstBit) +
                     (IF drv \in {"gap", "deselect"} THEN 1 ELSE 0)
BitsReceived == Len(received_data) * W + (IF mon = "byte" THEN rx_i - 1 ELSE 0)

MonitorFollowsDriver ==
  InFrame => /\ intent_fifo = <<>>
             /\ mon # "intent"
             /\ FrameOf(mon_tr) = tx_bytes
             /\ ~MonitorDue => BitsReceived = BitsFinished

\* Every transaction that was sent is judged by the scoreboard.
EveryItemScored ==
  \A n \in 1..MaxItems : (sent >= n) ~> (scored.tr.transaction_id >= n)

(* The whole is an atomic register file (RegMap).                          *)
InProgress == IF mon = "intent" THEN <<>> ELSE <<mon_tr>>
Returned   == IF mon # "intent" /\ Len(received_data) >= 3
              THEN <<received_data[3]>> ELSE <<>>

Registers == INSTANCE RegMap WITH
  Request <- UNION {Items(n) : n \in 1..MaxItems},
  IdAddr <- ADDR_ID, InAddr <- ADDR_GPIO_IN, IdValue <- ID_VALUE,
  mem <- regfile, pins <- gpio_in, queue <- InProgress \o intent_fifo,
  result <- Returned, report <- scored, errors <- uvm_errors

ImplementsRegMap == Registers!Spec

(* Bytes are received while CS remains low: the comment of                 *)
(* receive_transaction (tb_spi_monitor.sv:62-63).                          *)
ReceivesWhileSelected == mon = "byte" => cs = 0

=============================================================================
