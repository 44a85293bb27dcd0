----------------------------- MODULE SpiBusProofs -----------------------------
(***************************************************************************)
(* The SPI side of the testbench: proofs of the invariants of SpiBus for   *)
(* every width W of a byte, every set of delays the configuration accepts  *)
(* and any number of transactions; and, in the second part, that SpiBus    *)
(* implements RegMap.                                                      *)
(***************************************************************************)
EXTENDS SpiBus, SpiSlaveLemmas

USE WidthAssumption DEF Bit, WidthAssumption

-----------------------------------------------------------------------------
(* The test makes the configuration once: nothing changes it.              *)
ConfigFixed == spi_cfg \in Configs

(* What the configuration gives: a mode, the first bit of a byte, and      *)
(* delays that let a clk edge pass.                                        *)
LEMMA ConfigFacts ==
  ASSUME ConfigFixed
  PROVE  /\ MODE \in 0..3 /\ CPOL \in Bit /\ BPW \in 1..W /\ FirstBit \in 1..W
         /\ PeriodTicks \subseteq Nat \ {0} /\ HalfTicks \subseteq Nat \ {0}
         /\ GapTicks \subseteq Nat \ {0} /\ CsTicks \subseteq Nat \ {0}
<1>1. MODE \in 0..3 /\ BPW \in 1..W
  BY ConfigAssumption DEF ConfigFixed, MODE, BPW
<1>2. FirstBit \in 1..W /\ CPOL \in Bit
  BY <1>1 DEF FirstBit, CPOL
<1>3. /\ PeriodTicks \subseteq Nat \ {0} /\ HalfTicks \subseteq Nat \ {0}
      /\ GapTicks \subseteq Nat \ {0} /\ CsTicks \subseteq Nat \ {0}
  BY ConfigAssumption DEF ConfigFixed, PeriodTicks, HalfTicks, GapTicks, CsTicks, Ticks
<1> QED
  BY <1>1, <1>2, <1>3

LEMMA ConfigInvariant == Spec => []ConfigFixed
<1>1. Init => ConfigFixed
  BY DEF Init, ConfigInit, ConfigFixed
<1>2. ConfigFixed /\ [Next]_vars => ConfigFixed'
  BY DEF ConfigFixed, Next, Send, SetGpio, Drive, Monitor, Tick, Release, vars
<1> QED
  BY <1>1, <1>2, PTL DEF Spec

(* The transactions of a stimuli file are transactions, and a transaction  *)
(* makes a frame of three bytes.                                           *)
LEMMA ItemType ==
  ASSUME NEW n \in Nat, NEW tr \in Items(n)
  PROVE  tr \in Transaction /\ tr.transaction_id = n
<1>1. Zero \in Byte /\ Addresses \subseteq Byte /\ Data \subseteq Byte
  BY ZeroType, StimulusAssumption
<1>2. CASE \E a \in Addresses, d \in Data : tr = WriteItem(n, a, d)
  BY <1>1, <1>2 DEF WriteItem, Transaction
<1>3. CASE \E a \in Addresses, e \in Data, c \in Bit : tr = ReadItem(n, a, e, c)
  BY <1>1, <1>3 DEF ReadItem, Transaction
<1> QED
  BY <1>2, <1>3 DEF Items

LEMMA FrameType ==
  ASSUME NEW tr \in Transaction
  PROVE  FrameOf(tr) \in Byte \X Byte \X Byte
BY DEF FrameOf, Transaction, Byte

LEMMA NoTransactionType == NoTransaction \in Transaction
BY ZeroType DEF NoTransaction, Transaction

(* What the scoreboard is told is a transaction and a verdict.             *)
LEMMA ScoredType ==
  ASSUME NEW tr \in Transaction, NEW bytes \in Seq(Byte)
  PROVE  /\ Observed(tr, bytes) \in Transaction
         /\ Verdict(tr) \in {"write", "no compare", "ok", "mismatch"}
<1>1. Observed(tr, bytes) \in Transaction
  <2>1. CASE tr.is_write = 0 /\ Len(bytes) >= 3
    <3>1. bytes[3] \in Byte
      BY <2>1
    <3>2. Observed(tr, bytes) = [tr EXCEPT !.data = bytes[3]]
      BY <2>1 DEF Observed
    <3> QED
      BY <3>1, <3>2 DEF Transaction
  <2>2. CASE ~(tr.is_write = 0 /\ Len(bytes) >= 3)
    BY <2>2 DEF Observed
  <2> QED
    BY <2>1, <2>2
<1>2. Verdict(tr) \in {"write", "no compare", "ok", "mismatch"}
  BY DEF Verdict
<1> QED
  BY <1>1, <1>2

-----------------------------------------------------------------------------
LEMMA TypeInit == Init => TypeOK
<1> SUFFICES ASSUME Init PROVE TypeOK
  OBVIOUS
<1> USE DEF Init
<1>1. SlaveTypeOK
  BY ZeroType DEF ResetState, SlaveTypeOK
<1>2. DriverTypeOK
  BY DEF DriverInit, PinsInit, DriverTypeOK, FrameBytes
<1>3. MonitorTypeOK
  <2>1. NoTransaction \in Transaction
    BY NoTransactionType
  <2>2. scored \in Judged
    BY <2>1 DEF MonitorInit, Judged
  <2> QED
    BY <2>1, <2>2, ZeroType DEF MonitorInit, MonitorTypeOK
<1> QED
  BY <1>1, <1>2, <1>3, ZeroType, StimulusAssumption DEF TypeOK

(* Between two delays the driver keeps its indices and bytes in range.     *)
LEMMA TypeDriver ==
  ASSUME ConfigFixed, DriverTypeOK, DriverStep
  PROVE  DriverTypeOK'
<1> USE DEF DriverTypeOK, Due, Delay, FrameBytes
<1>1. /\ FirstBit \in 1..W /\ CPOL \in Bit
      /\ HalfTicks \subseteq Nat /\ GapTicks \subseteq Nat /\ CsTicks \subseteq Nat
  BY ConfigFacts
<1>2. ASSUME NEW k \in 1..3, NEW i \in 1..W, tx_bytes # <<>> PROVE tx_bytes[k][i] \in Bit
  BY <1>2 DEF Byte
<1>3. ASSUME NEW k \in 1..3, StartByte(k), drv # "idle" PROVE DriverTypeOK'
  BY <1>1, <1>2, <1>3 DEF StartByte
<1>4. CASE AssertCs
  BY <1>1, <1>4 DEF AssertCs
<1>5. CASE FirstByte
  BY <1>3, <1>5 DEF FirstByte
<1>6. CASE LeadingEdge
  BY <1>1, <1>2, <1>6 DEF LeadingEdge
<1>7. CASE TrailingEdge
  <2>1. bit_i + 1 \in 1..W /\ tx_bytes # <<>>
    BY <1>7 DEF TrailingEdge
  <2>2. tx_bytes[byte_i][bit_i + 1] \in Bit
    BY <1>2, <2>1
  <2> QED
    BY <1>1, <1>7, <2>1, <2>2 DEF TrailingEdge
<1>8. CASE LastTrailingEdge
  BY <1>1, <1>8 DEF LastTrailingEdge
<1>9. CASE NextByte
  <2>1. byte_i + 1 \in 1..3 /\ StartByte(byte_i + 1) /\ drv # "idle"
    BY <1>9 DEF NextByte
  <2> QED
    BY <1>3, <2>1
<1>10. CASE EndFrame
  BY <1>1, <1>10 DEF EndFrame, spiPins
<1>11. CASE NegateCs
  BY <1>1, <1>11 DEF NegateCs
<1> QED
  BY <1>4, <1>5, <1>6, <1>7, <1>8, <1>9, <1>10, <1>11 DEF DriverStep

(* What neither the monitor nor the scoreboard keeps changes.              *)
MonitorStays == UNCHANGED <<monitorVars, scoreVars, intent_fifo>>

LEMMA TypeMonitorStays ==
  ASSUME MonitorTypeOK, MonitorStays
  PROVE  MonitorTypeOK'
BY DEF MonitorTypeOK, MonitorStays, monitorVars, scoreVars

LEMMA TypeMonitor ==
  ASSUME MonitorTypeOK, miso \in Bit, sclk \in Bit, MonitorStep
  PROVE  MonitorTypeOK'
<1> USE DEF MonitorTypeOK
<1>1. Zero \in Byte
  BY ZeroType
<1>2. CASE GetIntent
  <2>1. /\ mon_tr' = Head(intent_fifo) /\ intent_fifo' = Tail(intent_fifo)
        /\ received_data' = <<>> /\ mon' = "cs"
        /\ sclk_seen' = sclk_seen /\ received_byte' = received_byte /\ rx_i' = rx_i
        /\ scored' = scored /\ uvm_errors' = uvm_errors
    BY <1>2 DEF GetIntent, scoreVars
  <2>2. mon_tr' \in Transaction /\ intent_fifo' \in Seq(Transaction)
    BY <1>2, <2>1 DEF GetIntent
  <2>3. received_data' \in Seq(Byte)
    BY <2>1
  <2> QED
    BY <2>1, <2>2, <2>3
<1>3. CASE SeeSelect \/ ContinueFrame
  <2>1. /\ mon_tr' = mon_tr /\ intent_fifo' = intent_fifo
        /\ received_data' = received_data /\ mon' = "byte"
        /\ sclk_seen' = sclk /\ received_byte' = Zero /\ rx_i' = 1
        /\ scored' = scored /\ uvm_errors' = uvm_errors
    BY <1>3 DEF SeeSelect, ContinueFrame, EnterReceiveByte, scoreVars
  <2> QED
    BY <1>1, <2>1
<1>4. CASE IgnoreEdge
  <2>1. sclk_seen' = sclk /\ UNCHANGED <<mon, mon_tr, received_byte, rx_i, received_data,
                                        intent_fifo, scored, uvm_errors>>
    BY <1>4 DEF IgnoreEdge, scoreVars
  <2> QED
    BY <2>1
<1>5. CASE SampleMiso
  <2>1. /\ sclk_seen' = sclk /\ mon_tr' = mon_tr /\ intent_fifo' = intent_fifo
        /\ scored' = scored /\ uvm_errors' = uvm_errors
        /\ received_byte' = [received_byte EXCEPT ![rx_i] = miso]
        /\ mon' \in {"byte", "between"} /\ rx_i' \in 1..W
        /\ received_data' = received_data \/ received_data' = Append(received_data, received_byte')
    BY <1>5 DEF SampleMiso, scoreVars
  <2>2. received_byte' \in Byte
    BY <2>1 DEF Byte
  <2>3. received_data' \in Seq(Byte)
    BY <2>1, <2>2
  <2> QED
    BY <2>1, <2>2, <2>3
<1>7. CASE Publish
  <2> DEFINE tr == Observed(mon_tr, received_data)
  <2>1. tr \in Transaction /\ Verdict(tr) \in {"write", "no compare", "ok", "mismatch"}
    BY ScoredType
  <2>2. /\ mon_tr' = tr /\ scored' = [tr |-> tr, verdict |-> Verdict(tr)]
        /\ uvm_errors' = uvm_errors + (IF Verdict(tr) = "mismatch" THEN 1 ELSE 0)
        /\ mon' = "intent" /\ UNCHANGED <<sclk_seen, received_byte, rx_i, received_data, intent_fifo>>
    BY <1>7 DEF Publish
  <2> HIDE DEF tr
  <2>3. scored' \in Judged
    BY <2>1, <2>2 DEF Judged
  <2>4. uvm_errors' \in Nat
    BY <2>2
  <2> QED
    BY <2>1, <2>2, <2>3, <2>4
<1> QED
  BY <1>2, <1>3, <1>4, <1>5, <1>7 DEF MonitorStep

LEMMA TypeStep == ConfigFixed /\ TypeOK /\ [Next]_vars => TypeOK'
<1> SUFFICES ASSUME ConfigFixed, TypeOK, [Next]_vars PROVE TypeOK'
  OBVIOUS
<1> USE DEF TypeOK
<1>1. CASE Send
  <2>1. PICK tr \in Items(sent + 1) : SendItem(tr)
    BY <1>1 DEF Send
  <2>2. tr \in Transaction /\ FrameOf(tr) \in Byte \X Byte \X Byte
    BY <2>1, ItemType, FrameType
  <2>3. DriverTypeOK'
    <3>1. PeriodTicks \subseteq Nat /\ CPOL \in Bit
      BY ConfigFacts
    <3>2. /\ tx_bytes' = FrameOf(tr) /\ sclk' = CPOL /\ drv' = "init" /\ timer' \in PeriodTicks
          /\ UNCHANGED <<mosi, cs, byte_i, bit_i>>
      BY <2>1 DEF SendItem, Delay
    <3>3. tx_bytes' # <<>>
      BY <3>2 DEF FrameOf
    <3> QED
      BY <2>2, <3>1, <3>2, <3>3 DEF DriverTypeOK
  <2>4. MonitorTypeOK'
    <3>1. intent_fifo' = Append(intent_fifo, tr) /\ UNCHANGED <<monitorVars, scoreVars>>
      BY <1>1, <2>1 DEF Send, SendItem
    <3>2. intent_fifo' \in Seq(Transaction)
      BY <2>2, <3>1 DEF MonitorTypeOK
    <3> QED
      BY <3>1, <3>2 DEF MonitorTypeOK, monitorVars, scoreVars
  <2>5. SlaveTypeOK' /\ gpio_in' = gpio_in
    BY <1>1 DEF Send, SlaveTypeOK, slaveVars, syncVars, spiVars
  <2> QED
    BY <1>1, <2>3, <2>4, <2>5, StimulusAssumption DEF Send
<1>2. CASE SetGpio
  <2>1. gpio_in' \in Byte
    BY <1>2, StimulusAssumption DEF SetGpio, Byte
  <2>2. MonitorTypeOK'
    BY <1>2, TypeMonitorStays DEF SetGpio, MonitorStays
  <2> QED
    BY <1>2, <2>1, <2>2 DEF SetGpio, SlaveTypeOK, DriverTypeOK, slaveVars, syncVars,
                            spiVars, driverVars, spiPins
<1>3. CASE Drive
  <2>1. DriverTypeOK'
    BY <1>3, TypeDriver DEF Drive
  <2>2. intent_fifo' = intent_fifo
    BY <1>3 DEF Drive, DriverStep, AssertCs, FirstByte, NextByte, StartByte, LeadingEdge,
                TrailingEdge, LastTrailingEdge, EndFrame, NegateCs
  <2>3. MonitorTypeOK'
    BY <1>3, <2>2, TypeMonitorStays DEF Drive, MonitorStays
  <2> QED
    BY <1>3, <2>1, <2>3 DEF Drive, SlaveTypeOK, slaveVars, syncVars, spiVars
<1>4. CASE Monitor
  <2>1. MonitorTypeOK'
    BY <1>4, TypeMonitor DEF Monitor, SlaveTypeOK, DriverTypeOK
  <2> QED
    BY <1>4, <2>1 DEF Monitor, SlaveTypeOK, DriverTypeOK, slaveVars, syncVars, spiVars,
                      driverVars, spiPins
<1>5. CASE Tick
  <2>1. SlaveTypeOK'
    BY <1>5, TypeClockEdge DEF Tick, DriverTypeOK
  <2>2. DriverTypeOK'
    BY <1>5 DEF Tick, DriverTick, DriverDue, DriverTypeOK, spiPins
  <2>3. MonitorTypeOK'
    BY <1>5, TypeMonitorStays DEF Tick, MonitorStays
  <2> QED
    BY <1>5, <2>1, <2>2, <2>3 DEF Tick
<1>6. CASE Release
  <2>1. MonitorTypeOK'
    BY <1>6, TypeMonitorStays DEF Release, MonitorStays
  <2> QED
    BY <1>6, <2>1 DEF Release, ReleaseReset, SlaveTypeOK, DriverTypeOK, slaveVars,
                      syncVars, spiVars, driverVars, spiPins
<1>7. CASE UNCHANGED vars
  <2>1. MonitorTypeOK'
    BY <1>7, TypeMonitorStays DEF vars, MonitorStays
  <2> QED
    BY <1>7, <2>1 DEF vars, SlaveTypeOK, DriverTypeOK, slaveVars,
                      syncVars, spiVars, driverVars, spiPins
<1> QED
  BY <1>1, <1>2, <1>3, <1>4, <1>5, <1>6, <1>7 DEF Next

(* Pins, registers, loop indices and queues keep their ranges: no byte     *)
(* index of send_multi_byte or bit index of send_byte and receive_byte     *)
(* leaves the byte (tb_spi_driver.sv, tb_spi_monitor.sv).                  *)
THEOREM TypeCorrect == Spec => []TypeOK
<1> QED
  BY ConfigInvariant, TypeInit, TypeStep, PTL DEF Spec

-----------------------------------------------------------------------------
(* Why no edge of SCLK is lost.                                            *)

\* A delay lets at least one clk edge pass, so that when it is over the first
\* stage of the synchronizer has the levels of the pins.
Paced == drv # "idle" => rst_n = 1 /\ (timer = 0 => sclk_d1 = sclk /\ cs_d1 = cs)

\* The level of each pin in each place of the driver.
Levels ==
  /\ cs = IF drv \in {"idle", "init"} THEN 1 ELSE 0
  /\ drv = "trail" => sclk = 1 - CPOL
  /\ drv \notin {"idle", "trail"} => sclk = CPOL
  /\ cs_d1 = 0 \/ cs_d2 = 0 => drv = "trail" \/ sclk = CPOL

Places ==
  /\ drv \in {"lead", "trail", "gap", "deselect"} => bit_i >= FirstBit
  /\ drv \in {"gap", "deselect"} => bit_i = W
  /\ drv = "deselect" => byte_i = FrameBytes

\* While a change of CS is in the synchronizer, no change of SCLK is.
Quiet ==
  /\ drv \in {"idle", "init", "select"} /\ (cs_d1 = 0 \/ cs_d2 = 0) =>
       sclk_d1 = sclk /\ sclk_d2 = sclk
  /\ drv \in {"select", "deselect"} => sclk_d1 = sclk
  /\ drv = "deselect" /\ timer = 0 => sclk_d2 = sclk
  /\ drv \in {"lead", "trail", "gap", "deselect"} => cs_d1 = 0
  /\ drv \in {"trail", "gap", "deselect"} => cs_d2 = 0
  /\ drv = "lead" /\ cs_d2 = 1 =>
       byte_i = 1 /\ bit_i = FirstBit /\ timer # 0 /\ sclk_d1 = sclk

Timing == Paced /\ Levels /\ Places /\ Quiet

LEMMA SameConfig ==
  ASSUME spi_cfg' = spi_cfg
  PROVE  /\ CPOL' = CPOL /\ BPW' = BPW /\ FirstBit' = FirstBit /\ RiseMade' = RiseMade
BY DEF CPOL, MODE, BPW, FirstBit, RiseMade

LEMMA TimingInit == Init => Timing
BY DEF Init, DriverInit, PinsInit, ResetState, Timing, Paced, Levels, Places, Quiet

LEMMA TimingStep == ConfigFixed /\ TypeOK /\ Timing /\ [Next]_vars => Timing'
<1> SUFFICES ASSUME ConfigFixed, TypeOK, Timing, [Next]_vars PROVE Timing'
  OBVIOUS
<1>1. /\ CPOL \in Bit /\ FirstBit \in 1..W /\ FrameBytes = 3
      /\ sclk \in Bit /\ cs \in Bit /\ sclk_d1 \in Bit /\ sclk_d2 \in Bit
      /\ cs_d1 \in Bit /\ cs_d2 \in Bit /\ timer \in Nat
      /\ byte_i \in 1..3 /\ bit_i \in 1..W
      /\ drv \in {"idle", "init", "select", "lead", "trail", "gap", "deselect"}
  BY ConfigFacts DEF TypeOK, SlaveTypeOK, DriverTypeOK, FrameBytes
<1>2. PeriodTicks \subseteq Nat \ {0} /\ HalfTicks \subseteq Nat \ {0}
      /\ GapTicks \subseteq Nat \ {0} /\ CsTicks \subseteq Nat \ {0}
  BY ConfigFacts
<1>3. spi_cfg' = spi_cfg
  BY DEF Next, Send, SetGpio, Drive, Monitor, Tick, Release, vars
<1>4. CPOL' = CPOL /\ FirstBit' = FirstBit
  BY <1>3, SameConfig
<1> USE DEF Timing, Paced, Levels, Places, Quiet
<1>5. CASE Send
  <2>1. /\ drv = "idle" /\ drv' = "init" /\ timer' # 0 /\ sclk' = CPOL /\ rst_n' = 1
        /\ UNCHANGED <<cs, byte_i, bit_i, sclk_d1, sclk_d2, cs_d1, cs_d2>>
    BY <1>2, <1>5 DEF Send, SendItem, Delay, slaveVars, syncVars
  <2> QED
    BY <1>1, <1>4, <2>1
<1>6. CASE Drive
  <2>1. UNCHANGED <<rst_n, sclk_d1, sclk_d2, cs_d1, cs_d2>>
    BY <1>6 DEF Drive, slaveVars, syncVars
  <2> USE DEF Due, Delay
  <2>2. CASE AssertCs
    <3>1. /\ drv = "init" /\ timer = 0 /\ drv' = "select" /\ timer' # 0 /\ cs' = 0
          /\ UNCHANGED <<sclk, byte_i, bit_i>>
      BY <1>2, <2>2 DEF AssertCs
    <3> QED
      BY <1>1, <1>4, <2>1, <3>1
  <2>3. CASE FirstByte \/ NextByte
    <3>1. /\ drv \in {"select", "gap"} /\ timer = 0 /\ drv' = "lead" /\ timer' # 0
          /\ bit_i' = FirstBit /\ (drv = "select" => byte_i' = 1)
          /\ UNCHANGED <<sclk, cs>>
      BY <1>2, <2>3 DEF FirstByte, NextByte, StartByte
    <3> QED
      BY <1>1, <1>4, <2>1, <3>1
  <2>4. CASE LeadingEdge
    <3>1. /\ drv = "lead" /\ timer = 0 /\ drv' = "trail" /\ timer' # 0 /\ sclk' = 1 - sclk
          /\ UNCHANGED <<cs, byte_i, bit_i>>
      BY <1>2, <2>4 DEF LeadingEdge
    <3> QED
      BY <1>1, <1>4, <2>1, <3>1
  <2>5. CASE TrailingEdge
    <3>1. /\ drv = "trail" /\ timer = 0 /\ drv' = "lead" /\ timer' # 0 /\ sclk' = 1 - sclk
          /\ bit_i' = bit_i + 1 /\ UNCHANGED <<cs, byte_i>>
      BY <1>2, <2>5 DEF TrailingEdge
    <3> QED
      BY <1>1, <1>4, <2>1, <3>1
  <2>6. CASE LastTrailingEdge
    <3>1. /\ drv = "trail" /\ timer = 0 /\ drv' = "gap" /\ timer' # 0 /\ sclk' = 1 - sclk
          /\ bit_i = W /\ UNCHANGED <<cs, byte_i, bit_i>>
      BY <1>2, <2>6 DEF LastTrailingEdge
    <3> QED
      BY <1>1, <1>4, <2>1, <3>1
  <2>7. CASE EndFrame
    <3>1. /\ drv = "gap" /\ timer = 0 /\ drv' = "deselect" /\ timer' # 0 /\ byte_i = FrameBytes
          /\ UNCHANGED <<sclk, cs, byte_i, bit_i>>
      BY <1>2, <2>7 DEF EndFrame, spiPins
    <3> QED
      BY <1>1, <1>4, <2>1, <3>1
  <2>8. CASE NegateCs
    <3>1. /\ drv = "deselect" /\ timer = 0 /\ drv' = "idle" /\ cs' = 1
          /\ UNCHANGED <<sclk, byte_i, bit_i>>
      BY <2>8 DEF NegateCs
    <3> QED
      BY <1>1, <1>4, <2>1, <3>1
  <2> QED
    BY <1>6, <2>2, <2>3, <2>4, <2>5, <2>6, <2>7, <2>8 DEF Drive, DriverStep
<1>7. CASE Tick
  <2>1. /\ drv = "idle" \/ timer # 0
        /\ timer' = IF drv = "idle" THEN 0 ELSE timer - 1
        /\ UNCHANGED <<drv, byte_i, bit_i, sclk, cs, rst_n>>
    BY <1>7 DEF Tick, DriverTick, DriverDue, ClockEdge, spiPins
  <2>2. CASE rst_n = 1
    <3>1. sclk_d1' = sclk /\ sclk_d2' = sclk_d1 /\ cs_d1' = cs /\ cs_d2' = cs_d1
      BY <1>7, <2>2 DEF Tick, ClockEdge, Synchronize
    <3> QED
      BY <1>1, <1>4, <2>1, <3>1
  <2>3. CASE rst_n # 1
    <3>1. UNCHANGED <<sclk_d1, sclk_d2, cs_d1, cs_d2>>
      BY <1>7, <2>3 DEF Tick, ClockEdge, slaveVars, syncVars
    <3> QED
      BY <1>1, <1>4, <2>1, <2>3, <3>1
  <2> QED
    BY <2>2, <2>3
<1>8. CASE SetGpio \/ Monitor \/ Release \/ UNCHANGED vars
  <2>1. UNCHANGED <<drv, timer, byte_i, bit_i, sclk, cs, sclk_d1, sclk_d2, cs_d1, cs_d2>>
        /\ rst_n' \in {rst_n, 1}
    BY <1>8 DEF SetGpio, Monitor, Release, ReleaseReset, vars, driverVars, slaveVars, syncVars,
                spiPins
  <2> QED
    BY <1>1, <1>4, <2>1
<1> QED
  BY <1>5, <1>6, <1>7, <1>8 DEF Next

-----------------------------------------------------------------------------
(* Multiples of the bits of a byte by a byte number, without the product.  *)
LEMMA BitProducts ==
  ASSUME ConfigFixed, NEW k \in 0..2
  PROVE  /\ k * BPW \in Nat /\ k * BPW <= 2 * BPW
         /\ k = 0 => k * BPW = 0
         /\ (k + 1) * BPW = k * BPW + BPW
<1>1. BPW \in 1..W
  BY ConfigFacts
<1>2. k = 0 \/ k = 1 \/ k = 2
  OBVIOUS
<1> QED
  BY <1>1, <1>2

(* The rising edges the driver has made, without the product.              *)
Made(base) ==
  IF drv \in {"init", "select"} THEN 0
  ELSE base + (bit_i - FirstBit) + (IF drv \in RiseMade THEN 1 ELSE 0)

LEMMA EdgesDriver ==
  ASSUME ConfigFixed, TypeOK, Timing, EdgesConserved, Drive
  PROVE  EdgesConserved'
<1>1. /\ CPOL \in Bit /\ FirstBit \in 1..W /\ FrameBytes = 3
      /\ sclk \in Bit /\ cs \in Bit /\ sclk_d1 \in Bit /\ sclk_d2 \in Bit
      /\ cs_d1 \in Bit /\ cs_d2 \in Bit /\ timer \in Nat
      /\ byte_i \in 1..3 /\ bit_i \in 1..W
      /\ byte_cnt \in 0..3 /\ bit_cnt \in Nat
  BY ConfigFacts DEF TypeOK, SlaveTypeOK, DriverTypeOK, FrameBytes
<1>2. /\ UNCHANGED <<rst_n, sclk_d1, sclk_d2, cs_d1, cs_d2, byte_cnt, bit_cnt>>
      /\ CPOL' = CPOL /\ BPW' = BPW /\ FirstBit' = FirstBit
  BY SameConfig DEF Drive, slaveVars, syncVars, spiVars
<1> DEFINE B == byte_cnt * W
           P == (byte_i - 1) * BPW
<1>3. B \in Nat /\ B' = B /\ P \in Nat /\ (byte_i' = byte_i => P' = P)
  <2>1. byte_i - 1 \in 0..2
    BY <1>1
  <2> QED
    BY <1>1, <1>2, <2>1, Products, BitProducts
<1>4. BitsCounted = (IF cs_d1 = 1 \/ cs_d2 = 1 THEN 0 ELSE B + bit_cnt)
  BY DEF BitsCounted
<1>5. EdgesMade = Made(P) /\ EdgesMade' = Made(P)'
  BY DEF EdgesMade, Made
<1> HIDE DEF B, P
<1>6. BitsCounted' = BitsCounted /\ BitsCounted \in Nat
  <2>1. BitsCounted' = (IF cs_d1' = 1 \/ cs_d2' = 1 THEN 0 ELSE B' + bit_cnt')
    BY DEF BitsCounted, B
  <2> QED
    BY <1>1, <1>2, <1>3, <1>4, <2>1
<1>7. ASSUME sclk' = sclk PROVE RisesPending' = RisesPending
  BY <1>2, <1>7 DEF RisesPending, sclk_rise, cs_active
<1>8. InFrame => BitsCounted + RisesPending = Made(P)
  BY <1>5 DEF EdgesConserved
<1> USE DEF Due, Delay
<1>9. CASE AssertCs
  <2>1. drv' = "select" /\ cs_d1 = 1 /\ (cs_d2 = 0 => sclk_d1 = sclk_d2)
    BY <1>1, <1>9 DEF AssertCs, Timing, Paced, Levels, Quiet
  <2>2. BitsCounted' = 0
    BY <1>4, <1>6, <2>1
  <2>3. RisesPending' = 0
    BY <1>1, <1>2, <2>1 DEF RisesPending, sclk_rise, cs_active
  <2>4. EdgesMade' = 0
    BY <2>1 DEF EdgesMade
  <2> QED
    BY <2>2, <2>3, <2>4 DEF EdgesConserved
<1>10. CASE FirstByte
  <2>1. /\ drv = "select" /\ drv' = "lead" /\ byte_i' = 1 /\ bit_i' = FirstBit
        /\ sclk' = sclk /\ cs' = cs
    BY <1>10 DEF FirstByte, StartByte
  <2>2. InFrame /\ EdgesMade = 0
    BY <2>1 DEF Timing, Levels, InFrame, EdgesMade
  <2>3. Made(P)' = 0
    <3>1. P' = 0
      BY <1>2, <2>1, BitProducts, ConfigFacts DEF P
    <3> QED
      BY <1>1, <1>2, <2>1, <3>1 DEF Made, RiseMade
  <2> QED
    BY <1>5, <1>6, <1>7, <2>1, <2>2, <2>3 DEF EdgesConserved
<1>11. CASE LeadingEdge
  <2>1. /\ drv = "lead" /\ drv' = "trail" /\ sclk' = 1 - sclk /\ cs' = cs
        /\ byte_i' = byte_i /\ bit_i' = bit_i
    BY <1>11 DEF LeadingEdge
  <2>2. cs = 0 /\ sclk = CPOL /\ sclk_d1 = sclk /\ cs_d1 = 0 /\ cs_d2 = 0
    BY <1>1, <1>11 DEF LeadingEdge, Timing, Paced, Levels, Quiet
  <2>3. RisesPending' = RisesPending + (1 - CPOL) /\ RisesPending \in Nat
    BY <1>1, <1>2, <2>1, <2>2 DEF RisesPending, sclk_rise, cs_active
  <2>4. Made(P)' = Made(P) + (1 - CPOL)
    BY <1>1, <1>2, <1>3, <2>1 DEF Made, RiseMade
  <2>5. InFrame
    BY <2>1, <2>2 DEF InFrame
  <2> QED
    BY <1>1, <1>5, <1>6, <1>8, <2>3, <2>4, <2>5 DEF EdgesConserved
<1>12. CASE TrailingEdge \/ LastTrailingEdge
  <2>1. /\ drv = "trail" /\ sclk' = 1 - sclk /\ cs' = cs /\ byte_i' = byte_i
        /\ \/ drv' = "lead" /\ bit_i' = bit_i + 1
           \/ drv' = "gap" /\ bit_i' = bit_i
    BY <1>12 DEF TrailingEdge, LastTrailingEdge
  <2>2. cs = 0 /\ sclk = 1 - CPOL /\ sclk_d1 = sclk /\ cs_d1 = 0 /\ cs_d2 = 0
    BY <1>1, <1>12 DEF TrailingEdge, LastTrailingEdge, Timing, Paced, Levels, Quiet
  <2>3. RisesPending' = RisesPending + CPOL /\ RisesPending \in Nat
    BY <1>1, <1>2, <2>1, <2>2 DEF RisesPending, sclk_rise, cs_active
  <2>4. Made(P)' = Made(P) + CPOL
    BY <1>1, <1>2, <1>3, <2>1 DEF Made, RiseMade
  <2>5. InFrame
    BY <2>1, <2>2 DEF InFrame
  <2> QED
    BY <1>1, <1>5, <1>6, <1>8, <2>3, <2>4, <2>5 DEF EdgesConserved
<1>13. CASE NextByte
  <2>1. /\ drv = "gap" /\ drv' = "lead" /\ byte_i' = byte_i + 1 /\ bit_i' = FirstBit
        /\ sclk' = sclk /\ cs' = cs /\ byte_i - 1 \in 0..2 /\ byte_i' - 1 = (byte_i - 1) + 1
    BY <1>1, <1>13 DEF NextByte, StartByte
  <2>2. cs = 0 /\ bit_i = W
    BY <2>1 DEF Timing, Levels, Places
  <2>3. P' = P + BPW
    BY <1>2, <2>1, BitProducts DEF P
  <2>4. W - FirstBit + 1 = BPW
    BY ConfigFacts DEF FirstBit
  <2>5. Made(P)' = Made(P)
    BY <1>1, <1>2, <1>3, <2>1, <2>2, <2>3, <2>4 DEF Made, RiseMade
  <2>6. InFrame
    BY <2>1, <2>2 DEF InFrame
  <2> QED
    BY <1>5, <1>6, <1>7, <1>8, <2>1, <2>5, <2>6 DEF EdgesConserved
<1>14. CASE EndFrame
  <2>1. /\ drv = "gap" /\ drv' = "deselect" /\ byte_i' = byte_i /\ bit_i' = bit_i
        /\ sclk' = sclk /\ cs' = cs
    BY <1>14 DEF EndFrame, spiPins
  <2>2. InFrame
    BY <2>1 DEF Timing, Levels, InFrame
  <2>3. Made(P)' = Made(P)
    BY <1>1, <1>2, <1>3, <2>1 DEF Made, RiseMade
  <2> QED
    BY <1>5, <1>6, <1>7, <1>8, <2>1, <2>2, <2>3 DEF EdgesConserved
<1>15. CASE NegateCs
  BY <1>15 DEF NegateCs, EdgesConserved, InFrame
<1> QED
  BY <1>9, <1>10, <1>11, <1>12, <1>13, <1>14, <1>15 DEF Drive, DriverStep

(* The bits a frame can make fit into the counters.                        *)
LEMMA MadeBound ==
  ASSUME ConfigFixed, TypeOK, Timing, InFrame
  PROVE  EdgesMade \in Nat /\ EdgesMade <= 3 * W
<1>1. /\ FirstBit \in 1..W /\ BPW \in 1..W /\ byte_i \in 1..3 /\ bit_i \in 1..W
      /\ W - FirstBit + 1 = BPW /\ CPOL \in Bit
  BY ConfigFacts DEF TypeOK, DriverTypeOK, FrameBytes, FirstBit
<1>2. /\ (byte_i - 1) * BPW \in Nat /\ (byte_i - 1) * BPW <= 2 * BPW
  BY <1>1, BitProducts
<1> DEFINE P == (byte_i - 1) * BPW
<1>3. EdgesMade = Made(P)
  BY DEF EdgesMade, Made
<1> HIDE DEF P
<1>4. P \in Nat /\ P <= 2 * W
  BY <1>1, <1>2 DEF P
<1>5. CASE drv \in {"init", "select"}
  BY <1>3, <1>5 DEF Made
<1>6. CASE drv \in {"lead", "trail", "gap", "deselect"}
  <2>1. bit_i >= FirstBit /\ bit_i - FirstBit + 1 \in 1..BPW
    BY <1>1, <1>6 DEF Timing, Places
  <2>2. P <= 2 * BPW
    BY <1>2 DEF P
  <2> QED
    BY <1>1, <1>3, <1>4, <2>1, <2>2 DEF Made
<1> QED
  BY <1>5, <1>6 DEF TypeOK, DriverTypeOK, InFrame

(* A clk edge moves a rising edge through the synchronizer and out of it   *)
(* into the counters.                                                      *)
LEMMA EdgesTick ==
  ASSUME ConfigFixed, TypeOK, Timing, EdgesConserved, Tick
  PROVE  EdgesConserved'
<1> SUFFICES ASSUME InFrame' PROVE BitsCounted' + RisesPending' = EdgesMade'
  BY DEF EdgesConserved
<1>1. /\ CPOL \in Bit /\ sclk \in Bit /\ cs \in Bit /\ sclk_d1 \in Bit /\ sclk_d2 \in Bit
      /\ cs_d1 \in Bit /\ cs_d2 \in Bit /\ byte_cnt \in 0..3 /\ bit_cnt \in 0..W-1
  BY ConfigFacts DEF TypeOK, SlaveTypeOK, DriverTypeOK
<1>2. /\ UNCHANGED <<drv, byte_i, bit_i, sclk, cs, spi_cfg>>
      /\ drv # "idle" /\ timer # 0
  BY DEF Tick, DriverTick, DriverDue, spiPins, InFrame
<1>3. InFrame /\ cs = 0
  BY <1>2 DEF InFrame
<1>4. EdgesMade' = EdgesMade /\ EdgesMade \in Nat /\ EdgesMade <= 3 * W
  BY <1>2, <1>3, SameConfig, MadeBound DEF EdgesMade
<1>5. BitsCounted + RisesPending = EdgesMade
  BY <1>3 DEF EdgesConserved
<1>6. sclk_d1' = sclk /\ sclk_d2' = sclk_d1 /\ cs_d1' = 0 /\ cs_d2' = cs_d1
  BY <1>2, <1>3 DEF Tick, ClockEdge, Synchronize, Timing, Paced
<1>7. CASE cs_d1 = 1
  \* The low level of CS has just entered the synchronizer.
  <2>1. EdgesMade = 0 /\ sclk_d1 = sclk
    BY <1>2, <1>3, <1>7 DEF Timing, Levels, Quiet, EdgesMade, InFrame, TypeOK, DriverTypeOK
  <2>2. BitsCounted' = 0
    BY <1>6, <1>7 DEF BitsCounted
  <2>3. RisesPending' = 0
    BY <1>1, <1>2, <1>6, <2>1 DEF RisesPending, sclk_rise
  <2> QED
    BY <1>4, <2>1, <2>2, <2>3
<1>8. CASE cs_d1 = 0 /\ cs_d2 = 1
  \* The slave sees CS high for the last time.
  <2>1. EdgesMade = 0 /\ sclk_d1 = sclk
    BY <1>1, <1>2, <1>8, BitProducts DEF Timing, Quiet, EdgesMade, TypeOK, DriverTypeOK, RiseMade
  <2>2. byte_cnt' = 0 /\ bit_cnt' = 0
    BY <1>2, <1>8 DEF Tick, ClockEdge, Deselected, SampleBit, SampleByte, ShiftOut, NoEdge,
                      cs_active, Timing, Paced
  <2>3. BitsCounted' = 0
    BY <2>2 DEF BitsCounted
  <2>4. RisesPending' = 0
    BY <1>1, <1>2, <1>6, <2>1 DEF RisesPending, sclk_rise
  <2> QED
    BY <1>4, <2>1, <2>3, <2>4
<1>9. CASE cs_d1 = 0 /\ cs_d2 = 0
  <2> DEFINE B == byte_cnt * W
  <2>1. B \in Nat /\ BitsCounted = B + bit_cnt /\ BitsCounted' = B' + bit_cnt'
    BY <1>1, <1>6, <1>9, Products DEF BitsCounted
  <2>2. RisesPending' = IF sclk = 1 /\ sclk_d1 = 0 THEN 1 ELSE 0
    BY <1>1, <1>2, <1>6, <1>9 DEF RisesPending, sclk_rise, cs_active
  <2>3. RisesPending = RisesPending' + (IF sclk_rise THEN 1 ELSE 0)
    BY <1>1, <1>9, <2>2 DEF RisesPending, cs_active
  <2>4. ClockEdge /\ rst_n = 1 /\ cs_active
    BY <1>2, <1>9 DEF Tick, Timing, Paced, cs_active
  <2>5. CASE SampleBit
    <3>1. B' = B /\ bit_cnt' = bit_cnt + 1 /\ sclk_rise
      BY <2>5 DEF SampleBit
    <3> HIDE DEF B
    <3> QED
      BY <1>1, <1>4, <1>5, <2>1, <2>2, <2>3, <3>1
  <2>6. CASE SampleByte
    <3>1. byte_cnt' = (byte_cnt + 1) % 4 /\ bit_cnt = W - 1 /\ bit_cnt' = 0 /\ sclk_rise
      BY <2>6 DEF SampleByte, CountByte
    <3>2. byte_cnt # 3
      <4>1. byte_cnt = 3 => B = 3 * W
        OBVIOUS
      <4> HIDE DEF B
      <4> QED
        BY <1>1, <1>4, <1>5, <2>1, <2>2, <2>3, <3>1, <4>1
    <3>3. byte_cnt' = byte_cnt + 1
      BY <1>1, <3>1, <3>2
    <3>4. B' = B + W
      BY <1>1, <3>3, Products
    <3> HIDE DEF B
    <3> QED
      BY <1>1, <1>4, <1>5, <2>1, <2>2, <2>3, <3>1, <3>4
  <2>7. CASE ShiftOut \/ NoEdge
    <3>1. B' = B /\ bit_cnt' = bit_cnt /\ ~sclk_rise
      BY <1>1, <2>7 DEF ShiftOut, NoEdge, spiVars, sclk_rise, sclk_fall
    <3> HIDE DEF B
    <3> QED
      BY <1>1, <1>4, <1>5, <2>1, <2>2, <2>3, <3>1
  <2> QED
    BY <2>4, <2>5, <2>6, <2>7 DEF ClockEdge, Deselected
<1> QED
  BY <1>1, <1>7, <1>8, <1>9

LEMMA EdgesStep ==
  ConfigFixed /\ TypeOK /\ Timing /\ EdgesConserved /\ [Next]_vars => EdgesConserved'
<1> SUFFICES ASSUME ConfigFixed, TypeOK, Timing, EdgesConserved, [Next]_vars
             PROVE  EdgesConserved'
  OBVIOUS
<1>1. CASE Send
  BY <1>1 DEF Send, SendItem, EdgesConserved, InFrame, Timing, Levels
<1>2. CASE SetGpio \/ Monitor \/ Release \/ UNCHANGED vars
  <2>1. /\ UNCHANGED <<drv, byte_i, bit_i, sclk, cs, sclk_d1, sclk_d2, cs_d1, cs_d2,
                       byte_cnt, bit_cnt>>
        /\ spi_cfg' = spi_cfg
    BY <1>2 DEF SetGpio, Monitor, Release, ReleaseReset, vars, driverVars, slaveVars, syncVars,
                spiVars, spiPins
  <2> QED
    BY <2>1, SameConfig DEF EdgesConserved, InFrame, BitsCounted, RisesPending, EdgesMade,
                            sclk_rise, cs_active
<1> QED
  BY <1>1, <1>2, EdgesDriver, EdgesTick DEF Next

LEMMA TimingInvariant == Spec => []Timing
<1> QED
  BY ConfigInvariant, TypeCorrect, TimingInit, TimingStep, PTL DEF Spec

(* No edge of SCLK is lost, duplicated or counted in the wrong frame, in   *)
(* any mode, for every bits_per_word and whatever the delays: what the     *)
(* slave has counted and what is in its synchronizer is what the driver    *)
(* has made (tb_spi_driver.sv:34-68, spi_slave_gpio_regmap.sv:76-123).     *)
THEOREM EdgesConservedCorrect == Spec => []EdgesConserved
<1>1. Init => EdgesConserved
  BY DEF Init, DriverInit, EdgesConserved, InFrame
<1> QED
  BY <1>1, ConfigInvariant, TypeCorrect, TimingInvariant, EdgesStep, PTL DEF Spec

-----------------------------------------------------------------------------
(* Why the monitor follows the driver.  It does in the modes in which it   *)
(* samples at the trailing edge of a bit, and when a byte on the wire has  *)
(* the eight bits receive_byte counts.  In the other two modes the last    *)
(* byte ends before the last edge, and the monitor starts a fourth one.    *)

TrailingSampled == \A c \in Configs : c.spi_mode \in {0, 3} /\ c.bits_per_word = W

\* Nothing is left to do for the monitor when a delay of the driver is over.
MonitorPaced == drv # "idle" /\ timer = 0 => ~MonitorDue

\* The monitor has n bytes and is between two; within one it waits for bit i,
\* having seen sclk at this level.
Between(n) == mon = "between" /\ Len(received_data) = n
Within(n, i, level) ==
  mon = "byte" /\ Len(received_data) = n /\ rx_i = i /\ sclk_seen = level

Same == intent_fifo = <<>> /\ FrameOf(mon_tr) = tx_bytes

\* Where the monitor can be, for each place of the driver.
Follows ==
  /\ drv = "idle" => intent_fifo = <<>> /\ (mon = "intent" \/ Between(3))
  /\ drv = "init" =>
       \/ mon = "cs" /\ received_data = <<>> /\ Same
       \/ /\ mon = "intent" \/ Between(3)
          /\ Len(intent_fifo) = 1 /\ FrameOf(Head(intent_fifo)) = tx_bytes
  /\ drv = "select" => Same /\ ((mon = "cs" /\ received_data = <<>>) \/ Within(0, 1, CPOL))
  /\ drv = "lead" =>
       /\ Same
       /\ \/ Within(byte_i - 1, bit_i, CPOL) /\ (bit_i > 1 \/ byte_i = 1)
          \/ Within(byte_i - 1, bit_i - 1, 1 - CPOL) /\ bit_i > 1
          \/ Between(byte_i - 1) /\ bit_i = 1 /\ byte_i > 1
  /\ drv = "trail" =>
       /\ Same
       /\ \/ Within(byte_i - 1, bit_i, 1 - CPOL)
          \/ Within(byte_i - 1, bit_i, CPOL) /\ (bit_i > 1 \/ byte_i = 1)
          \/ Between(byte_i - 1) /\ bit_i = 1 /\ byte_i > 1
  /\ drv = "gap" => Same /\ (Between(byte_i) \/ Within(byte_i - 1, W, 1 - CPOL))
  /\ drv = "deselect" => Same /\ Between(3)

Following == MonitorPaced /\ Follows

LEMMA TrailingFacts ==
  ASSUME TrailingSampled, ConfigFixed
  PROVE  SampleLevel = CPOL /\ FirstBit = 1 /\ CPOL \in Bit
BY DEF TrailingSampled, ConfigFixed, SampleLevel, CPOL, FirstBit, MODE, BPW

LEMMA FollowingInit == Init => Following
BY DEF Init, DriverInit, MonitorInit, Following, MonitorPaced, Follows

(* A step of the monitor is one it was due to make.                        *)
LEMMA MonitorWasDue == MonitorStep => MonitorDue
BY DEF MonitorStep, MonitorDue, GetIntent, SeeSelect, IgnoreEdge, SampleMiso, ContinueFrame,
       Publish, ByteOver

LEMMA FollowsMonitor ==
  ASSUME TrailingSampled, ConfigFixed, TypeOK, Timing, Following, MonitorStep,
         UNCHANGED <<spi_cfg, driverVars, spiPins>>
  PROVE  Follows'
<1>1. /\ SampleLevel = CPOL /\ FirstBit = 1 /\ CPOL \in Bit /\ CPOL' = CPOL
      /\ drv' = drv /\ byte_i' = byte_i /\ bit_i' = bit_i /\ tx_bytes' = tx_bytes
      /\ sclk' = sclk /\ cs' = cs
  BY TrailingFacts, SameConfig DEF driverVars, spiPins
<1>2. /\ sclk \in Bit /\ cs \in Bit /\ byte_i \in 1..3 /\ bit_i \in 1..W
      /\ drv \in {"idle", "init", "select", "lead", "trail", "gap", "deselect"}
      /\ rx_i \in 1..W
  BY DEF TypeOK, DriverTypeOK, MonitorTypeOK, FrameBytes
<1>3. received_data \in Seq(Byte) /\ intent_fifo \in Seq(Transaction) /\ received_byte' \in Byte
  BY TypeMonitor DEF TypeOK, MonitorTypeOK, SlaveTypeOK, DriverTypeOK
<1>4. /\ cs = IF drv \in {"idle", "init"} THEN 1 ELSE 0
      /\ drv = "trail" => sclk = 1 - CPOL
      /\ drv \notin {"idle", "trail"} => sclk = CPOL
  BY DEF Timing, Levels
<1>5. Follows
  BY DEF Following
<1> USE DEF Follows, Within, Between, Same
<1>6. CASE GetIntent
  <2>1. /\ mon = "intent" /\ mon_tr' = Head(intent_fifo) /\ intent_fifo' = Tail(intent_fifo)
        /\ received_data' = <<>> /\ mon' = "cs" /\ intent_fifo # <<>>
    BY <1>6 DEF GetIntent
  <2>2. drv = "init" /\ Len(intent_fifo) = 1 /\ FrameOf(Head(intent_fifo)) = tx_bytes
    BY <1>2, <1>5, <2>1
  <2>3. intent_fifo' = <<>>
    BY <1>3, <2>1, <2>2
  <2>4. FrameOf(mon_tr)' = tx_bytes
    BY <2>1, <2>2 DEF FrameOf
  <2> QED
    BY <1>1, <2>1, <2>2, <2>3, <2>4
<1>7. CASE SeeSelect
  <2>1. /\ mon = "cs" /\ cs = 0 /\ mon' = "byte" /\ rx_i' = 1 /\ sclk_seen' = sclk
        /\ mon_tr' = mon_tr /\ received_data' = received_data /\ intent_fifo' = intent_fifo
    BY <1>7 DEF SeeSelect, EnterReceiveByte
  <2>2. drv = "select" /\ received_data = <<>>
    BY <1>2, <1>4, <1>5, <2>1
  <2> QED
    BY <1>1, <1>4, <1>5, <2>1, <2>2 DEF FrameOf
<1>8. CASE IgnoreEdge
  <2>1. /\ mon = "byte" /\ sclk # sclk_seen /\ sclk # CPOL /\ sclk_seen' = sclk
        /\ UNCHANGED <<mon, mon_tr, rx_i, received_data, intent_fifo>>
    BY <1>1, <1>8 DEF IgnoreEdge
  <2>2. drv = "trail" /\ sclk = 1 - CPOL /\ Within(byte_i - 1, bit_i, CPOL)
    BY <1>1, <1>2, <1>4, <1>5, <2>1
  <2> QED
    BY <1>1, <1>5, <2>1, <2>2 DEF FrameOf
<1>9. CASE SampleMiso
  <2>1. /\ mon = "byte" /\ sclk # sclk_seen /\ sclk = CPOL /\ sclk_seen' = sclk
        /\ \/ rx_i < W /\ rx_i' = rx_i + 1 /\ mon' = mon /\ received_data' = received_data
           \/ rx_i = W /\ received_data' = Append(received_data, received_byte')
              /\ mon' = "between"
        /\ UNCHANGED <<mon_tr, intent_fifo>>
    BY <1>1, <1>9 DEF SampleMiso
  <2>2. \/ drv = "lead" /\ Within(byte_i - 1, bit_i - 1, 1 - CPOL) /\ bit_i > 1
        \/ drv = "gap" /\ Within(byte_i - 1, W, 1 - CPOL)
    BY <1>1, <1>2, <1>4, <1>5, <2>1
  <2>3. CASE drv = "lead"
    BY <1>1, <1>2, <1>5, <2>1, <2>2, <2>3 DEF FrameOf
  <2>4. CASE drv = "gap"
    <3>1. /\ received_data' = Append(received_data, received_byte') /\ mon' = "between"
          /\ Len(received_data) = byte_i - 1
      BY <2>1, <2>2, <2>4
    <3>2. Len(received_data') = byte_i
      BY <1>2, <1>3, <3>1
    <3> QED
      BY <1>1, <1>5, <2>1, <2>4, <3>1, <3>2 DEF FrameOf
  <2> QED
    BY <2>2, <2>3, <2>4
<1>10. CASE ContinueFrame
  <2>1. /\ mon = "between" /\ sclk # CPOL /\ cs = 0 /\ mon' = "byte" /\ rx_i' = 1
        /\ sclk_seen' = sclk
        /\ mon_tr' = mon_tr /\ received_data' = received_data /\ intent_fifo' = intent_fifo
    BY <1>1, <1>10 DEF ContinueFrame, EnterReceiveByte, ByteOver
  <2>2. drv = "trail" /\ sclk = 1 - CPOL /\ Between(byte_i - 1) /\ bit_i = 1
    BY <1>1, <1>2, <1>4, <1>5, <2>1
  <2> QED
    BY <1>1, <1>5, <2>1, <2>2 DEF FrameOf
<1>11. CASE Publish
  <2>1. mon = "between" /\ cs = 1 /\ mon' = "intent" /\ intent_fifo' = intent_fifo
    BY <1>11 DEF Publish
  <2>2. drv = "idle" \/ (drv = "init" /\ Len(intent_fifo) = 1 /\ FrameOf(Head(intent_fifo)) = tx_bytes)
    BY <1>2, <1>4, <1>5, <2>1
  <2> QED
    BY <1>1, <1>5, <2>1, <2>2 DEF FrameOf
<1> QED
  BY <1>6, <1>7, <1>8, <1>9, <1>10, <1>11 DEF MonitorStep

LEMMA FollowsDriver ==
  ASSUME TrailingSampled, ConfigFixed, TypeOK, Timing, Following, Drive
  PROVE  Follows'
<1>1. /\ SampleLevel = CPOL /\ FirstBit = 1 /\ CPOL \in Bit /\ CPOL' = CPOL
      /\ UNCHANGED <<mon, mon_tr, rx_i, received_data, sclk_seen>>
  BY TrailingFacts, SameConfig DEF Drive, monitorVars
<1>2. intent_fifo' = intent_fifo /\ tx_bytes' = tx_bytes /\ drv # "idle" /\ timer = 0
  BY DEF Drive, DriverStep, AssertCs, FirstByte, NextByte, StartByte, LeadingEdge,
         TrailingEdge, LastTrailingEdge, EndFrame, NegateCs, Due
<1>3. /\ sclk \in Bit /\ cs \in Bit /\ byte_i \in 1..3 /\ bit_i \in 1..W /\ FrameBytes = 3
  BY DEF TypeOK, DriverTypeOK, FrameBytes
<1>4. Follows /\ ~MonitorDue
  BY <1>2 DEF Following, MonitorPaced
<1>5. /\ cs = IF drv \in {"idle", "init"} THEN 1 ELSE 0
      /\ drv = "trail" => sclk = 1 - CPOL
      /\ drv \notin {"idle", "trail"} => sclk = CPOL
      /\ drv \in {"gap", "deselect"} => bit_i = W
      /\ drv = "deselect" => byte_i = 3
  BY <1>3 DEF Timing, Levels, Places
<1>6. FrameOf(mon_tr)' = FrameOf(mon_tr)
  BY <1>1 DEF FrameOf
<1> USE DEF Follows, Within, Between, Same, MonitorDue, ByteOver, Due, Delay
<1>7. CASE AssertCs
  BY <1>1, <1>2, <1>4, <1>5, <1>6, <1>7 DEF AssertCs
<1>8. CASE FirstByte
  <2>1. drv = "select" /\ drv' = "lead" /\ byte_i' = 1 /\ bit_i' = 1
    BY <1>1, <1>8 DEF FirstByte, StartByte
  <2> QED
    BY <1>1, <1>2, <1>4, <1>5, <1>6, <2>1
<1>9. CASE LeadingEdge
  <2>1. drv = "lead" /\ drv' = "trail" /\ byte_i' = byte_i /\ bit_i' = bit_i
    BY <1>9 DEF LeadingEdge
  <2> QED
    BY <1>1, <1>2, <1>3, <1>4, <1>5, <1>6, <2>1
<1>10. CASE TrailingEdge
  <2>1. drv = "trail" /\ drv' = "lead" /\ byte_i' = byte_i /\ bit_i' = bit_i + 1
    BY <1>10 DEF TrailingEdge
  <2> QED
    BY <1>1, <1>2, <1>3, <1>4, <1>5, <1>6, <2>1
<1>11. CASE LastTrailingEdge
  <2>1. drv = "trail" /\ drv' = "gap" /\ byte_i' = byte_i /\ bit_i' = bit_i /\ bit_i = W
    BY <1>11 DEF LastTrailingEdge
  <2> QED
    BY <1>1, <1>2, <1>3, <1>4, <1>5, <1>6, <2>1
<1>12. CASE NextByte
  <2>1. drv = "gap" /\ drv' = "lead" /\ byte_i' = byte_i + 1 /\ bit_i' = 1
    BY <1>1, <1>12 DEF NextByte, StartByte
  <2> QED
    BY <1>1, <1>2, <1>3, <1>4, <1>5, <1>6, <2>1
<1>13. CASE EndFrame
  <2>1. drv = "gap" /\ drv' = "deselect" /\ byte_i = 3
    BY <1>3, <1>13 DEF EndFrame
  <2> QED
    BY <1>1, <1>2, <1>3, <1>4, <1>5, <1>6, <2>1
<1>14. CASE NegateCs
  <2>1. drv = "deselect" /\ drv' = "idle"
    BY <1>14 DEF NegateCs
  <2> QED
    BY <1>1, <1>2, <1>4, <2>1
<1> QED
  BY <1>7, <1>8, <1>9, <1>10, <1>11, <1>12, <1>13, <1>14 DEF Drive, DriverStep

(* The step of a process that touches neither the monitor nor the frame.   *)
LEMMA FollowsStays ==
  ASSUME Follows,
         UNCHANGED <<spi_cfg, drv, byte_i, bit_i, tx_bytes, monitorVars, intent_fifo>>
  PROVE  Follows'
<1>1. CPOL' = CPOL /\ FrameOf(mon_tr)' = FrameOf(mon_tr)
      /\ UNCHANGED <<drv, byte_i, bit_i, tx_bytes, intent_fifo, mon, mon_tr, rx_i, received_data,
                     sclk_seen>>
  BY SameConfig DEF FrameOf, monitorVars
<1>2. FrameOf(Head(intent_fifo))' = FrameOf(Head(intent_fifo))
  BY <1>1 DEF FrameOf
<1> QED
  BY <1>1, <1>2 DEF Follows, Within, Between, Same

LEMMA FollowingStep ==
  ASSUME TrailingSampled, ConfigFixed, TypeOK, Timing, Following, [Next]_vars
  PROVE  Following'
<1>1. CASE Send
  <2>1. PICK tr \in Items(sent + 1) : SendItem(tr)
    BY <1>1 DEF Send
  <2>2. /\ drv = "idle" /\ drv' = "init" /\ timer' # 0 /\ tx_bytes' = FrameOf(tr)
        /\ intent_fifo' = Append(intent_fifo, tr) /\ UNCHANGED <<mon, received_data>>
    BY <1>1, <2>1, ConfigFacts DEF Send, SendItem, Delay, monitorVars
  <2>3. intent_fifo = <<>> /\ (mon = "intent" \/ Between(3))
    BY <2>2 DEF Following, Follows
  <2>4. intent_fifo' = <<tr>>
    BY <2>2, <2>3
  <2>5. Len(intent_fifo') = 1 /\ FrameOf(Head(intent_fifo))' = tx_bytes'
    BY <2>2, <2>4 DEF FrameOf
  <2>6. mon' = "intent" \/ Between(3)'
    BY <2>2, <2>3 DEF Between
  <2> QED
    BY <2>2, <2>5, <2>6 DEF Following, MonitorPaced, Follows
<1>2. CASE Drive
  <2>1. timer' # 0 \/ drv' = "idle"
    BY <1>2, ConfigFacts DEF Drive, DriverStep, AssertCs, FirstByte, NextByte, StartByte,
         LeadingEdge, TrailingEdge, LastTrailingEdge, EndFrame, NegateCs, Delay
  <2> QED
    BY <1>2, <2>1, FollowsDriver DEF Following, MonitorPaced
<1>3. CASE Monitor
  <2>1. Follows'
    BY <1>3, FollowsMonitor DEF Monitor
  <2>2. (drv = "idle" \/ timer # 0) /\ drv' = drv /\ timer' = timer
    BY <1>3, MonitorWasDue DEF Monitor, Following, MonitorPaced, driverVars
  <2> QED
    BY <2>1, <2>2 DEF Following, MonitorPaced
<1>4. CASE Tick
  <2>1. Follows'
    BY <1>4, FollowsStays DEF Tick, DriverTick, Following
  <2>2. ~MonitorDue'
    BY <1>4, SameConfig DEF Tick, MonitorDue, ByteOver, SampleLevel, MODE, monitorVars, spiPins
  <2> QED
    BY <2>1, <2>2 DEF Following, MonitorPaced
<1>5. CASE SetGpio \/ Release
  <2>1. Follows'
    BY <1>5, FollowsStays DEF SetGpio, Release, driverVars, Following
  <2>2. drv' = "idle"
    BY <1>5 DEF SetGpio, Release, ReleaseReset, driverVars, Timing, Paced
  <2> QED
    BY <2>1, <2>2 DEF Following, MonitorPaced
<1>6. CASE UNCHANGED vars
  <2>1. Follows'
    BY <1>6, FollowsStays DEF vars, driverVars, Following
  <2>2. MonitorDue' = MonitorDue /\ drv' = drv /\ timer' = timer
    BY <1>6 DEF vars, driverVars, monitorVars, spiPins, MonitorDue, ByteOver, SampleLevel, MODE
  <2> QED
    BY <2>1, <2>2 DEF Following, MonitorPaced
<1> QED
  BY <1>1, <1>2, <1>3, <1>4, <1>5, <1>6 DEF Next

LEMMA FollowingInvariant ==
  ASSUME TrailingSampled
  PROVE  Spec => []Following
<1>1. ConfigFixed /\ TypeOK /\ Timing /\ Following /\ [Next]_vars => Following'
  BY FollowingStep
<1> QED
  BY <1>1, ConfigInvariant, TypeCorrect, TimingInvariant, FollowingInit, PTL DEF Spec

(* A monitor that waits for an edge has the bits the driver has finished.  *)
LEMMA MonitorAtBit ==
  ASSUME TrailingSampled, ConfigFixed, TypeOK, Timing, Follows, InFrame, ~MonitorDue
  PROVE  BitsReceived = BitsFinished
<1>1. SampleLevel = CPOL /\ FirstBit = 1 /\ CPOL \in Bit /\ BPW = W
  BY TrailingFacts DEF TrailingSampled, ConfigFixed, BPW
<1>2. /\ sclk \in Bit /\ byte_i \in 1..3 /\ bit_i \in 1..W /\ rx_i \in 1..W
      /\ drv \in {"select", "lead", "trail", "gap", "deselect"} /\ cs = 0
      /\ drv = "trail" => sclk = 1 - CPOL
      /\ drv \in {"lead", "gap", "deselect"} => sclk = CPOL
      /\ drv \in {"gap", "deselect"} => bit_i = W
      /\ drv = "deselect" => byte_i = 3
  BY DEF TypeOK, DriverTypeOK, MonitorTypeOK, FrameBytes, Timing, Levels, Places, InFrame
<1>3. CASE drv = "select"
  <2>1. mon = "byte" /\ Len(received_data) = 0 /\ rx_i = 1
    BY <1>2, <1>3 DEF Follows, Within, MonitorDue
  <2> QED
    BY <1>3, <2>1 DEF BitsReceived, BitsFinished
<1>4. CASE drv \in {"lead", "trail"}
  <2>1. /\ Len(received_data) = byte_i - 1
        /\ (IF mon = "byte" THEN rx_i - 1 ELSE 0) = bit_i - 1
    BY <1>1, <1>2, <1>4 DEF Follows, Within, Between, MonitorDue, ByteOver
  <2> QED
    BY <1>1, <1>2, <1>4, <2>1 DEF BitsReceived, BitsFinished
<1>5. CASE drv \in {"gap", "deselect"}
  <2>1. mon = "between" /\ Len(received_data) = byte_i
    <3>1. ~(mon = "byte" /\ sclk_seen = 1 - CPOL)
      BY <1>1, <1>2, <1>5 DEF MonitorDue
    <3> QED
      BY <1>2, <1>5, <3>1 DEF Follows, Within, Between
  <2>2. byte_i * W = (byte_i - 1) * W + (W - 1) + 1
    BY <1>2
  <2> QED
    BY <1>1, <1>2, <1>5, <2>1, <2>2 DEF BitsReceived, BitsFinished
<1> QED
  BY <1>2, <1>3, <1>4, <1>5

(* In modes 0 and 3, while CS is low, the monitor is inside                *)
(* receive_transaction for the very transaction the driver is sending, no  *)
(* other is queued, and between two edges it has received the bits the     *)
(* driver has finished (tb_monitors.sv:43-63, tb_spi_monitor.sv:60-92).    *)
THEOREM MonitorFollowsDriverCorrect ==
  ASSUME TrailingSampled
  PROVE  Spec => []MonitorFollowsDriver
<1>1. TypeOK /\ Timing /\ Following /\ InFrame =>
        intent_fifo = <<>> /\ mon # "intent" /\ FrameOf(mon_tr) = tx_bytes
  BY DEF TypeOK, DriverTypeOK, Timing, Levels, Following, Follows, Same, Between, Within,
         InFrame
<1>2. ConfigFixed /\ TypeOK /\ Timing /\ Following => MonitorFollowsDriver
  BY <1>1, MonitorAtBit DEF Following, MonitorFollowsDriver
<1> QED
  BY <1>2, ConfigInvariant, TypeCorrect, TimingInvariant, FollowingInvariant, PTL

(* In modes 0 and 3 the comment of receive_transaction is right: bytes are *)
(* received while CS remains low (tb_spi_monitor.sv:62-63).  In mode 1 it  *)
(* is not.                                                                 *)
THEOREM ReceivesWhileSelectedCorrect ==
  ASSUME TrailingSampled
  PROVE  Spec => []ReceivesWhileSelected
<1>1. TypeOK /\ Timing /\ Following => ReceivesWhileSelected
  BY DEF TypeOK, DriverTypeOK, Timing, Levels, Following, Follows, Same, Between, Within,
         ReceivesWhileSelected
<1> QED
  BY <1>1, TypeCorrect, TimingInvariant, FollowingInvariant, PTL

-----------------------------------------------------------------------------
(***************************************************************************)
(* The SPI side of the testbench is a register file: SpiBus implements     *)
(* RegMap, for every width of a byte, any number of transactions and any   *)
(* delays in mode 0; in mode 3 for half periods of at least two clk edges, *)
(* which the slave needs to answer an edge of SCLK on MISO.                *)
(***************************************************************************)

\* The configurations the slave can serve.
Served ==
  \A c \in Configs :
    /\ c.bits_per_word = W
    /\ \/ c.spi_mode = 0
       \/ c.spi_mode = 3 /\ \A h \in c.half_period : h >= 2

\* The slave is selected and knows it.
Effective == InFrame /\ cs_d1 = 0 /\ cs_d2 = 0

\* The bit of the frame the slave expects next, one that has been counted out.
Expected == tx_bytes[byte_cnt + 1][bit_cnt + 1]

(* A bit is on MOSI, and in the synchronizer, when the slave samples it.   *)
Wired ==
  /\ drv \in {"trail", "gap", "deselect"} \/ (drv = "lead" /\ CPHA = 0) =>
       mosi = tx_bytes[byte_i][bit_i]
  /\ drv # "idle" /\ timer = 0 => mosi_d1 = mosi
  /\ Effective /\ sclk = 1 /\ sclk_d1 = 0 => mosi_d1 = Expected
  /\ Effective /\ sclk_rise => mosi_d2 = Expected

\* In mode 3 a leading edge has reached the slave before the trailing one.
Slow ==
  drv = "trail" /\ MODE = 3 =>
    /\ timer <= 1 => sclk_d1 = sclk
    /\ timer = 0 => sclk_d2 = sclk

(* What the slave has taken from the frame so far.                         *)
IsWrite == tx_bytes[1][W] = 1
Stored  == IsWrite /\ tx_bytes[2] \notin ReadOnly => regfile[tx_bytes[2]] = tx_bytes[3]

Taken ==
  Effective =>
    /\ \A j \in 1..bit_cnt : shift_in[W - bit_cnt + j] = tx_bytes[byte_cnt + 1][j]
    /\ byte_cnt >= 1 => rw = tx_bytes[1][W]
    /\ byte_cnt >= 2 => addr = tx_bytes[2]
    /\ byte_cnt = 3 => Stored

(* What the slave answers: one bit of the register per falling edge.       *)
Answer == read_reg(tx_bytes[2])
Falls  == IF sclk_d2 = 1 THEN bit_cnt ELSE bit_cnt + 1

Answered ==
  Effective /\ ~IsWrite =>
    /\ byte_cnt = 2 =>
         /\ shift_out = [j \in 1..W |-> IF j + Falls <= W THEN Answer[j + Falls] ELSE 0]
         /\ Falls >= 1 => miso = Answer[Falls]
    /\ byte_cnt = 3 /\ sclk_d2 = 1 => miso = Answer[W]

(* What the monitor hears.                                                 *)
Heard ==
  InFrame /\ ~IsWrite =>
    /\ drv = "lead" /\ Within(2, bit_i - 1, 1 - CPOL) /\ bit_i > 1 => miso = Answer[bit_i - 1]
    /\ drv = "gap" /\ Within(2, W, 1 - CPOL) => miso = Answer[W]
    /\ mon = "byte" /\ Len(received_data) = 2 =>
         \A j \in 1..W : j < rx_i => received_byte[j] = Answer[j]

\* The write is in the register file when the monitor reports it.
Kept ==
  drv \in {"idle", "init"} /\ mon = "between" /\ mon_tr.is_write = 1 /\ mon_tr.addr \notin ReadOnly =>
    regfile[mon_tr.addr] = mon_tr.data

Contents == Wired /\ Slow /\ Taken /\ Answered /\ Heard /\ Kept

-----------------------------------------------------------------------------
(* Shifting the next bit of b into the bits of b that are in already.      *)
LEMMA ShiftedIn ==
  ASSUME NEW s \in Byte, NEW b \in Byte, NEW n \in 0..W-1,
         \A j \in 1..n : s[W - n + j] = b[j]
  PROVE  /\ \A j \in 1..n+1 : ShiftLeft(s, b[n + 1])[W - (n + 1) + j] = b[j]
         /\ n = W - 1 => ShiftLeft(s, b[n + 1]) = b
<1>1. ASSUME NEW j \in 1..n+1
      PROVE  ShiftLeft(s, b[n + 1])[W - (n + 1) + j] = b[j]
  <2> DEFINE i == W - (n + 1) + j
  <2>1. i \in 1..W
    OBVIOUS
  <2>2. CASE j <= n
    <3>1. i < W /\ i + 1 = W - n + j
      BY <2>2
    <3>2. s[i + 1] = b[j]
      BY <2>2, <3>1
    <3> HIDE DEF i
    <3>3. ShiftLeft(s, b[n + 1])[i] = s[i + 1]
      BY <2>1, <3>1 DEF ShiftLeft
    <3> QED
      BY <3>2, <3>3 DEF i
  <2>3. CASE j = n + 1
    <3>1. i = W
      BY <2>3
    <3>2. ShiftLeft(s, b[n + 1])[W] = b[n + 1]
      BY DEF ShiftLeft
    <3> QED
      BY <2>3, <3>1, <3>2
  <2>4. j <= n \/ j = n + 1
    OBVIOUS
  <2> QED
    BY <2>2, <2>3, <2>4, Zenon
<1>2. ASSUME n = W - 1 PROVE ShiftLeft(s, b[n + 1]) = b
  <2>1. \A j \in 1..W : ShiftLeft(s, b[n + 1])[j] = b[j]
    <3> TAKE j \in 1..W
    <3>1. j \in 1..n+1 /\ W - (n + 1) + j = j
      BY <1>2
    <3> QED
      BY <1>1, <3>1
  <2> HIDE DEF Bit
  <2>2. ShiftLeft(s, b[n + 1]) = [j \in 1..W |-> ShiftLeft(s, b[n + 1])[j]]
    BY DEF ShiftLeft
  <2> QED
    BY <2>1, <2>2 DEF Byte
<1> QED
  BY <1>1, <1>2

(* Shifting a byte out.                                                    *)
LEMMA ShiftedOut ==
  ASSUME NEW v \in Byte, NEW n \in 0..W-1, NEW s \in Byte,
         \A j \in 1..W : s[j] = IF j + n <= W THEN v[j + n] ELSE 0
  PROVE  /\ s[1] = v[n + 1]
         /\ \A j \in 1..W :
              ShiftLeft(s, 0)[j] = IF j + (n + 1) <= W THEN v[j + (n + 1)] ELSE 0
<1>1. s[1] = v[n + 1]
  <2>1. 1 \in 1..W /\ 1 + n <= W /\ 1 + n = n + 1
    OBVIOUS
  <2> QED
    BY <2>1
<1>2. ASSUME NEW j \in 1..W
      PROVE  ShiftLeft(s, 0)[j] = IF j + (n + 1) <= W THEN v[j + (n + 1)] ELSE 0
  <2>1. CASE j < W
    <3>1. j + 1 \in 1..W /\ j + 1 + n = j + (n + 1)
      BY <2>1
    <3>2. ShiftLeft(s, 0)[j] = s[j + 1]
      BY <2>1 DEF ShiftLeft
    <3> QED
      BY <3>1, <3>2
  <2>2. CASE j = W
    BY <2>2 DEF ShiftLeft
  <2>3. j < W \/ j = W
    OBVIOUS
  <2> QED
    BY <2>1, <2>2, <2>3, Zenon
<1> QED
  BY <1>1, <1>2

(* Appending to a sequence of two makes the appended element the third, and *)
(* appending to a shorter one does not yet make three.                      *)
LEMMA AppendThird ==
  ASSUME NEW S, NEW s \in Seq(S), NEW e \in S
  PROVE  /\ Len(s) = 2 => Append(s, e)[3] = e /\ Len(Append(s, e)) >= 3
         /\ Len(s) \in {0, 1} => ~(Len(s) >= 3) /\ ~(Len(Append(s, e)) >= 3)
<1>1. Len(Append(s, e)) = Len(s) + 1 /\ Append(s, e)[Len(s) + 1] = e
  OBVIOUS
<1>2. ASSUME Len(s) = 2 PROVE Append(s, e)[3] = e /\ Len(Append(s, e)) >= 3
  BY <1>1, <1>2
<1>3. ASSUME Len(s) \in {0, 1} PROVE ~(Len(s) >= 3) /\ ~(Len(Append(s, e)) >= 3)
  <2>1. CASE Len(s) = 0
    <3>1. Len(Append(s, e)) = 1
      BY <1>1, <2>1
    <3> QED
      BY <2>1, <3>1
  <2>2. CASE Len(s) = 1
    <3>1. Len(Append(s, e)) = 2
      BY <1>1, <2>2
    <3> QED
      BY <2>2, <3>1
  <2> QED
    BY <1>3, <2>1, <2>2
<1> QED
  BY <1>2, <1>3

(* Two positions with the same number of bits before them are the same.    *)
LEMMA UniquePosition ==
  ASSUME NEW a \in 0..3, NEW c \in 0..3, NEW b \in 0..W-1, NEW d \in 0..W-1,
         a * W + b = c * W + d
  PROVE  a = c /\ b = d
<1>1. a = 0 \/ a = 1 \/ a = 2 \/ a = 3
  OBVIOUS
<1>2. c = 0 \/ c = 1 \/ c = 2 \/ c = 3
  OBVIOUS
<1> QED
  BY <1>1, <1>2

-----------------------------------------------------------------------------
LEMMA ServedTrailing == Served => TrailingSampled
BY DEF Served, TrailingSampled

LEMMA ServedFacts ==
  ASSUME Served, ConfigFixed
  PROVE  /\ MODE \in {0, 3} /\ FirstBit = 1 /\ BPW = W
         /\ CPOL = (IF MODE = 0 THEN 0 ELSE 1) /\ CPHA = (IF MODE = 0 THEN 0 ELSE 1)
         /\ SampleLevel = CPOL
         /\ MODE = 3 => \A h \in HalfTicks : h >= 2
<1>1. MODE \in {0, 3} /\ BPW = W
  BY DEF Served, ConfigFixed, MODE, BPW
<1>2. 3 % 2 = 1 /\ 0 % 2 = 0
  OBVIOUS
<1>3. MODE = 3 => \A h \in HalfTicks : h >= 2
  BY DEF Served, ConfigFixed, MODE, HalfTicks
<1> QED
  BY <1>1, <1>2, <1>3 DEF CPOL, CPHA, FirstBit, SampleLevel

(* The invariants of SpiBusProofs.                                         *)
Inv == ConfigFixed /\ TypeOK /\ Timing /\ EdgesConserved /\ Following

LEMMA Types ==
  ASSUME Inv
  PROVE  /\ FrameBytes = 3 /\ CPOL \in Bit
         /\ mosi \in Bit /\ sclk \in Bit /\ cs \in Bit /\ miso \in Bit
         /\ sclk_d1 \in Bit /\ sclk_d2 \in Bit /\ cs_d1 \in Bit /\ cs_d2 \in Bit
         /\ mosi_d1 \in Bit /\ mosi_d2 \in Bit /\ rw \in Bit /\ timer \in Nat
         /\ byte_i \in 1..3 /\ bit_i \in 1..W /\ byte_cnt \in 0..3 /\ bit_cnt \in 0..W-1
         /\ drv \in {"idle", "init", "select", "lead", "trail", "gap", "deselect"}
         /\ shift_in \in Byte /\ shift_out \in Byte /\ addr \in Byte
         /\ regfile \in [Byte -> Byte] /\ gpio_in \in Byte /\ rst_n \in Bit
         /\ rx_i \in 1..W
BY ConfigFacts DEF Inv, TypeOK, SlaveTypeOK, DriverTypeOK, MonitorTypeOK, FrameBytes

(* The bytes of the frame.                                                 *)
LEMMA FrameBytesType ==
  ASSUME Inv, drv # "idle"
  PROVE  /\ tx_bytes[1] \in Byte /\ tx_bytes[2] \in Byte /\ tx_bytes[3] \in Byte
         /\ \A k \in 1..3 : tx_bytes[k] \in Byte
         /\ Answer \in Byte
<1>1. tx_bytes \in Byte \X Byte \X Byte
  BY DEF Inv, TypeOK, DriverTypeOK
<1>2. tx_bytes[1] \in Byte /\ tx_bytes[2] \in Byte /\ tx_bytes[3] \in Byte
  BY <1>1
<1>3. \A k \in 1..3 : tx_bytes[k] \in Byte
  <2> TAKE k \in 1..3
  <2>1. k = 1 \/ k = 2 \/ k = 3
    OBVIOUS
  <2> QED
    BY <1>2, <2>1
<1>4. Answer \in Byte
  BY <1>2, Types, ReadRegType DEF Answer
<1> QED
  BY <1>2, <1>3, <1>4

(* Where the slave is in the frame, from where the driver is.              *)
LEMMA Position ==
  ASSUME Served, Inv, Effective
  PROVE  /\ byte_cnt * W \in Nat /\ RisesPending \in {0, 1}
         /\ byte_cnt * W + bit_cnt + RisesPending = EdgesMade
         /\ EdgesMade <= 3 * W
         /\ byte_cnt = 3 => bit_cnt = 0 /\ RisesPending = 0
<1>1. InFrame /\ cs_d1 = 0 /\ cs_d2 = 0
  BY DEF Effective
<1>2. byte_cnt * W \in Nat /\ BitsCounted = byte_cnt * W + bit_cnt
  BY <1>1, Types, Products DEF BitsCounted
<1>3. RisesPending \in {0, 1}
  BY Types DEF RisesPending, sclk_rise
<1>4. BitsCounted + RisesPending = EdgesMade
  BY <1>1 DEF Inv, EdgesConserved
<1>5. EdgesMade <= 3 * W
  BY <1>1, MadeBound DEF Inv
<1>6. ASSUME byte_cnt = 3 PROVE bit_cnt = 0 /\ RisesPending = 0
  BY <1>2, <1>3, <1>4, <1>5, <1>6, Types
<1> QED
  BY <1>2, <1>3, <1>4, <1>5, <1>6

(* A rising edge in the synchronizer is the only one, and of a bit of the  *)
(* frame.                                                                  *)
LEMMA PendingByte ==
  ASSUME Served, Inv, Effective, sclk_rise \/ (sclk = 1 /\ sclk_d1 = 0)
  PROVE  byte_cnt \in 0..2
<1>1. RisesPending = 1
  BY Types DEF RisesPending, sclk_rise, cs_active, Effective
<1> QED
  BY <1>1, Position, Types

(* Where the slave is when the driver makes an edge or ends the frame.     *)
LEMMA PositionAtEdge ==
  ASSUME Served, Inv, drv \in {"lead", "trail"}, timer = 0
  PROVE  /\ Effective /\ sclk_d1 = sclk /\ cs = 0
         /\ LET n == (byte_i - 1) * W IN
              /\ n \in Nat
              /\ EdgesMade = n + (bit_i - 1) + (IF drv = "trail" /\ CPOL = 0 THEN 1 ELSE 0)
<1>1. Effective /\ sclk_d1 = sclk /\ cs = 0
  BY Types DEF Inv, Timing, Paced, Levels, Quiet, Effective, InFrame
<1>2. byte_i - 1 \in 0..3
  BY Types
<1>3. (byte_i - 1) * W \in Nat
  BY <1>2, Products
<1>4. BPW = W /\ FirstBit = 1
  BY ServedFacts DEF Inv
<1> QED
  BY <1>1, <1>3, <1>4, Types DEF EdgesMade, RiseMade

-----------------------------------------------------------------------------
LEMMA ContentsInit == Served /\ Init => Contents
<1> SUFFICES ASSUME Served, Init PROVE Contents
  OBVIOUS
<1> USE DEF Init, DriverInit, MonitorInit, PinsInit, ResetState
<1>1. Wired
  BY DEF Wired, Effective, InFrame
<1>2. Slow /\ Taken /\ Answered /\ Heard /\ Kept
  BY DEF Slow, Taken, Answered, Heard, Kept, Effective, InFrame
<1> QED
  BY <1>1, <1>2 DEF Contents

(* What a step of the driver leaves alone.                                 *)
LEMMA DriverFrame ==
  ASSUME Served, Inv, Drive
  PROVE  /\ drv # "idle" /\ timer = 0 /\ sclk_d1 = sclk /\ cs_d1 = cs
         /\ UNCHANGED <<tx_bytes, regfile, gpio_in, sclk_d1, sclk_d2, cs_d1, cs_d2, mosi_d1, mosi_d2,
                        byte_cnt, bit_cnt, shift_in, shift_out, rw, addr, miso>>
         /\ UNCHANGED <<mon, sclk_seen, mon_tr, rx_i, received_byte, received_data, scored, uvm_errors>>
         /\ CPOL' = CPOL /\ MODE' = MODE /\ CPHA' = CPHA /\ FrameOf(mon_tr)' = FrameOf(mon_tr)
         /\ IsWrite' = IsWrite /\ Answer' = Answer /\ Stored' = Stored
         /\ Expected' = Expected /\ Falls' = Falls
         /\ Effective' => Effective
<1>1. /\ drv # "idle" /\ timer = 0 /\ tx_bytes' = tx_bytes
      /\ cs' = cs \/ drv = "init" \/ drv' = "idle"
  BY DEF Drive, DriverStep, AssertCs, FirstByte, NextByte, StartByte, LeadingEdge,
         TrailingEdge, LastTrailingEdge, EndFrame, NegateCs, Due, spiPins
<1>2. sclk_d1 = sclk /\ cs_d1 = cs /\ (drv = "init" => cs = 1)
  BY <1>1 DEF Inv, Timing, Paced, Levels
<1>3. UNCHANGED <<regfile, gpio_in, sclk_d1, sclk_d2, cs_d1, cs_d2, mosi_d1, mosi_d2,
                  byte_cnt, bit_cnt, shift_in, shift_out, rw, addr, miso>>
  BY DEF Drive, slaveVars, syncVars, spiVars
<1>4. UNCHANGED <<mon, sclk_seen, mon_tr, rx_i, received_byte, received_data, scored, uvm_errors>>
  BY DEF Drive, monitorVars, scoreVars
<1>5. CPOL' = CPOL /\ MODE' = MODE /\ CPHA' = CPHA /\ FrameOf(mon_tr)' = FrameOf(mon_tr)
  BY <1>4 DEF Drive, CPOL, MODE, CPHA, FrameOf
<1>6. IsWrite' = IsWrite /\ Answer' = Answer /\ Stored' = Stored
  BY <1>1, <1>3 DEF IsWrite, Answer, read_reg, ReadReg, Stored, ReadOnly
<1>7. Expected' = Expected /\ Falls' = Falls
  BY <1>1, <1>3 DEF Expected, Falls
<1>8. Effective' => Effective
  BY <1>1, <1>2, <1>3 DEF Effective, InFrame
<1> QED
  BY <1>1, <1>2, <1>3, <1>4, <1>5, <1>6, <1>7, <1>8

LEMMA WiredDriver ==
  ASSUME Served, Inv, Contents, Drive
  PROVE  Wired'
<1>1. /\ CPOL = (IF MODE = 0 THEN 0 ELSE 1) /\ CPHA = (IF MODE = 0 THEN 0 ELSE 1) /\ MODE \in {0, 3}
      /\ FirstBit = 1 /\ MODE' = MODE /\ CPHA' = CPHA
  BY ServedFacts, DriverFrame DEF Inv
<1>2. Wired /\ mosi_d1 = mosi /\ timer = 0 /\ sclk_d1 = sclk
  BY DriverFrame DEF Contents, Wired
<1>3. (Effective /\ sclk_rise => mosi_d2 = Expected)'
  BY <1>2, DriverFrame DEF Wired, sclk_rise
<1>4. timer' # 0 \/ drv' = "idle"
  BY ConfigFacts DEF Inv, Drive, DriverStep, AssertCs, FirstByte, NextByte, StartByte,
     LeadingEdge, TrailingEdge, LastTrailingEdge, EndFrame, NegateCs, Delay
<1>5. drv' \in {"trail", "gap", "deselect"} \/ (drv' = "lead" /\ CPHA' = 0) =>
        mosi' = tx_bytes'[byte_i'][bit_i']
  <2> USE DEF Due, Delay
  <2>1. CASE AssertCs
    BY <2>1 DEF AssertCs
  <2>2. CASE FirstByte \/ NextByte
    BY <1>1, <2>2 DEF FirstByte, NextByte, StartByte
  <2>3. CASE LeadingEdge
    BY <1>1, <1>2, <2>3 DEF LeadingEdge, Wired
  <2>4. CASE TrailingEdge
    BY <1>1, <1>2, <2>4 DEF TrailingEdge
  <2>5. CASE LastTrailingEdge
    BY <1>2, <2>5 DEF LastTrailingEdge, Wired
  <2>6. CASE EndFrame
    BY <1>2, <2>6 DEF EndFrame, spiPins, Wired
  <2>7. CASE NegateCs
    BY <2>7 DEF NegateCs
  <2> QED
    BY <2>1, <2>2, <2>3, <2>4, <2>5, <2>6, <2>7 DEF Drive, DriverStep
<1>6. ASSUME sclk' = 1, sclk # 1, Effective
      PROVE  mosi_d1 = Expected
  <2>1. /\ \/ drv = "lead" /\ MODE = 0
           \/ drv = "trail" /\ MODE = 3
        /\ timer = 0
    <3>1. LeadingEdge \/ TrailingEdge \/ LastTrailingEdge
      BY <1>6 DEF Drive, DriverStep, AssertCs, FirstByte, NextByte, StartByte, EndFrame, NegateCs,
                  spiPins
    <3>2. drv \in {"lead", "trail"} /\ timer = 0 /\ sclk = 0
      BY <1>6, <3>1, Types DEF LeadingEdge, TrailingEdge, LastTrailingEdge, Due
    <3> QED
      BY <1>1, <3>2 DEF Inv, Timing, Levels
  <2>2. mosi = tx_bytes[byte_i][bit_i]
    BY <1>1, <1>2, <2>1 DEF Wired
  <2>3. RisesPending = 0
    BY <1>2, <1>6, Types DEF RisesPending, sclk_rise
  <2>4. /\ byte_cnt * W + bit_cnt = (byte_i - 1) * W + (bit_i - 1)
    BY <1>1, <2>1, <2>3, Position, PositionAtEdge, Types
  <2>5. byte_cnt = byte_i - 1 /\ bit_cnt = bit_i - 1
    <3>1. byte_i - 1 \in 0..3 /\ bit_i - 1 \in 0..W-1
      BY Types
    <3> HIDE DEF Inv
    <3> QED
      BY <2>4, <3>1, Types, UniquePosition
  <2>6. byte_cnt + 1 = byte_i /\ bit_cnt + 1 = bit_i
    BY <2>5, Types
  <2> QED
    BY <1>2, <2>2, <2>6 DEF Expected
<1>7. (Effective /\ sclk = 1 /\ sclk_d1 = 0 => mosi_d1 = Expected)'
  BY <1>2, <1>6, DriverFrame
<1> QED
  BY <1>3, <1>4, <1>5, <1>7 DEF Wired

LEMMA SlowDriver ==
  ASSUME Served, Inv, Contents, Drive
  PROVE  Slow'
<1> SUFFICES ASSUME drv' = "trail", MODE = 3 PROVE timer' \in Nat /\ timer' >= 2
  BY DriverFrame DEF Slow
<1>1. LeadingEdge
  BY DEF Drive, DriverStep, AssertCs, FirstByte, NextByte, StartByte,
     TrailingEdge, LastTrailingEdge, EndFrame, NegateCs, Delay
<1> QED
  BY <1>1, ServedFacts, ConfigFacts DEF LeadingEdge, Delay, Inv

(* When the driver ends a bit of the third byte of a read, the register's  *)
(* bit is on MISO.                                                         *)
LEMMA MisoAtTrailingEdge ==
  ASSUME Served, Inv, Contents, drv = "trail", timer = 0, byte_i = 3, ~IsWrite
  PROVE  miso = Answer[bit_i]
<1>1. /\ Effective /\ sclk_d1 = sclk /\ sclk = 1 - CPOL
      /\ CPOL = (IF MODE = 0 THEN 0 ELSE 1) /\ MODE \in {0, 3}
  BY PositionAtEdge, ServedFacts DEF Inv, Timing, Levels
<1>2. EdgesMade = 2 * W + (bit_i - 1) + (IF CPOL = 0 THEN 1 ELSE 0)
  <2>1. (byte_i - 1) * W = 2 * W
    BY Types
  <2> QED
    BY <2>1, PositionAtEdge
<1>3. byte_cnt * W + bit_cnt + RisesPending = EdgesMade /\ byte_cnt * W \in Nat
  BY <1>1, Position
<1>4. CASE CPOL = 0 /\ sclk_d2 = 1
  <2>1. RisesPending = 0
    BY <1>1, <1>4, Types DEF RisesPending, sclk_rise
  <2>2. CASE bit_i = W
    <3>1. byte_cnt * W + bit_cnt = 3 * W + 0
      BY <1>2, <1>3, <1>4, <2>1, <2>2, Types
    <3>2. byte_cnt = 3
      BY <3>1, Types, UniquePosition
    <3> QED
      BY <1>1, <1>4, <2>2, <3>2 DEF Contents, Answered
  <2>3. CASE bit_i < W
    <3>1. byte_cnt * W + bit_cnt = 2 * W + bit_i /\ bit_i \in 0..W-1
      BY <1>2, <1>3, <1>4, <2>1, <2>3, Types
    <3>2. byte_cnt = 2 /\ bit_cnt = bit_i
      BY <3>1, Types, UniquePosition
    <3> QED
      BY <1>1, <1>4, <3>2, Types DEF Contents, Answered, Falls
  <2> QED
    BY <2>2, <2>3, Types
<1>5. CASE sclk_d2 = 0
  <2>1. RisesPending = IF CPOL = 0 THEN 1 ELSE 0
    BY <1>1, <1>5, Types DEF RisesPending, sclk_rise, cs_active, Effective
  <2>2. byte_cnt * W + bit_cnt = 2 * W + (bit_i - 1) /\ bit_i - 1 \in 0..W-1
    BY <1>2, <1>3, <2>1, Types
  <2>3. byte_cnt = 2 /\ bit_cnt = bit_i - 1
    BY <2>2, Types, UniquePosition
  <2>4. Falls = bit_i
    BY <1>5, <2>3, Types DEF Falls
  <2> QED
    BY <1>1, <2>3, <2>4, Types DEF Contents, Answered
<1>6. CPOL = 1 => sclk_d2 = 0
  BY <1>1 DEF Contents, Slow
<1> QED
  BY <1>4, <1>5, <1>6, Types

LEMMA HeardDriver ==
  ASSUME Served, Inv, Contents, Drive
  PROVE  Heard'
<1> SUFFICES ASSUME InFrame', ~IsWrite
             PROVE  /\ drv' = "lead" /\ Within(2, bit_i - 1, 1 - CPOL)' /\ bit_i' > 1 => miso = Answer[bit_i' - 1]
                    /\ drv' = "gap" /\ Within(2, W, 1 - CPOL)' => miso = Answer[W]
                    /\ mon = "byte" /\ Len(received_data) = 2 =>
                         \A j \in 1..W : j < rx_i => received_byte[j] = Answer[j]
  BY DriverFrame DEF Heard
<1>1. ~MonitorDue /\ Follows
  BY DriverFrame DEF Inv, Following, MonitorPaced
<1>2. CASE drv = "init"
  <2>1. mon # "byte"
    BY <1>1, <1>2 DEF Follows, Between
  <2> QED
    BY <2>1, DriverFrame DEF Within
<1>3. CASE drv # "init"
  <2>1. InFrame
    BY <1>3, DriverFrame DEF Inv, Timing, Levels, InFrame
  <2>2. mon = "byte" /\ Len(received_data) = 2 =>
          \A j \in 1..W : j < rx_i => received_byte[j] = Answer[j]
    BY <2>1 DEF Contents, Heard
  <2>3. ASSUME drv' = "lead", Within(2, bit_i - 1, 1 - CPOL)', bit_i' > 1
        PROVE  miso = Answer[bit_i' - 1]
    <3>1. TrailingEdge
      BY <2>3, ServedFacts DEF Drive, DriverStep, AssertCs, FirstByte, NextByte, StartByte,
         LeadingEdge, LastTrailingEdge, EndFrame, NegateCs, Delay, Inv
    <3>2. drv = "trail" /\ timer = 0 /\ bit_i' = bit_i + 1 /\ byte_i' = byte_i
      BY <3>1 DEF TrailingEdge, Due
    <3>3. mon = "byte" /\ Len(received_data) = 2
      BY <2>3, DriverFrame DEF Within
    <3>4. byte_i - 1 = 2
      BY <1>1, <3>2, <3>3 DEF Follows, Within, Between
    <3>5. miso = Answer[bit_i] /\ bit_i' - 1 = bit_i
      BY <3>2, <3>4, MisoAtTrailingEdge, Types
    <3> QED
      BY <3>5
  <2>4. ASSUME drv' = "gap", Within(2, W, 1 - CPOL)'
        PROVE  miso = Answer[W]
    <3>1. LastTrailingEdge
      BY <2>4 DEF Drive, DriverStep, AssertCs, FirstByte, NextByte, StartByte,
         LeadingEdge, TrailingEdge, EndFrame, NegateCs, Delay
    <3>2. drv = "trail" /\ timer = 0 /\ bit_i = W
      BY <3>1 DEF LastTrailingEdge, Due
    <3>3. mon = "byte" /\ Len(received_data) = 2
      BY <2>4, DriverFrame DEF Within
    <3>4. byte_i - 1 = 2
      BY <1>1, <3>2, <3>3 DEF Follows, Within, Between
    <3> QED
      BY <3>2, <3>4, MisoAtTrailingEdge, Types
  <2> QED
    BY <2>2, <2>3, <2>4
<1> QED
  BY <1>2, <1>3

(* A frame is made of its transaction.                                     *)
LEMMA FrameParts ==
  ASSUME Inv, drv # "idle", FrameOf(mon_tr) = tx_bytes
  PROVE  /\ tx_bytes[1][W] = mon_tr.is_write /\ tx_bytes[2] = mon_tr.addr
         /\ tx_bytes[3] = mon_tr.data
BY DEF FrameOf

LEMMA KeptDriver ==
  ASSUME Served, Inv, Contents, Drive
  PROVE  Kept'
<1> SUFFICES ASSUME drv' \in {"idle", "init"}, mon_tr.is_write = 1, mon_tr.addr \notin ReadOnly
             PROVE  regfile[mon_tr.addr] = mon_tr.data
  BY DriverFrame DEF Kept, ReadOnly
<1>1. NegateCs
  BY DEF Drive, DriverStep, AssertCs, FirstByte, NextByte, StartByte,
     LeadingEdge, TrailingEdge, LastTrailingEdge, EndFrame, Delay
<1>2. drv = "deselect" /\ timer = 0
  BY <1>1 DEF NegateCs, Due
<1>3. FrameOf(mon_tr) = tx_bytes
  BY <1>2 DEF Inv, Following, Follows, Same
<1>4. Effective /\ sclk_d1 = sclk /\ sclk_d2 = sclk /\ byte_i = 3 /\ bit_i = W
  BY <1>2, Types DEF Inv, Timing, Paced, Levels, Places, Quiet, Effective, InFrame
<1>5. RisesPending = 0
  BY <1>4, Types DEF RisesPending, sclk_rise
<1>6. EdgesMade = 3 * W
  <2>1. (byte_i - 1) * BPW = 2 * W /\ FirstBit = 1
    BY <1>4, ServedFacts DEF Inv
  <2> QED
    BY <1>2, <1>4, <2>1, Types DEF EdgesMade, RiseMade
<1>7. byte_cnt * W + bit_cnt = 3 * W + 0
  BY <1>4, <1>5, <1>6, Position, Types
<1>8. byte_cnt = 3
  BY <1>7, Types, UniquePosition
<1>9. Stored
  BY <1>4, <1>8 DEF Contents, Taken
<1> QED
  BY <1>2, <1>3, <1>9, FrameParts DEF Stored, IsWrite

LEMMA ContentsDriver ==
  ASSUME Served, Inv, Contents, Drive
  PROVE  Contents'
<1>1. Taken'
  BY DriverFrame DEF Contents, Taken
<1>2. Answered'
  BY DriverFrame DEF Contents, Answered
<1> QED
  BY <1>1, <1>2, WiredDriver, SlowDriver, HeardDriver, KeptDriver DEF Contents

-----------------------------------------------------------------------------
(* What a clk edge leaves alone.                                           *)
LEMMA TickFrame ==
  ASSUME Served, Inv, Tick
  PROVE  /\ UNCHANGED <<drv, tx_bytes, byte_i, bit_i, mosi, sclk, cs, gpio_in, spi_cfg>>
         /\ UNCHANGED <<mon, sclk_seen, mon_tr, rx_i, received_byte, received_data, scored,
                        uvm_errors, intent_fifo>>
         /\ ~MonitorDue /\ (drv = "idle" \/ timer # 0)
         /\ timer' = (IF drv = "idle" THEN 0 ELSE timer - 1)
         /\ CPOL' = CPOL /\ MODE' = MODE /\ CPHA' = CPHA
         /\ IsWrite' = IsWrite /\ InFrame' = InFrame
         /\ drv # "idle" =>
              /\ rst_n = 1
              /\ sclk_d1' = sclk /\ sclk_d2' = sclk_d1 /\ cs_d1' = cs /\ cs_d2' = cs_d1
              /\ mosi_d1' = mosi /\ mosi_d2' = mosi_d1
              /\ Deselected \/ SampleBit \/ SampleByte \/ ShiftOut \/ NoEdge
<1>1. /\ UNCHANGED <<drv, tx_bytes, byte_i, bit_i, mosi, sclk, cs, gpio_in, spi_cfg>>
      /\ timer' = (IF drv = "idle" THEN 0 ELSE timer - 1)
      /\ ~MonitorDue /\ (drv = "idle" \/ timer # 0)
  BY DEF Tick, DriverTick, DriverDue, spiPins
<1>2. UNCHANGED <<mon, sclk_seen, mon_tr, rx_i, received_byte, received_data, scored,
                  uvm_errors, intent_fifo>>
  BY DEF Tick, monitorVars, scoreVars
<1>3. /\ CPOL' = CPOL /\ MODE' = MODE /\ CPHA' = CPHA
      /\ IsWrite' = IsWrite /\ InFrame' = InFrame
  BY <1>1 DEF CPOL, MODE, CPHA, IsWrite, InFrame
<1>4. ASSUME drv # "idle"
      PROVE  /\ rst_n = 1
             /\ sclk_d1' = sclk /\ sclk_d2' = sclk_d1 /\ cs_d1' = cs /\ cs_d2' = cs_d1
             /\ mosi_d1' = mosi /\ mosi_d2' = mosi_d1
             /\ Deselected \/ SampleBit \/ SampleByte \/ ShiftOut \/ NoEdge
  BY <1>4 DEF Tick, ClockEdge, Synchronize, Inv, Timing, Paced
<1> QED
  BY <1>1, <1>2, <1>3, <1>4

(* An edge of SCLK is seen by the slave only within a frame.               *)
LEMMA EdgesInFrame ==
  ASSUME Inv, cs_active, sclk_rise \/ sclk_fall
  PROVE  Effective
BY Types DEF Inv, Timing, Levels, Quiet, Effective, InFrame, cs_active, sclk_rise, sclk_fall

(* The byte that is complete with a rising edge is a byte of the frame.    *)
LEMMA FullByteExpected ==
  ASSUME Served, Inv, Contents, cs_active, sclk_rise
  PROVE  /\ Effective /\ byte_cnt \in 0..2
         /\ \A j \in 1..bit_cnt+1 : full_byte[W - (bit_cnt + 1) + j] = tx_bytes[byte_cnt + 1][j]
         /\ bit_cnt = W - 1 => full_byte = tx_bytes[byte_cnt + 1]
<1>1. Effective
  BY EdgesInFrame
<1>2. byte_cnt \in 0..2 /\ drv # "idle"
  BY <1>1, PendingByte DEF Effective, InFrame
<1>3. mosi_d2 = tx_bytes[byte_cnt + 1][bit_cnt + 1]
  BY <1>1 DEF Contents, Wired, Expected
<1>4. \A j \in 1..bit_cnt : shift_in[W - bit_cnt + j] = tx_bytes[byte_cnt + 1][j]
  BY <1>1 DEF Contents, Taken
<1>5. tx_bytes[byte_cnt + 1] \in Byte
  <2>1. byte_cnt + 1 \in 1..3
    BY <1>2
  <2> QED
    BY <1>2, <2>1, FrameBytesType
<1> DEFINE b == tx_bytes[byte_cnt + 1]
<1>6. full_byte = ShiftLeft(shift_in, b[bit_cnt + 1])
  BY <1>3 DEF full_byte
<1>7. b \in Byte /\ shift_in \in Byte /\ bit_cnt \in 0..W-1
      /\ \A j \in 1..bit_cnt : shift_in[W - bit_cnt + j] = b[j]
  BY <1>4, <1>5, Types
<1> HIDE DEF b
<1>8. /\ \A j \in 1..bit_cnt+1 : full_byte[W - (bit_cnt + 1) + j] = b[j]
      /\ bit_cnt = W - 1 => full_byte = b
  BY <1>6, <1>7, ShiftedIn
<1> QED
  BY <1>1, <1>2, <1>8 DEF b

(* Only the third byte of a write frame changes the register file.         *)
LEMMA StoreTick ==
  ASSUME Served, Inv, Contents, Tick
  PROVE  \/ regfile' = regfile
         \/ /\ InFrame /\ IsWrite /\ tx_bytes[2] \notin ReadOnly
            /\ regfile' = [regfile EXCEPT ![tx_bytes[2]] = tx_bytes[3]]
<1> SUFFICES ASSUME regfile' # regfile
             PROVE  /\ InFrame /\ IsWrite /\ tx_bytes[2] \notin ReadOnly
                    /\ regfile' = [regfile EXCEPT ![tx_bytes[2]] = tx_bytes[3]]
  OBVIOUS
<1>1. SampleByte /\ byte_cnt = 2 /\ rw = 1 /\ addr \notin ReadOnly
  BY DEF Tick, ClockEdge, Deselected, SampleBit, SampleByte, StoreByte, ShiftOut, NoEdge, slaveVars
<1>2. Effective /\ full_byte = tx_bytes[3]
  BY <1>1, FullByteExpected DEF SampleByte
<1>3. rw = tx_bytes[1][W] /\ addr = tx_bytes[2]
  BY <1>1, <1>2 DEF Contents, Taken
<1> QED
  BY <1>1, <1>2, <1>3 DEF SampleByte, StoreByte, IsWrite, Effective

(* A clk edge with the slave newly selected.                               *)
LEMMA NewlyEffective ==
  ASSUME Served, Inv, Tick, Effective', ~Effective
  PROVE  byte_cnt' = 0 /\ bit_cnt' = 0 /\ sclk_d1 = sclk
<1>1. InFrame /\ cs_d1 = 0 /\ cs_d2 = 1 /\ drv # "idle"
  BY TickFrame, Types DEF Effective, InFrame
<1>2. Deselected
  BY <1>1, TickFrame DEF SampleBit, SampleByte, ShiftOut, NoEdge, cs_active
<1> QED
  BY <1>1, <1>2, Types DEF Deselected, Inv, Timing, Quiet

LEMMA WiredTick ==
  ASSUME Served, Inv, Contents, Tick
  PROVE  Wired'
<1>1. drv' \in {"trail", "gap", "deselect"} \/ (drv' = "lead" /\ CPHA' = 0) =>
        mosi' = tx_bytes'[byte_i'][bit_i']
  BY TickFrame DEF Contents, Wired
<1>2. drv' # "idle" => mosi_d1' = mosi' /\ sclk_d1' = sclk'
  BY TickFrame
<1>3. ASSUME Effective', sclk_rise' PROVE mosi_d2' = Expected'
  <2>1. drv # "idle" /\ sclk = 1 /\ sclk_d1 = 0
    BY <1>3, TickFrame DEF Effective, InFrame, sclk_rise
  <2>2. Effective
    BY <1>3, <2>1, NewlyEffective
  <2>3. mosi_d1 = Expected
    BY <2>1, <2>2 DEF Contents, Wired
  <2>4. byte_cnt' = byte_cnt /\ bit_cnt' = bit_cnt
    BY <2>1, <2>2, TickFrame DEF Deselected, SampleBit, SampleByte, ShiftOut, NoEdge, cs_active,
       sclk_rise, Effective, spiVars
  <2> QED
    BY <2>1, <2>3, <2>4, TickFrame DEF Expected
<1> QED
  BY <1>1, <1>2, <1>3, TickFrame DEF Wired, Effective, InFrame

LEMMA SlowTick ==
  ASSUME Served, Inv, Contents, Tick
  PROVE  Slow'
BY TickFrame, Types DEF Contents, Slow

LEMMA TakenTick ==
  ASSUME Served, Inv, Contents, Tick
  PROVE  Taken'
<1> SUFFICES ASSUME Effective'
             PROVE  /\ \A j \in 1..bit_cnt' : shift_in'[W - bit_cnt' + j] = tx_bytes[byte_cnt' + 1][j]
                    /\ byte_cnt' >= 1 => rw' = tx_bytes[1][W]
                    /\ byte_cnt' >= 2 => addr' = tx_bytes[2]
                    /\ byte_cnt' = 3 => Stored'
  BY TickFrame DEF Taken
<1>1. CASE ~Effective
  BY <1>1, NewlyEffective
<1>2. CASE Effective
  <2>1. /\ \A j \in 1..bit_cnt : shift_in[W - bit_cnt + j] = tx_bytes[byte_cnt + 1][j]
        /\ byte_cnt >= 1 => rw = tx_bytes[1][W]
        /\ byte_cnt >= 2 => addr = tx_bytes[2]
        /\ byte_cnt = 3 => Stored
    BY <1>2 DEF Contents, Taken
  <2>2. cs_active /\ drv # "idle"
    BY <1>2 DEF Effective, InFrame, cs_active
  <2>3. CASE SampleBit
    <3>1. /\ byte_cnt \in 0..2 /\ shift_in' = full_byte /\ bit_cnt' = bit_cnt + 1
          /\ byte_cnt' = byte_cnt /\ rw' = rw /\ addr' = addr
      BY <2>3, FullByteExpected DEF SampleBit
    <3>2. \A j \in 1..bit_cnt+1 : full_byte[W - (bit_cnt + 1) + j] = tx_bytes[byte_cnt + 1][j]
      BY <2>3, FullByteExpected DEF SampleBit
    <3> QED
      BY <2>1, <3>1, <3>2
  <2>4. CASE SampleByte
    <3>1. /\ byte_cnt \in 0..2 /\ full_byte = tx_bytes[byte_cnt + 1]
      BY <2>4, FullByteExpected DEF SampleByte
    <3>2. /\ bit_cnt' = 0 /\ byte_cnt' = byte_cnt + 1
          /\ rw' = IF byte_cnt = 0 THEN full_byte[W] ELSE rw
          /\ addr' = IF byte_cnt = 1 THEN full_byte ELSE addr
          /\ StoreByte
      BY <2>4, <3>1 DEF SampleByte, CountByte
    <3>3. byte_cnt' >= 1 => rw' = tx_bytes[1][W]
      BY <2>1, <3>1, <3>2
    <3>4. byte_cnt' >= 2 => addr' = tx_bytes[2]
      BY <2>1, <3>1, <3>2
    <3>5. byte_cnt' = 3 => Stored'
      <4> SUFFICES ASSUME byte_cnt = 2, IsWrite, tx_bytes[2] \notin ReadOnly
                   PROVE  regfile'[tx_bytes[2]] = tx_bytes[3]
        BY <3>1, <3>2, TickFrame DEF Stored, ReadOnly, IsWrite
      <4>1. rw = 1 /\ addr = tx_bytes[2] /\ full_byte = tx_bytes[3]
        BY <2>1, <3>1 DEF IsWrite
      <4>2. regfile' = [regfile EXCEPT ![tx_bytes[2]] = tx_bytes[3]]
        BY <3>2, <4>1 DEF StoreByte
      <4> QED
        BY <2>2, <4>2, Types, FrameBytesType
    <3> QED
      BY <3>2, <3>3, <3>4, <3>5
  <2>5. CASE ShiftOut \/ NoEdge
    <3>1. UNCHANGED <<bit_cnt, byte_cnt, shift_in, rw, addr, regfile>>
      BY <2>5 DEF ShiftOut, NoEdge, spiVars
    <3> QED
      BY <2>1, <3>1, TickFrame DEF Stored, IsWrite, ReadOnly
  <2> QED
    BY <2>2, <2>3, <2>4, <2>5, TickFrame DEF Deselected
<1> QED
  BY <1>1, <1>2

LEMMA AnsweredTick ==
  ASSUME Served, Inv, Contents, Tick
  PROVE  Answered'
<1> SUFFICES ASSUME Effective', ~IsWrite
             PROVE  /\ byte_cnt' = 2 =>
                         /\ shift_out' = [j \in 1..W |-> IF j + Falls' <= W THEN Answer'[j + Falls'] ELSE 0]
                         /\ Falls' >= 1 => miso' = Answer'[Falls']
                    /\ byte_cnt' = 3 /\ sclk_d2' = 1 => miso' = Answer'[W]
  BY TickFrame DEF Answered
<1>0. Answer' = Answer
  <2>1. regfile' = regfile
    BY StoreTick
  <2> QED
    BY <2>1, TickFrame DEF Answer, read_reg, ReadReg
<1>1. CASE ~Effective
  BY <1>1, NewlyEffective
<1>2. CASE Effective
  <2>1. /\ byte_cnt = 2 =>
             /\ shift_out = [j \in 1..W |-> IF j + Falls <= W THEN Answer[j + Falls] ELSE 0]
             /\ Falls >= 1 => miso = Answer[Falls]
        /\ byte_cnt = 3 /\ sclk_d2 = 1 => miso = Answer[W]
    BY <1>2 DEF Contents, Answered
  <2>2. cs_active /\ drv # "idle" /\ Answer \in Byte /\ sclk_d2' = sclk_d1
    BY <1>2, TickFrame, FrameBytesType DEF Effective, InFrame, cs_active
  <2>3. CASE SampleBit
    <3>1. /\ byte_cnt \in 0..2 /\ bit_cnt' = bit_cnt + 1 /\ byte_cnt' = byte_cnt
          /\ shift_out' = shift_out /\ miso' = miso /\ sclk_d2 = 0 /\ sclk_d2' = 1
      BY <2>2, <2>3, FullByteExpected DEF SampleBit, sclk_rise
    <3>2. Falls' = Falls
      BY <3>1 DEF Falls
    <3> QED
      BY <1>0, <2>1, <3>1, <3>2
  <2>4. CASE SampleByte
    <3>1. /\ byte_cnt \in 0..2 /\ full_byte = tx_bytes[byte_cnt + 1]
          /\ byte_cnt' = byte_cnt + 1 /\ bit_cnt = W - 1 /\ bit_cnt' = 0 /\ miso' = miso
          /\ sclk_d2 = 0 /\ sclk_d2' = 1
          /\ shift_out' = IF byte_cnt = 1 /\ rw = 0 THEN read_reg(full_byte) ELSE shift_out
      BY <2>2, <2>4, FullByteExpected DEF SampleByte, CountByte, sclk_rise
    <3>2. CASE byte_cnt = 1
      <4>1. rw = 0
        BY <1>2, <3>2, Types DEF Contents, Taken, IsWrite
      <4>2. shift_out' = Answer /\ Falls' = 0 /\ byte_cnt' = 2
        BY <3>1, <3>2, <4>1 DEF Answer, Falls
      <4>3. Answer = [j \in 1..W |-> IF j + 0 <= W THEN Answer[j + 0] ELSE 0]
        BY <2>2 DEF Byte
      <4> QED
        BY <1>0, <4>2, <4>3
    <3>3. CASE byte_cnt = 2
      <4>1. Falls = W /\ byte_cnt' = 3
        BY <3>1, <3>3 DEF Falls
      <4> QED
        BY <1>0, <2>1, <3>1, <3>3, <4>1
    <3> QED
      BY <1>0, <3>1, <3>2, <3>3
  <2>5. CASE ShiftOut
    <3>1. /\ byte_cnt' = byte_cnt /\ bit_cnt' = bit_cnt /\ sclk_d2 = 1 /\ sclk_d2' = 0
          /\ miso' = shift_out[1] /\ shift_out' = ShiftLeft(shift_out, 0)
      BY <2>2, <2>5 DEF ShiftOut, sclk_fall
    <3>2. Falls = bit_cnt /\ Falls' = bit_cnt + 1
      BY <3>1 DEF Falls
    <3>3. ASSUME byte_cnt = 2
          PROVE  /\ shift_out[1] = Answer[bit_cnt + 1]
                 /\ ShiftLeft(shift_out, 0) =
                      [j \in 1..W |-> IF j + (bit_cnt + 1) <= W THEN Answer[j + (bit_cnt + 1)] ELSE 0]
      <4>1. \A j \in 1..W : shift_out[j] = IF j + bit_cnt <= W THEN Answer[j + bit_cnt] ELSE 0
        BY <2>1, <3>2, <3>3
      <4>2. Answer \in Byte /\ bit_cnt \in 0..W-1 /\ shift_out \in Byte
        BY <2>2, Types
      <4>3. /\ shift_out[1] = Answer[bit_cnt + 1]
            /\ \A j \in 1..W :
                 ShiftLeft(shift_out, 0)[j] =
                   IF j + (bit_cnt + 1) <= W THEN Answer[j + (bit_cnt + 1)] ELSE 0
        BY <4>1, <4>2, ShiftedOut
      <4> QED
        BY <4>3 DEF ShiftLeft
    <3> QED
      BY <1>0, <3>1, <3>2, <3>3
  <2>6. CASE NoEdge
    <3>1. UNCHANGED <<byte_cnt, bit_cnt, shift_out, miso>> /\ sclk_d2' = sclk_d2
      BY <2>2, <2>6, Types DEF NoEdge, spiVars, sclk_rise, sclk_fall
    <3>2. Falls' = Falls
      BY <3>1 DEF Falls
    <3> QED
      BY <1>0, <2>1, <3>1, <3>2
  <2> QED
    BY <2>2, <2>3, <2>4, <2>5, <2>6, TickFrame DEF Deselected
<1> QED
  BY <1>1, <1>2

LEMMA HeardTick ==
  ASSUME Served, Inv, Contents, Tick
  PROVE  Heard'
<1> SUFFICES ASSUME InFrame, ~IsWrite
             PROVE  /\ ~(drv = "lead" /\ Within(2, bit_i - 1, 1 - CPOL))
                    /\ ~(drv = "gap" /\ Within(2, W, 1 - CPOL))
                    /\ Answer' = Answer
                    /\ mon = "byte" /\ Len(received_data) = 2 =>
                         \A j \in 1..W : j < rx_i => received_byte[j] = Answer[j]
  BY TickFrame DEF Heard, Within
<1>1. regfile' = regfile
  BY StoreTick
<1>2. Answer' = Answer
  BY <1>1, TickFrame DEF Answer, read_reg, ReadReg
<1>3. drv \in {"lead", "gap"} => sclk = CPOL
  BY DEF Inv, Timing, Levels
<1>4. CPOL \in Bit
  BY Types
<1>5. ~MonitorDue
  BY TickFrame
<1> QED
  BY <1>2, <1>3, <1>4, <1>5 DEF Within, MonitorDue, Contents, Heard

LEMMA KeptTick ==
  ASSUME Served, Inv, Contents, Tick
  PROVE  Kept'
<1> SUFFICES ASSUME drv \in {"idle", "init"} PROVE regfile' = regfile
  BY TickFrame DEF Contents, Kept, ReadOnly
<1>1. ~InFrame
  BY DEF Inv, Timing, Levels, InFrame
<1> QED
  BY <1>1, StoreTick

LEMMA ContentsTick ==
  ASSUME Served, Inv, Contents, Tick
  PROVE  Contents'
BY WiredTick, SlowTick, TakenTick, AnsweredTick, HeardTick, KeptTick DEF Contents

-----------------------------------------------------------------------------
(* What a step of the monitor leaves alone.                                *)
LEMMA MonitorFrame ==
  ASSUME Inv, Monitor
  PROVE  /\ UNCHANGED <<drv, timer, tx_bytes, byte_i, bit_i, mosi, sclk, cs, gpio_in, spi_cfg>>
         /\ UNCHANGED <<regfile, sclk_d1, sclk_d2, cs_d1, cs_d2, mosi_d1, mosi_d2,
                        byte_cnt, bit_cnt, shift_in, shift_out, rw, addr, miso>>
         /\ CPOL' = CPOL /\ MODE' = MODE /\ CPHA' = CPHA
         /\ IsWrite' = IsWrite /\ Answer' = Answer /\ InFrame' = InFrame
         /\ UNCHANGED <<Wired, Slow, Taken, Answered>>
<1>1. /\ UNCHANGED <<drv, timer, tx_bytes, byte_i, bit_i, mosi, sclk, cs, gpio_in, spi_cfg>>
      /\ UNCHANGED <<regfile, sclk_d1, sclk_d2, cs_d1, cs_d2, mosi_d1, mosi_d2,
                     byte_cnt, bit_cnt, shift_in, shift_out, rw, addr, miso>>
  BY DEF Monitor, spiPins, driverVars, slaveVars, syncVars, spiVars
<1>2. CPOL' = CPOL /\ MODE' = MODE /\ CPHA' = CPHA
  BY <1>1 DEF CPOL, MODE, CPHA
<1>3. IsWrite' = IsWrite /\ Answer' = Answer /\ InFrame' = InFrame
  BY <1>1 DEF IsWrite, Answer, read_reg, ReadReg, InFrame
<1>4. Wired' = Wired /\ Slow' = Slow
  BY <1>1, <1>2 DEF Wired, Slow, Effective, InFrame, Expected, sclk_rise
<1>5. Taken' = Taken
  BY <1>1 DEF Taken, Stored, IsWrite, ReadOnly, Effective, InFrame
<1>6. Answered' = Answered
  BY <1>1, <1>3 DEF Answered, Falls, IsWrite, Effective, InFrame
<1> QED
  BY <1>1, <1>2, <1>3, <1>4, <1>5, <1>6

(* The monitor samples MISO where the driver ends a bit.                   *)
LEMMA SampledBit ==
  ASSUME Served, Inv, Contents, SampleMiso, Len(received_data) = 2, ~IsWrite
  PROVE  InFrame /\ miso = Answer[rx_i]
<1>1. SampleLevel = CPOL /\ CPOL \in Bit
  BY ServedFacts, Types DEF Inv
<1>2. mon = "byte" /\ sclk # sclk_seen /\ sclk = CPOL
  BY <1>1 DEF SampleMiso
<1>3. drv \notin {"idle", "init"} /\ cs = 0 /\ (drv = "trail" => sclk = 1 - CPOL)
  BY <1>2 DEF Inv, Following, Follows, Between, Timing, Levels
<1>4. \/ drv = "lead" /\ Within(2, bit_i - 1, 1 - CPOL) /\ bit_i > 1
      \/ drv = "gap" /\ Within(2, W, 1 - CPOL)
  BY <1>1, <1>2, <1>3, Types DEF Inv, Following, Follows, Within, Between
<1>5. InFrame
  BY <1>3 DEF InFrame
<1>6. CASE drv = "lead"
  <2>1. Within(2, bit_i - 1, 1 - CPOL) /\ bit_i > 1
    BY <1>4, <1>6
  <2>2. miso = Answer[bit_i - 1]
    BY <1>5, <1>6, <2>1 DEF Contents, Heard
  <2> QED
    BY <1>5, <2>1, <2>2 DEF Within
<1>7. CASE drv = "gap"
  <2>1. Within(2, W, 1 - CPOL)
    BY <1>4, <1>7
  <2>2. miso = Answer[W]
    BY <1>5, <1>7, <2>1 DEF Contents, Heard
  <2> QED
    BY <1>5, <2>1, <2>2 DEF Within
<1> QED
  BY <1>4, <1>6, <1>7

(* The third byte of a read is what the register had.                      *)
LEMMA ReadHeard ==
  ASSUME Served, Inv, Contents, SampleMiso, Len(received_data) = 2, rx_i = W, ~IsWrite
  PROVE  received_byte' = Answer
<1>1. InFrame /\ miso = Answer[W]
  BY SampledBit
<1>2. /\ received_byte \in Byte /\ received_byte' = [received_byte EXCEPT ![W] = miso]
      /\ Answer \in Byte
  BY <1>1, FrameBytesType DEF SampleMiso, Inv, TypeOK, MonitorTypeOK, InFrame
<1>3. \A j \in 1..W : j < W => received_byte[j] = Answer[j]
  BY <1>1 DEF SampleMiso, Contents, Heard
<1>4. \A j \in 1..W : received_byte'[j] = Answer[j]
  BY <1>1, <1>2, <1>3 DEF Byte
<1> QED
  BY <1>2, <1>4 DEF Byte

LEMMA HeardMonitor ==
  ASSUME Served, Inv, Contents, Monitor
  PROVE  Heard'
<1> SUFFICES ASSUME InFrame, ~IsWrite
             PROVE  /\ drv \in {"lead", "gap"} => ~(mon' = "byte" /\ sclk_seen' = 1 - CPOL)
                    /\ mon' = "byte" /\ Len(received_data') = 2 =>
                         \A j \in 1..W : j < rx_i' => received_byte'[j] = Answer[j]
  BY MonitorFrame DEF Heard, Within
<1>1. drv \in {"lead", "gap"} => sclk = CPOL
  BY DEF Inv, Timing, Levels
<1>2. CPOL \in Bit
  BY Types
<1>3. mon' = "byte" => sclk_seen' = sclk
  BY DEF Monitor, MonitorStep, GetIntent, SeeSelect, EnterReceiveByte, IgnoreEdge, SampleMiso,
         ContinueFrame, Publish
<1>4. ASSUME mon' = "byte", Len(received_data') = 2, NEW j \in 1..W, j < rx_i'
      PROVE  received_byte'[j] = Answer[j]
  <2>1. CASE SeeSelect \/ ContinueFrame
    BY <1>4, <2>1 DEF SeeSelect, ContinueFrame, EnterReceiveByte
  <2>2. CASE IgnoreEdge
    BY <1>4, <2>2 DEF IgnoreEdge, Contents, Heard
  <2>3. CASE SampleMiso
    <3>1. /\ received_data' = received_data /\ rx_i' = rx_i + 1 /\ mon = "byte"
          /\ received_byte' = [received_byte EXCEPT ![rx_i] = miso]
      BY <1>4, <2>3 DEF SampleMiso
    <3>2. miso = Answer[rx_i]
      BY <1>4, <2>3, <3>1, SampledBit
    <3>3. received_byte \in Byte
      BY DEF Inv, TypeOK, MonitorTypeOK
    <3>4. j < rx_i => received_byte[j] = Answer[j]
      BY <1>4, <3>1 DEF Contents, Heard
    <3>5. j < rx_i \/ j = rx_i
      BY <1>4, <3>1, Types
    <3> QED
      BY <3>1, <3>2, <3>3, <3>4, <3>5 DEF Byte
  <2>4. CASE GetIntent \/ Publish
    BY <1>4, <2>4 DEF GetIntent, Publish
  <2> QED
    BY <2>1, <2>2, <2>3, <2>4 DEF Monitor, MonitorStep
<1> QED
  BY <1>1, <1>2, <1>3, <1>4

LEMMA ContentsMonitor ==
  ASSUME Served, Inv, Contents, Monitor
  PROVE  Contents'
<1>1. Wired' /\ Slow' /\ Taken' /\ Answered'
  BY MonitorFrame DEF Contents
<1>2. Kept'
  <2> SUFFICES ASSUME drv \in {"idle", "init"} PROVE mon' # "between"
    BY MonitorFrame DEF Kept
  <2>1. mon # "byte"
    BY DEF Inv, Following, Follows, Between
  <2> QED
    BY <2>1 DEF Monitor, MonitorStep, GetIntent, SeeSelect, EnterReceiveByte, IgnoreEdge,
                SampleMiso, ContinueFrame, Publish
<1> QED
  BY <1>1, <1>2, HeardMonitor DEF Contents

(* The steps between two transactions.                                     *)
LEMMA ContentsOther ==
  ASSUME Served, Inv, Contents, Send \/ SetGpio \/ Release
  PROVE  Contents'
<1>1. /\ drv = "idle" /\ cs = 1 /\ cs' = cs
      /\ drv' \in {"idle", "init"} /\ (drv' = "init" => timer' # 0)
      /\ UNCHANGED <<regfile, mon, mon_tr>>
  BY ConfigFacts DEF Send, SendItem, Delay, SetGpio, Release, ReleaseReset, spiPins, driverVars,
     slaveVars, monitorVars, Inv, Timing, Paced, Levels
<1>2. ~InFrame' /\ ~Effective'
  BY <1>1 DEF InFrame, Effective
<1>3. Wired'
  BY <1>1, <1>2 DEF Wired
<1>4. Slow' /\ Taken' /\ Answered' /\ Heard'
  BY <1>1, <1>2 DEF Slow, Taken, Answered, Heard
<1>5. Kept'
  BY <1>1 DEF Contents, Kept, ReadOnly
<1> QED
  BY <1>3, <1>4, <1>5 DEF Contents

LEMMA ContentsStutter ==
  ASSUME Contents, UNCHANGED vars
  PROVE  Contents'
<1>1. /\ UNCHANGED <<drv, timer, tx_bytes, byte_i, bit_i, mosi, sclk, cs, gpio_in, spi_cfg>>
      /\ UNCHANGED <<regfile, sclk_d1, sclk_d2, cs_d1, cs_d2, mosi_d1, mosi_d2,
                     byte_cnt, bit_cnt, shift_in, shift_out, rw, addr, miso>>
      /\ UNCHANGED <<mon, sclk_seen, mon_tr, rx_i, received_byte, received_data>>
  BY DEF vars, spiPins, driverVars, slaveVars, syncVars, spiVars, monitorVars
<1>2. /\ CPOL' = CPOL /\ MODE' = MODE /\ CPHA' = CPHA
      /\ IsWrite' = IsWrite /\ Answer' = Answer /\ InFrame' = InFrame /\ Effective' = Effective
  BY <1>1 DEF CPOL, MODE, CPHA, IsWrite, Answer, read_reg, ReadReg, InFrame, Effective
<1>3. Wired' = Wired /\ Slow' = Slow
  BY <1>1, <1>2 DEF Wired, Slow, Expected, sclk_rise
<1>4. Taken' = Taken
  BY <1>1, <1>2 DEF Taken, Stored, IsWrite, ReadOnly
<1>5. Answered' = Answered
  BY <1>1, <1>2 DEF Answered, Falls
<1>6. Heard' = Heard /\ Kept' = Kept
  BY <1>1, <1>2 DEF Heard, Within, Kept, ReadOnly
<1> QED
  BY <1>3, <1>4, <1>5, <1>6 DEF Contents

LEMMA ContentsStep ==
  ASSUME Served, Inv, Contents, [Next]_vars
  PROVE  Contents'
BY ContentsDriver, ContentsTick, ContentsMonitor, ContentsOther, ContentsStutter DEF Next

LEMMA ContentsInvariant ==
  ASSUME Served
  PROVE  Spec => [](Inv /\ Contents)
<1>1. TrailingSampled
  BY ServedTrailing
<1>2. Spec => []Inv
  BY <1>1, ConfigInvariant, TypeCorrect, TimingInvariant, EdgesConservedCorrect,
     FollowingInvariant, PTL DEF Inv
<1>3. Init => Contents
  BY ContentsInit
<1>4. Inv /\ Contents /\ [Next]_vars => Contents'
  BY ContentsStep
<1> QED
  BY <1>2, <1>3, <1>4, PTL DEF Spec

-----------------------------------------------------------------------------
(* The queue and the result of RegMap, by where the monitor is.            *)
Queue == InProgress \o intent_fifo

LEMMA QueueFacts ==
  ASSUME Inv
  PROVE  /\ mon = "intent" => Queue = intent_fifo /\ Returned = <<>>
         /\ mon # "intent" => /\ Queue = <<mon_tr>> \o intent_fifo
                              /\ Queue # <<>> /\ Head(Queue) = mon_tr /\ Tail(Queue) = intent_fifo
                              /\ Len(Queue) = 1 + Len(intent_fifo)
         /\ mon # "intent" /\ Len(received_data) < 3 => Returned = <<>>
         /\ mon # "intent" /\ Len(received_data) = 3 => Returned = <<received_data[3]>>
         /\ intent_fifo \in Seq(Transaction) /\ mon_tr \in Transaction /\ received_data \in Seq(Byte)
<1>1. intent_fifo \in Seq(Transaction) /\ mon_tr \in Transaction /\ received_data \in Seq(Byte)
  BY DEF Inv, TypeOK, MonitorTypeOK
<1>2. mon = "intent" => Queue = intent_fifo /\ Returned = <<>>
  BY <1>1 DEF Queue, InProgress, Returned
<1>3. ASSUME mon # "intent"
      PROVE  /\ Queue = <<mon_tr>> \o intent_fifo
             /\ Queue # <<>> /\ Head(Queue) = mon_tr /\ Tail(Queue) = intent_fifo
             /\ Len(Queue) = 1 + Len(intent_fifo)
  <2>1. Queue = <<mon_tr>> \o intent_fifo
    BY <1>3 DEF Queue, InProgress
  <2> QED
    BY <1>1, <2>1
<1>4. /\ mon # "intent" /\ Len(received_data) < 3 => Returned = <<>>
      /\ mon # "intent" /\ Len(received_data) = 3 => Returned = <<received_data[3]>>
  BY <1>1 DEF Returned
<1> QED
  BY <1>1, <1>2, <1>3, <1>4

LEMMA RefinesInit == Init => Registers!Init
<1> SUFFICES ASSUME Init PROVE Registers!Init
  OBVIOUS
<1>1. regfile \in [Byte -> Byte] /\ gpio_in \in Byte
  BY ZeroType DEF Init, ResetState
<1>2. InProgress \o intent_fifo = <<>> /\ Returned = <<>>
  BY DEF Init, MonitorInit, InProgress, Returned
<1>3. scored.verdict = "none" /\ uvm_errors = 0
  BY DEF Init, MonitorInit
<1> QED
  BY <1>1, <1>2, <1>3 DEF Registers!Init

(* finish_item submits a transaction.                                      *)
LEMMA RefinesSend ==
  ASSUME Served, Inv, Inv', Send
  PROVE  Registers!Submit
<1>1. PICK tr \in Items(sent + 1) : SendItem(tr)
  BY DEF Send
<1>2. /\ drv = "idle" /\ intent_fifo' = Append(intent_fifo, tr)
      /\ UNCHANGED <<gpio_in, regfile, mon, mon_tr, received_data, scored, uvm_errors>>
  BY <1>1 DEF Send, SendItem, slaveVars, monitorVars, scoreVars
<1>3. intent_fifo = <<>> /\ (mon = "intent" \/ (mon = "between" /\ Len(received_data) = 3))
  BY <1>2 DEF Inv, Following, Follows, Between
<1>4. tr \in UNION {Items(n) : n \in 1..MaxItems}
  <2>1. sent + 1 \in 1..MaxItems
    BY StimulusAssumption DEF Send, Inv, TypeOK
  <2> QED
    BY <1>1, <2>1
<1>5. Queue = <<>> \/ (Len(Queue) = 1 /\ Returned # <<>>)
  BY <1>3, QueueFacts
<1>6. Queue' = Append(Queue, tr)
  <2>1. CASE mon = "intent"
    BY <1>2, <2>1, QueueFacts DEF Queue, InProgress
  <2>2. CASE mon # "intent"
    <3>1. Queue = <<mon_tr>> /\ Queue' = <<mon_tr>> \o <<tr>>
      BY <1>2, <1>3, <2>2 DEF Queue, InProgress
    <3> QED
      BY <3>1
  <2> QED
    BY <2>1, <2>2
<1>7. Returned' = Returned
  BY <1>2 DEF Returned
<1> QED
  BY <1>2, <1>4, <1>5, <1>6, <1>7 DEF Registers!Submit, Queue

LEMMA RefinesSetGpio ==
  ASSUME Served, Inv, Inv', SetGpio
  PROVE  Registers!SetPins
<1>1. /\ drv = "idle" /\ gpio_in' \in Byte
      /\ UNCHANGED <<intent_fifo, regfile, mon, mon_tr, received_data, scored, uvm_errors>>
  BY DEF SetGpio, slaveVars, monitorVars, scoreVars, Inv, TypeOK
<1>2. intent_fifo = <<>> /\ (mon = "intent" \/ (mon = "between" /\ Len(received_data) = 3))
  BY <1>1 DEF Inv, Following, Follows, Between
<1>3. Queue = <<>> \/ (Len(Queue) = 1 /\ Returned # <<>>)
  BY <1>2, QueueFacts
<1>4. Queue' = Queue /\ Returned' = Returned
  BY <1>1 DEF Queue, InProgress, Returned
<1> QED
  BY <1>1, <1>3, <1>4 DEF Registers!SetPins, Queue

(* A clk edge performs the write in progress, or nothing.                  *)
LEMMA RefinesTick ==
  ASSUME Served, Inv, Contents, Tick
  PROVE  Registers!Perform \/ UNCHANGED Registers!vars
<1>1. UNCHANGED <<gpio_in, Queue, Returned, scored, uvm_errors>>
  BY TickFrame DEF Queue, InProgress, Returned
<1>2. CASE regfile' = regfile
  BY <1>1, <1>2 DEF Registers!vars, Queue
<1>3. CASE regfile' # regfile
  <2>1. /\ InFrame /\ IsWrite /\ tx_bytes[2] \notin ReadOnly
        /\ regfile' = [regfile EXCEPT ![tx_bytes[2]] = tx_bytes[3]]
    BY <1>3, StoreTick
  <2>2. FrameOf(mon_tr) = tx_bytes /\ mon # "intent" /\ drv # "idle"
    BY <2>1 DEF Inv, Timing, Levels, TypeOK, DriverTypeOK, Following, Follows, Same, Between,
                Within, InFrame
  <2>3. Queue # <<>> /\ Head(Queue) = mon_tr
    BY <2>2, QueueFacts
  <2>4. mon_tr.is_write = 1 /\ mon_tr.addr = tx_bytes[2] /\ mon_tr.data = tx_bytes[3]
    BY <2>1, <2>2, FrameParts DEF IsWrite
  <2>5. Registers!Writes(mon_tr)
    BY <2>1, <2>4 DEF Registers!Writes, ReadOnly
  <2> QED
    BY <1>1, <2>1, <2>3, <2>4, <2>5 DEF Registers!Perform, Queue
<1> QED
  BY <1>2, <1>3

(* A step of the monitor takes the result from the bus, reports it, or     *)
(* does nothing.                                                           *)
LEMMA RefinesMonitor ==
  ASSUME Served, Inv, Inv', Contents, Monitor
  PROVE  Registers!Complete \/ Registers!Report \/ UNCHANGED Registers!vars
<1>1. UNCHANGED <<regfile, gpio_in>> /\ MonitorStep
  BY MonitorFrame DEF Monitor
<1> USE DEF Queue
<1>2. CASE GetIntent
  <2>1. /\ mon = "intent" /\ intent_fifo # <<>> /\ mon_tr' = Head(intent_fifo)
        /\ intent_fifo' = Tail(intent_fifo) /\ received_data' = <<>> /\ mon' = "cs"
        /\ UNCHANGED <<scored, uvm_errors>>
    BY <1>2 DEF GetIntent, scoreVars
  <2>2. Queue = intent_fifo /\ Returned = <<>> /\ intent_fifo \in Seq(Transaction)
    BY <2>1, QueueFacts
  <2>3. Queue' = <<Head(intent_fifo)>> \o Tail(intent_fifo)
    BY <2>1 DEF InProgress
  <2>4. Queue' = Queue
    BY <2>1, <2>2, <2>3
  <2>5. Returned' = <<>>
    BY <2>1 DEF Returned
  <2> QED
    BY <1>1, <2>1, <2>2, <2>4, <2>5 DEF Registers!vars
<1>3. CASE SeeSelect \/ IgnoreEdge \/ ContinueFrame
  <2>1. /\ mon # "intent" /\ mon' # "intent"
        /\ UNCHANGED <<mon_tr, received_data, intent_fifo, scored, uvm_errors>>
    BY <1>3 DEF SeeSelect, EnterReceiveByte, IgnoreEdge, ContinueFrame, scoreVars
  <2>2. Queue' = Queue /\ Returned' = Returned
    BY <2>1 DEF InProgress, Returned
  <2> QED
    BY <1>1, <2>1, <2>2 DEF Registers!vars
<1>4. CASE SampleMiso
  <2>1. /\ mon # "intent" /\ mon' # "intent" /\ mon = "byte"
        /\ UNCHANGED <<mon_tr, intent_fifo, scored, uvm_errors>>
    BY <1>4 DEF SampleMiso, scoreVars
  <2>2. Queue' = Queue
    BY <2>1 DEF InProgress
  <2>3. CASE received_data' = received_data
    <3>1. Returned' = Returned
      BY <2>1, <2>3 DEF Returned
    <3> QED
      BY <1>1, <2>1, <2>2, <3>1 DEF Registers!vars
  <2>4. CASE received_data' # received_data
    <3>1. rx_i = W /\ received_data' = Append(received_data, received_byte')
      BY <1>4, <2>4 DEF SampleMiso
    <3>2. Len(received_data) \in {0, 1, 2}
      <4>1. drv \in {"select", "lead", "trail", "gap"}
        BY <2>1, Types DEF Inv, Following, Follows, Between
      <4>2. Len(received_data) = 0 \/ Len(received_data) = byte_i - 1
        BY <2>1, <4>1 DEF Inv, Following, Follows, Within, Between
      <4>3. byte_i - 1 \in {0, 1, 2}
        BY Types
      <4> QED
        BY <4>2, <4>3
    <3>3. received_data \in Seq(Byte) /\ received_byte' \in Byte
      BY QueueFacts DEF Inv, TypeOK, MonitorTypeOK
    <3>4. Len(received_data') = Len(received_data) + 1
      BY <3>1, <3>3
    <3>5. CASE Len(received_data) # 2
      <4>1. ~(Len(received_data) >= 3) /\ ~(Len(received_data') >= 3)
        BY <3>1, <3>2, <3>3, <3>5, AppendThird
      <4>2. Returned = <<>> /\ Returned' = <<>>
        BY <4>1 DEF Returned
      <4> QED
        BY <1>1, <2>1, <2>2, <4>2 DEF Registers!vars
    <3>6. CASE Len(received_data) = 2
      <4>1. received_data'[3] = received_byte'
        BY <3>1, <3>3, <3>6, AppendThird
      <4>2. Returned = <<>> /\ Returned' = <<received_byte'>>
        BY <2>1, <3>4, <3>6, <4>1 DEF Returned
      <4>3. FrameOf(mon_tr) = tx_bytes /\ drv # "idle"
        BY <2>1 DEF Inv, TypeOK, DriverTypeOK, Following, Follows, Same, Between, Within
      <4>4. mon_tr.is_write = 0 => received_byte' = Registers!Value(mon_tr.addr)
        <5> SUFFICES ASSUME mon_tr.is_write = 0 PROVE received_byte' = Registers!Value(mon_tr.addr)
          OBVIOUS
        <5>1. ~IsWrite /\ tx_bytes[2] = mon_tr.addr
          BY <4>3, FrameParts DEF IsWrite
        <5>2. received_byte' = Answer
          BY <1>4, <3>1, <3>6, <5>1, ReadHeard
        <5> QED
          BY <5>1, <5>2 DEF Answer, read_reg, ReadReg, Registers!Value
      <4>5. Queue # <<>> /\ Head(Queue) = mon_tr
        BY <2>1, QueueFacts
      <4> QED
        BY <1>1, <2>1, <2>2, <3>3, <4>2, <4>4, <4>5 DEF Registers!Complete
    <3> QED
      BY <3>5, <3>6
  <2> QED
    BY <2>3, <2>4
<1>5. CASE Publish
  <2> DEFINE tr == Observed(mon_tr, received_data)
  <2>1. /\ mon = "between" /\ cs = 1 /\ mon' = "intent" /\ intent_fifo' = intent_fifo
        /\ scored' = [tr |-> tr, verdict |-> Verdict(tr)]
        /\ uvm_errors' = uvm_errors + (IF Verdict(tr) = "mismatch" THEN 1 ELSE 0)
    BY <1>5 DEF Publish
  <2>2. drv \in {"idle", "init"} /\ Len(received_data) = 3
    BY <2>1, Types DEF Inv, Timing, Levels, Following, Follows, Between, Within
  <2>3. /\ Returned = <<received_data[3]>> /\ Head(Queue) = mon_tr /\ Tail(Queue) = intent_fifo
        /\ mon_tr \in Transaction
    BY <2>1, <2>2, QueueFacts
  <2>4. Returned # <<>> /\ Returned[1] = received_data[3]
    BY <2>3
  <2>5. Returned' = <<>> /\ Queue' = Tail(Queue)
    <3>1. Queue' = <<>> \o intent_fifo /\ intent_fifo \in Seq(Transaction)
      BY <2>1, QueueFacts DEF InProgress
    <3> QED
      BY <2>1, <2>3, <3>1 DEF Returned
  <2>6. Registers!InEffect(mon_tr)
    BY <2>1, <2>2 DEF Contents, Kept, Registers!InEffect, Registers!Writes, ReadOnly
  <2>7. mon_tr.is_write \in Bit
    BY <2>3 DEF Transaction
  <2>8. tr = IF mon_tr.is_write = 1 THEN mon_tr ELSE [mon_tr EXCEPT !.data = Returned[1]]
    BY <2>2, <2>4, <2>7 DEF Observed
  <2> HIDE DEF tr
  <2>9. tr.is_write \in Bit /\ Verdict(tr) = Registers!Judge(tr)
    <3>1. tr \in Transaction
      BY <2>3, QueueFacts, ScoredType DEF tr
    <3>2. tr.is_write \in Bit
      BY <3>1 DEF Transaction
    <3> QED
      <4>1. CASE tr.is_write = 1
        BY <4>1 DEF Verdict, Registers!Judge
      <4>2. CASE tr.is_write = 0 /\ tr.compare_data = 0
        BY <4>2 DEF Verdict, Registers!Judge
      <4>3. CASE tr.is_write = 0 /\ tr.compare_data # 0
        BY <4>3 DEF Verdict, Registers!Judge
      <4> QED
        BY <3>2, <4>1, <4>2, <4>3
  <2>10. uvm_errors \in Nat
    BY DEF Inv, TypeOK, MonitorTypeOK
  <2>11. uvm_errors' = IF Verdict(tr) = "mismatch" THEN uvm_errors + 1 ELSE uvm_errors
    BY <2>1, <2>10
  <2> QED
    BY <1>1, <2>1, <2>3, <2>4, <2>5, <2>6, <2>8, <2>9, <2>11 DEF Registers!Report
<1> QED
  BY <1>1, <1>2, <1>3, <1>4, <1>5 DEF MonitorStep

LEMMA RefinesStep ==
  ASSUME Served, Inv, Inv', Contents, [Next]_vars
  PROVE  [Registers!Next]_(Registers!vars)
<1>1. CASE Send
  BY <1>1, RefinesSend DEF Registers!Next
<1>2. CASE SetGpio
  BY <1>2, RefinesSetGpio DEF Registers!Next
<1>3. CASE Monitor
  BY <1>3, RefinesMonitor DEF Registers!Next
<1>4. CASE Tick
  BY <1>4, RefinesTick DEF Registers!Next
<1>5. CASE Drive \/ Release \/ UNCHANGED vars
  <2>1. intent_fifo' = intent_fifo
    BY <1>5 DEF Drive, DriverStep, AssertCs, FirstByte, NextByte, StartByte, LeadingEdge,
       TrailingEdge, LastTrailingEdge, EndFrame, NegateCs, Release, vars
  <2>2. UNCHANGED <<regfile, gpio_in, mon, mon_tr, received_data, scored, uvm_errors>>
    BY <1>5 DEF Drive, Release, ReleaseReset, vars, slaveVars, monitorVars, scoreVars
  <2> QED
    BY <2>1, <2>2 DEF Registers!vars, InProgress, Returned
<1> QED
  BY <1>1, <1>2, <1>3, <1>4, <1>5 DEF Next

(* The whole SPI side - driver, pins, design under test, monitor and       *)
(* scoreboard - is an atomic register file: every transaction is reported  *)
(* once and in order, a write is in the register file when it is, a read   *)
(* returns what its register holds, and nothing else changes a register    *)
(* (tb_drivers.sv, tb_monitors.sv, tb_scoreboards.sv,                      *)
(* spi_slave_gpio_regmap.sv).                                              *)
THEOREM ImplementsRegMapCorrect ==
  ASSUME Served
  PROVE  Spec => ImplementsRegMap
<1>1. Init => Registers!Init
  BY RefinesInit
<1>2. Inv /\ Contents /\ Inv' /\ [Next]_vars => [Registers!Next]_(Registers!vars)
  BY RefinesStep
<1>3. Spec => [](Inv /\ Contents)
  BY ContentsInvariant
<1> QED
  BY <1>1, <1>2, <1>3, PTL DEF Spec, ImplementsRegMap, Registers!Spec

=============================================================================
