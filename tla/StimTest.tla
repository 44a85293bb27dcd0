------------------------------ MODULE StimTest ------------------------------
(***************************************************************************)
(* The test as a whole (tb_test.sv, tb_env.sv): the file generator, the    *)
(* two drivers behind their sequencers, the monitors, the scoreboards and  *)
(* the end of the run phase.                                               *)
(*                                                                         *)
(* The SPI side is taken as what SpiBus is shown to implement: a frame     *)
(* takes effect on the register file as a whole, when CS goes high, and    *)
(* the monitor is then due to publish it.  Only frames and pauses consume  *)
(* time, so they wait until no process is due in the current time step.    *)
(***************************************************************************)
EXTENDS FileGenerator

CONSTANTS ADDR_ID, ADDR_GPIO_IN, ADDR_GPIO_OUT, ID_VALUE

ASSUME MapAssumption ==
  {ADDR_ID, ADDR_GPIO_IN, ADDR_GPIO_OUT, ID_VALUE} \subseteq 0..255

VARIABLES
  regfile, gpio_in,              \* the design's registers, the input pins
  spi_intents, received,         \* spi_monitor: intents; <<b>>: byte 3 of a frame
  gpio_intents,                  \* gpio_monitor: its FIFO
  spi_log, gpio_log,             \* the scoreboards' verdicts, in order
  if_errors,                     \* items with a signal tb_gpio_if does not know
  phase                          \* "run" or "ended"

spiSide  == <<regfile, spi_intents, received, spi_log>>
gpioSide == <<gpio_in, gpio_intents, gpio_log, if_errors>>
vars == <<genVars, portVars, spiSide, gpioSide, phase>>

-----------------------------------------------------------------------------
BitOf(value, k) == (value \div 2^k) % 2
PinValue(pins)  == LET low[k \in 0..8] ==
                         IF k = 0 THEN 0 ELSE low[k - 1] + pins[k - 1] * 2^(k - 1)
                   IN low[8]

\* read_reg
ReadReg(mem, pins, a) == IF a = ADDR_ID THEN ID_VALUE
                         ELSE IF a = ADDR_GPIO_IN THEN PinValue(pins) ELSE mem[a]
WriteReg(mem, a, d)   == IF a \in {ADDR_ID, ADDR_GPIO_IN} THEN mem ELSE [mem EXCEPT ![a] = d]

\* tb_gpio_if.  A bit that was never set is X, which a two-state bit holds as 0.
Signals == {"gpio_in", "gpio_out"}
GetGpio(mem, pins, name, k) == CASE name = "gpio_in"  -> pins[k]
                                 [] name = "gpio_out" -> BitOf(mem[ADDR_GPIO_OUT], k)
                                 [] OTHER             -> 0

SpiVerdict(tr) == IF tr.is_write = 1 THEN "write"
                  ELSE IF tr.compare_data = 0 THEN "no compare"
                  ELSE IF tr.data = tr.expected_data THEN "ok" ELSE "mismatch"
GpioVerdict(tr) == IF tr.compare_value = 0 THEN "no compare"
                   ELSE IF tr.value = tr.expected_value THEN "ok" ELSE "mismatch"

Entry(tr, verdict) == [id |-> tr.transaction_id, verdict |-> verdict]

-----------------------------------------------------------------------------
(* The files there are pause beyond the reset pulse before their first SPI *)
(* line, as every file of stimuli_files does.                              *)
ValidPause(line) == Len(line) = 3 /\ line[1] = "PAUSE" /\ line[2] \in {"NS", "US", "MS"}
AfterReset ==
  \A n \in 1..Len(file) :
     Len(file[n]) >= 3 /\ file[n][1] = "SPI" => \E m \in 1..n-1 : ValidPause(file[m])

Init ==
  /\ GeneratorInit /\ AfterReset /\ PortInit
  /\ regfile = [a \in 0..255 |-> 0] /\ gpio_in = [k \in 0..7 |-> 0]
  /\ spi_intents = <<>> /\ received = <<>> /\ gpio_intents = <<>>
  /\ spi_log = <<>> /\ gpio_log = <<>> /\ if_errors = {}
  /\ phase = "run"

\* The processes that can run in the current time step.
GeneratorDue == \/ gen = "read"
                \/ gen = "grant" /\ arb_done[item.seqr]
                \/ gen = "item"  /\ item_done[item.seqr]
DriverDue    == \E s \in Sequencers : CanTake(s)
MonitorDue   == received # <<>> \/ gpio_intents # <<>>
Unsettled    == GeneratorDue \/ DriverDue \/ MonitorDue
Due          == Unsettled \/ \E s \in Sequencers : CanGrant(s)

Generate == GeneratorStep /\ UNCHANGED <<spiSide, gpioSide>>

\* Fault_...: variants with a plausible bug, for the tests of the properties.
\* The choice is made at once.
Fault_SelectSequence ==
  /\ \E s \in Sequencers : Grant(s)
  /\ UNCHANGED <<genVars, spiSide, gpioSide>>

\* m_select_sequence looks at its queue after an NBA region (wait_for_sequences),
\* when the other processes have settled.
SelectSequence ==
  /\ ~Unsettled
  /\ \E s \in Sequencers : Grant(s)
  /\ UNCHANGED <<genVars, spiSide, gpioSide>>

\* spi_txn_driver: the intent goes to the monitor before the bus is driven.
SpiTake ==
  /\ TakeItem("spi")
  /\ spi_intents' = Append(spi_intents, Head(m_req_fifo["spi"]))
  /\ UNCHANGED <<genVars, gpioSide, regfile, received, spi_log>>

\* The frame: CS is high again, and item_done.
SpiFrame ==
  /\ driver["spi"] = "busy" /\ ~Due
  /\ LET tr == Head(m_req_fifo["spi"])
     IN IF tr.is_write = 1
        THEN /\ regfile'  = WriteReg(regfile, tr.addr, tr.data)
             /\ received' = <<tr.data>>
        ELSE /\ received' = <<ReadReg(regfile, gpio_in, tr.addr)>>
             /\ UNCHANGED regfile
  /\ ItemDone("spi")
  /\ UNCHANGED <<genVars, gpioSide, spi_intents, spi_log>>

\* spi_monitor publishes the transaction, and spi_scoreboard judges it.
SpiPublish ==
  /\ received # <<>>
  /\ LET intent == Head(spi_intents)
         tr == IF intent.is_write = 1 THEN intent ELSE [intent EXCEPT !.data = received[1]]
     IN spi_log' = Append(spi_log, Entry(tr, SpiVerdict(tr)))
  /\ spi_intents' = Tail(spi_intents) /\ received' = <<>>
  /\ UNCHANGED <<genVars, portVars, gpioSide, regfile>>

\* gpio_driver: get_next_item to item_done, in zero time.
GpioDrive ==
  /\ CanTake("gpio")
  /\ LET tr == Head(m_req_fifo["gpio"]) IN
     /\ IF tr.is_write = 1
        THEN /\ gpio_in' = IF tr.sig_name = "gpio_in"
                           THEN [gpio_in EXCEPT ![tr.gpio_offset] = tr.value] ELSE gpio_in
             /\ gpio_intents' = Append(gpio_intents, tr)
        ELSE /\ gpio_intents' = Append(gpio_intents,
                  [tr EXCEPT !.value = GetGpio(regfile, gpio_in, tr.sig_name, tr.gpio_offset)])
             /\ UNCHANGED gpio_in
     /\ if_errors' = IF tr.sig_name \in Signals THEN if_errors
                     ELSE if_errors \cup {tr.transaction_id}
  /\ ItemDone("gpio")
  /\ UNCHANGED <<genVars, spiSide, gpio_log>>

GpioPublish ==
  /\ gpio_intents # <<>>
  /\ LET tr == Head(gpio_intents) IN gpio_log' = Append(gpio_log, Entry(tr, GpioVerdict(tr)))
  /\ gpio_intents' = Tail(gpio_intents)
  /\ UNCHANGED <<genVars, portVars, spiSide, gpio_in, if_errors>>

PauseEnds == PauseOver /\ ~Due /\ UNCHANGED <<spiSide, gpioSide>>

\* The phase ends with the drop of the objection, without waiting.
Fault_EndPhase ==
  /\ gen = "dropped"
  /\ phase' = "ended"
  /\ UNCHANGED <<genVars, portVars, spiSide, gpioSide>>

(* The objection was the only one: the phase ends in the time step of the  *)
(* drop, behind the NBA regions in which the other processes settle, and   *)
(* its processes are killed.                                               *)
EndPhase ==
  /\ gen = "dropped" /\ ~Due
  /\ phase' = "ended"
  /\ UNCHANGED <<genVars, portVars, spiSide, gpioSide>>

Running == Generate \/ SelectSequence \/ SpiTake \/ SpiFrame \/ SpiPublish
           \/ GpioDrive \/ GpioPublish \/ PauseEnds
Next == phase = "run" /\ ((Running /\ UNCHANGED phase) \/ EndPhase)

Spec     == Init /\ [][Next]_vars
FairSpec == Spec /\ WF_vars(Next)

-----------------------------------------------------------------------------
TypeOK ==
  /\ regfile \in [0..255 -> 0..255] /\ gpio_in \in [0..7 -> {0, 1}]
  /\ gen \in {"read", "pause", "grant", "item", "dropped"}
  /\ stim_f_ln_num \in 0..Len(file) /\ gen_errors \cup if_errors \subseteq 1..MaxLines
  /\ driver \in [Sequencers -> {"select", "peek", "busy"}]
  /\ \A s \in Sequencers : Len(m_req_fifo[s]) <= 1
  /\ Len(spi_intents) <= 1 /\ Len(received) <= 1 /\ Len(gpio_intents) <= 1
  /\ phase \in {"run", "ended"}

(* The inputs of the design do not move while a frame is on the bus: one   *)
(* sequence feeds both drivers and waits for every item (tb_generators.sv  *)
(* 136-138, 173-175).                                                      *)
StableInputs == [][gpio_in' # gpio_in => driver["spi"] # "busy"]_vars

(* What a stimuli file means, line by line: a line is its own tokens, its  *)
(* item takes effect before the next line is read, and every item gets its *)
(* verdict from the state its predecessors left.                           *)
Own(line) == [k \in Tokens |-> IF k < Len(line) THEN line[k + 1] ELSE ""]

NoEffect == [mem |-> [a \in 0..255 |-> 0], pins |-> [k \in 0..7 |-> 0],
             spi |-> <<>>, gpio |-> <<>>, bad |-> {}, unknown |-> {}]

SpiEffect(e, id, t) ==
  LET tr   == SpiItem(id, t)
      read == [tr EXCEPT !.data = ReadReg(e.mem, e.pins, tr.addr)]
  IN IF t[1] = "WR"
     THEN [e EXCEPT !.mem = WriteReg(@, tr.addr, tr.data), !.spi = Append(@, Entry(tr, "write"))]
     ELSE [e EXCEPT !.spi = Append(@, Entry(tr, SpiVerdict(read)))]

GpioEffect(e, id, t) ==
  LET tr   == GpioItem(id, t)
      read == [tr EXCEPT !.value = GetGpio(e.mem, e.pins, t[1], tr.gpio_offset)]
      seen == [e EXCEPT !.unknown = IF t[1] \in Signals THEN @ ELSE @ \cup {id}]
  IN IF t[3] = "SET"
     THEN [seen EXCEPT !.pins = IF t[1] = "gpio_in" THEN [@ EXCEPT ![tr.gpio_offset] = tr.value]
                                ELSE @,
                       !.gpio = Append(@, Entry(tr, "no compare"))]
     ELSE [seen EXCEPT !.gpio = Append(@, Entry(tr, GpioVerdict(read)))]

LineEffect(e, id, line) ==
  LET t == Own(line)
      badPause == t[0] = "PAUSE" /\ t[1] \notin {"NS", "US", "MS"}
      tooShort == t[0] # "PAUSE" /\ Len(line) < 3
  IN IF IsComment(line) THEN e
     ELSE IF badPause \/ tooShort THEN [e EXCEPT !.bad = @ \cup {id}]
     ELSE IF t[0] = "SPI"  THEN SpiEffect(e, id, t)
     ELSE IF t[0] = "GPIO" THEN GpioEffect(e, id, t)
     ELSE e

Effects(lines) ==
  LET effect[n \in 0..Len(lines)] ==
        IF n = 0 THEN NoEffect ELSE LineEffect(effect[n - 1], n, lines[n])
  IN effect

Meaning == Effects(file)[Len(file)]

(* When the phase has ended, every verdict and every error is the one the  *)
(* file means: no item lost at the end of the test, none judged twice, out *)
(* of order or against a state of another line.                            *)
SequentialOutcome ==
  phase = "ended" =>
    [mem |-> regfile, pins |-> gpio_in, spi |-> spi_log, gpio |-> gpio_log,
     bad |-> gen_errors, unknown |-> if_errors] = Meaning

(* The test ends: no sequence and driver wait for each other.              *)
TestEnds == <>(phase = "ended")

(* Every line that is too short to be a command is reported                *)
(* (tb_generators.sv:100-104).                                             *)
MalformedReported ==
  phase = "ended" =>
    \A n \in 1..Len(file) :
       Len(file[n]) < 3 /\ ~IsComment(file[n]) /\ Own(file[n])[0] # "PAUSE" => n \in gen_errors
=============================================================================
