# A verification project for the portable UVM testbench

The repository is a small UVM testbench (`testbench/`) around an SPI slave with
a register file (`source/spi_slave_gpio_regmap.sv`), on top of a vendored copy
of Accellera UVM 1800.2-2020.3.1. This directory holds TLA+ models of the
design, of the testbench, of the UVM handshake the testbench depends on, and of
the C side of that UVM copy with the SystemVerilog that calls it; the TLC runs
that check them; and TLAPS proofs about the design, the SPI side of the testbench, the test as
a whole, value-change polling, and the cache with its compiled expressions.

The build of the repository compiles UVM with `+define+UVM_NO_DPI`
(`testbench/script/compile.do`, `README.md`). Of the C side's subjects it
therefore runs only the SystemVerilog glob match (`UvmGlobMatch`); the other
models of that part say what a build with the DPI library runs, which the same
copy offers.

## Inventory

| component | state | operations | interacts with |
|---|---|---|---|
| SPI slave (`spi_slave_gpio_regmap.sv`) | two-flop synchronizers, `bit_cnt`, `byte_cnt`, `shift_in`, `shift_out`, `rw`, `addr`, `miso`, `regfile` | posedge clk, negedge rst_n | pins |
| SPI driver (`tb_drivers.sv`, `tb_spi_driver.sv`) | the delay it is in, `tx_bytes`, loop indices | `run_phase`, `send_multi_byte`, `send_byte`, `init_spi_clock` | sequencer, pins, intent FIFO |
| SPI monitor (`tb_monitors.sv`, `tb_spi_monitor.sv`) | where it waits, the intent, the bytes received | `run_phase`, `receive_transaction`, `receive_byte` | intent FIFO, pins, scoreboard |
| SPI scoreboard (`tb_scoreboards.sv`) | number of errors | `write` | called by the monitor's analysis port |
| GPIO driver, monitor, scoreboard, `tb_gpio_if.sv` | the `gpio_in` pins, an intent FIFO | `set_gpio`, `get_gpio`, `write` | sequencer, design |
| file generator (`tb_generators.sv`) | line number, tokens `t0`..`t6`, the item in hand | `body`, one line at a time | both sequencers |
| sequencers (UVM `seq/`) | `arb_sequence_q`, `arb_completed`, `m_req_fifo`, the sequence named as done | `wait_for_grant`, `send_request`, `get_next_item`, `item_done` | generator, drivers |
| test, env, agents (`tb_test.sv`, `tb_env.sv`, `tb_agents.sv`) | the objection | build, connect, `run_phase` | UVM phases |
| clock and reset (`tb_top.sv`, `tb_utils.sv`) | `tb_clk`, `tb_rst` | `generate_clk`, `generate_reset` | design |

The C side of UVM (`1800.2-2020.3.1/src/dpi/`) and what calls it:

| component | state | operations | interacts with |
|---|---|---|---|
| polling (`uvm_hdl_polling.c`, `.svh`) | hook records, the list of changed ones, the notifier | create, enable, disable, `value_change_callback`, `process_changelist`, `getValue32`, restart | simulator callbacks, the loop, user code |
| backdoor access (`uvm_hdl_xcelium.c`, `uvm_hdl_questa.c`, `uvm_hdl_vcs.c`) | the signal (external), Questa's `partsel`, the caller's value | `check_path`, `read`, `deposit`, `force`, `release`, `release_and_read` | VPI, VHPI, FLI, MHPI |
| regular expressions (`uvm_regex.cc`, `uvm_regex.svh`) | the static buffer; the loops' indices | `deglobbed`, `comp`, `exec`, `free`, `uvm_re_match` | the cache, regcomp |
| caches (`uvm_cache.svh`, `uvm_lru_cache.svh`, `uvm_regex_cache.svh`) | hash, doubly linked list, maximal size | `get`, `put`, `evict`, `set_max_size`, `flush` | compiled expressions on the C side |
| command line (`uvm_svcmd_dpi.c`, `uvm_cmdline_processor.svh`) | the static `argc_total`, `argv_stack`, `idx` | `uvm_dpi_get_next_arg_c`, the constructor | the simulator's `argv` |

The generator starts an item on one of two sequencers and waits for it. The
driver behind that sequencer takes the item, publishes it as an *intent* to its
monitor's FIFO, drives the pins, and calls `item_done`. The slave samples the
pins with a clock that knows nothing of the driver's delays. The monitor takes
the intent, collects what MISO says while CS is low, puts it into the
transaction and calls the scoreboard. When the file is at its end the test drops
its only objection, and UVM kills every process.

What is hard, and what makes each part correct:

* **Slave**: edges found by oversampling, a registered MISO, counters that only
  a deselection *seen by clk* resets, `rw` and `addr` that outlive their frame,
  reset in the middle of anything. Correct: its registers are a decoding of the
  bits on the wire; only a complete write frame writes; a read is answered with
  one value, a bit per cycle, in time.
* **Bus**: five processes with different notions of time. Correct: no edge is
  lost or counted in the wrong frame; the monitor is always in the frame of its
  intent; together they are an atomic register file; every item is judged.
* **Generator and handshake**: one sequence, two sequencers, tokens that survive
  from line to line, an end that kills the monitors. Correct: the verdicts are
  those of the file read line by line, no item is lost at the end, inputs do not
  move under a frame, the test ends.

* **Polling**: a list that callbacks grow while the loop empties it and user code
  runs in the middle; a notifier that only works as an edge; a restart. Correct:
  the list agrees with its records and is on its way to the testbench; a change of
  a watched signal is told once, in the end.
* **Backdoor access**: six calls for paths of many shapes, failing half way, in
  chunks, in two languages and three dialects. Correct: a 1 means done, to the
  bits of the path and no others.
* **Regular expressions and caches**: a conversion between two notations that is
  applied twice, a buffer of fixed size, a list that is relinked on each use,
  handles owned on the other side of the DPI. Correct: an answer is what the text
  means; the list is the order of use; each handle is freed once.
* **Command line**: a recursive walk that two passes and two callers share. Correct:
  every argument, once, in order.

`PROJECT.json` lists the hazards line by line, with the properties that would
catch each of them, and says which have none and why.

## Modules

| module | models |
|---|---|
| `SpiAgentIf` | what the SPI processes share: pins, intent FIFO, bytes, transactions |
| `SpiSlave` | the design: `ClockEdge`, `AssertReset`, `ReleaseReset` |
| `SpiSlaveFrames` | the slave facing *any* master, with the history of its pins and of what it sampled |
| `SpiSlaveLemmas` | lemmas about bytes, shifting and the type of the slave's registers |
| `SpiSlaveFramesProofs` | TLAPS proofs about `SpiSlaveFrames` |
| `SpiConfig` | the configuration object of a run, one of several |
| `SpiDriver` | driver: one action per stretch between two delays |
| `SpiMonitor` | monitor and scoreboard: one action per stretch between two waits |
| `SpiBus` | slave, driver, monitor, stimulus on the same pins, in simulated time |
| `SpiBusProofs` | TLAPS proofs about `SpiBus`: types, edges, the monitor, the refinement of `RegMap` |
| `RegMap` | abstract specification: an atomic register file with an ordered report |
| `ItemPort` | sequencer/driver handshake for one sequence |
| `FileGenerator` | `fstim_generator.body` |
| `StimTest` | generator, handshake, both agents, end of the run phase |
| `StimTestProofs` | TLAPS proofs about `StimTest` |
| `ChangeService` | abstract specification: what polling promises |
| `HdlPolling` | polling: C side, loop, simulator callbacks, restart |
| `HdlPollingProofs` | TLAPS proofs about `HdlPolling` |
| `HdlPollingValue` | `uvm_polling_getValue32` with the masks of the hook record |
| `HdlSignal` | a signal, paths into it, and the simulator's way of putting a value |
| `HdlAccess` | abstract specification: what `uvm_hdl.svh` promises of each call |
| `HdlXcelium`, `HdlQuesta`, `HdlVcs` | one simulator's backdoor access each |
| `HdlBackdoor` | a testbench in one of nine builds of the three |
| `HdlBackdoorProofs` | TLAPS proofs about all nine builds |
| `RecencyCache` | abstract specification: keys in the order of their use |
| `UvmLruCache` | the cache as hash and doubly linked list |
| `UvmRegexMatch` | who owns the cache: a testbench, or matching, for its compiled expressions |
| `UvmRegexMatchProofs` | TLAPS proofs about the cache, with both of its owners |
| `Globs` | reference: what a glob means |
| `UvmGlobMatch` | the SystemVerilog glob match, one action per turn of a loop |
| `UvmRegex` | globs to regular expressions, and their buffer |
| `DpiCall`, `DpiFunctions` | one call of a pure function: `UvmGlobMatch`, `UvmRegex` or `HdlPollingValue` |
| `DpiFunctionsProofs` | TLAPS proofs about `UvmGlobMatch`, `UvmRegex` and `HdlPollingValue` |
| `UvmCmdline` | the walk over the arguments, and the constructor that asks for them |
| `MC...` | the constants of the model-checking instances |

`SpiDriver` and `SpiMonitor` EXTEND `SpiConfig`, which EXTENDS `SpiAgentIf`.
`SpiBus` EXTENDS `SpiSlave`, `SpiDriver` and `SpiMonitor` and INSTANCEs `RegMap`
under the refinement mapping `Registers`. `StimTest` EXTENDS `FileGenerator`,
which EXTENDS `ItemPort`; it takes the SPI side as `RegMap` describes it.
`HdlPolling` INSTANCEs `ChangeService`, with the records on the list as what is
owed. `HdlXcelium`, `HdlQuesta` and `HdlVcs` EXTEND `HdlSignal`; `HdlBackdoor`
INSTANCEs them nine times, for the builds and the languages of the signal, and
INSTANCEs `HdlAccess` as what each of them promises: one requirement, nine
implementations. `UvmLruCache` INSTANCEs `RecencyCache` and is EXTENDed by
`UvmRegexMatch`. `UvmGlobMatch`, `UvmRegex` and `HdlPollingValue` share the state of
`DpiCall`, the one call in progress, and `DpiFunctions` puts them together;
`Globs` is the reference of the first two.

**How the code is read.** A simulator process runs without interruption until
it waits. An action is therefore the code from one wait to the next: a delay, an
edge control, a `wait`, a FIFO `get`, a grant. A nonblocking assignment takes
effect in the time step it is made in, before any process that waits for the
signal runs; the models make it together with the step. `PROJECT.json` "map"
names the lines of every definition. A C function called through DPI or by the
simulator runs to its end: in the backdoor modules each call is one action, in
`HdlPolling` an action ends where a callback or user code can come in.
`UvmGlobMatch` and `UvmCmdline` have an action for each turn of a loop, to see
that the loops end.

**Time in `SpiBus`** is counted in clk edges. A delay of the driver is the number
of edges that fall in it, taken from a set when the delay is not a multiple of
the clock period and its phase matters. `Tick` is one posedge, and needs that no
process has anything to do in the current time step. Driver pins never change in
the time step of a clk edge: clk has period 5 ns and its edges at half
nanoseconds, delays and pauses are whole nanoseconds.

**Values** are two-state. `gpio_in` has no initial value in `tb_gpio_if.sv`, so it
is X until it is set; `bit` fields and the monitor's `byte` hold an X as 0, which
is how the models start. Transactions are objects shared by handle in the source
and values in the models: the driver copies the bytes before it drives them, and
nobody reads the object behind the monitor's write.

**Text.** A line is its tokens; a comment, of which the code looks at the first three
characters, is one whose first token is `###`. `atoi` and `atohex` are CONSTANTS: whether `atohex`
reads `0xA5` as 165 or stops at the `x` is the simulator's business, and
`MCStimTest` takes the first, as the stimuli files do. A last line without a
newline, or an empty read at the end of the file, adds nothing to a file.

**External** is what the models take from outside the repository. A signal is a
reg: it keeps what is put into it, and a deposit into a forced bit has no effect.
Xcelium's VPI does not see the bits of a VHDL object. `vpi_put_value` with
`vpiReleaseFlag` answers the value (VPI says so; the plain VCS build relies on it).
Questa's FLI ignores a null signal; a string of digits that is too short is
filled with zeros. `regcomp` and `regexec` do what POSIX says of the few
constructs that `uvm_regex.cc` produces. A null reference in SystemVerilog ends the
simulation, and what nothing refers to is no longer there.

## Runs

| run | instance | states | shows |
|---|---|---|---|
| `slave_frames` | W = 2, any pins, any reset | 763 k | the slave decodes what it sampled, is one clk edge behind its pins, writes, and answers |
| `bus_small` | W = 2, all addresses, 2 items, three configurations, weak fairness | 376 k | no edge lost, the monitor follows, `RegMap` implemented, every item judged |
| `bus_full` | W = 8, 4/8/20/20 clk: `stim_test`'s own configuration | 90 k | no edge lost, `RegMap` implemented at full width |
| `stim_files` | files of up to 4 lines from 13, weak fairness | 210 k | outcome as the file reads; inputs still under a frame; the test ends |
| `polling` | 3 probes, restarts when nothing is owed | 1.9 k | the list agrees with its records and is on its way; `ChangeService` implemented, liveness included |
| `backdoor` | nine builds; 3 bits in chunks of 2, or in one | 27 k | `HdlAccess` implemented; 1 is answered for what is there, to the last bit |
| `cache` | 3 keys, 5 nodes, 4 handles; two kinds of callers | 3.7 k | list intact, no null reference, `RecencyCache` implemented; same answers as without the cache, one free per handle |
| `dpi_functions` | every pattern, glob, string and signal up to the bounds | 193 k | each function returns, with what its reference says |
| `cmdline` | argument files two deep, two processors | 44 k | every argument is known, in order; the constructor returns |

Three runs end in a violation. They compare the code with what its own text says:

| run | finding |
|---|---|
| `bus_mode1` | in mode 1 (and 2) the monitor starts a fourth byte and is still in it when CS goes high |
| `stim_blank` | a blank line behind a PAUSE repeats the PAUSE instead of being reported |
| `lru_oldest` | using the last key leaves `m_end` on it; the cache then drops the newest |

**Bounds, and why they are enough.**

* `W`: bits of a byte. With 2, every position of the bit counter that the code
  tells apart (first, middle in the shift, last) exists, four addresses cover the
  two read-only ones, `gpio_out` and one plain register, and `byte_cnt` still has
  its two bits. `bus_full` uses 8; the proofs are for every `W`.
* `Inputs`, `OneRegister`, `CsMovesAlone` (`slave_frames` only): one level of
  `gpio_in`, at most one register other than 0, and no move of CS in the clk period
  in which another pin moves. They bound the state space; the proofs need none of
  them.
* `MaxItems` = 2 SPI lines: the second one finds the counters, `rw`, `addr`,
  `shift_out`, the FIFO and the monitor as the first left them. More items only
  repeat that.
* `Configs` of `bus_small`: every delay of one clk, the least in which the slave
  sees an edge; delays of one or two clk, whose phase against clk is free; and
  mode 3, where MISO has only half a period to change in, so that the half period
  must be two clk. `bus_full` has `stim_test`'s 4, 8 and 20.
* `MaxLines` = 4: a pause, and three lines that write, read and move inputs in any
  order, or meet a comment, a short line, a bad pause, an unknown command or an
  unknown signal. SPI lines come behind a pause, as in every stimuli file:
  without one the stimulus would race the reset pulse, which is not modelled.
* `Hook`: three records, for a list with a first, a middle and a last one, and
  user code that acts on a record other than the one it is told of. `Restarts`
  is "calm": a restart with a change on the list is a divergence (below).
  `EarlyChange` is FALSE: a change before the loop has been started finds no
  notifier, which is fatal, or behind a restart one that has been released.
  `CallbackWrites` is FALSE: told code that writes signals each time it is told
  keeps an older change waiting for ever, for the newest is told first. The
  theorems cover these settings where a property survives them.
* `Size` = 3 with `ChunkWidth` = 2: a value of two chunks, the second not full; 32
  bits of the code's chunk add bits that are treated alike. `MaxWidth` = 4 leaves a
  bit above the object. VHDL objects are in one chunk, but for strings of digits.
  Paths: the whole, a bit, a bit that is not there, slices upwards and downwards,
  of one bit, partly and wholly beyond the object, a name that is not there.
* Calls left out of `backdoor`, each because of a divergence (below): release_and_read of slices
  (Xcelium, Questa), VHDL of several chunks, forces of parts and deposits of bits
  of VHDL signals (Questa), release_and_read in the mixed builds, VHDL values
  with a 1 above the path, bits deposited and several chunks (VCS). `Straight` in
  `HdlBackdoor` says which calls are left; TLC checks it of the calls of the run,
  and the proofs take any calls it admits. Calls
  follow one another with the design in between; the answer of a call is forgotten
  before the next, while the signal and Questa's static flag stay.
* `Keys` = 3 and `Nodes` = 5 of the cache: first, middle, last, and two nodes for
  keys that come back. `MaxSizes` = {0, 1} bounds the cache when it is trimmed.
  `Callers`: one that uses the last of several keys, and one that evicts; a caller
  that does both is the finding of `lru_oldest`. `Deglobs` has one value, because
  of a divergence.
* `MaxPattern` = `MaxString` = 4: two stars with a character around or between
  them, and strings that make the matcher go back more than once.
* `MaxGlob` = 4 with `MaxLengths` = {8, 17} for 2048: the longest expansion
  fits into 17 exactly, 8 is passed in the middle of an expansion.
* `MaxSize` = 5 with `ChunkWidth` = 2 and `MaxChunk` = 3: sizes that are a multiple
  of the chunk and such that are not, and a chunk beyond the signal.
* `CommandLines`: up to three words, lists in lists two deep, empty lists, and
  `MaxConstructed` = 2 for the static variables of the C side.

**Fairness.** `bus_small` assumes that the driver, the monitor and time do not stop
while they can go on (WF of `Drive`, `Monitor` and `Tick`), `stim_files` that the
simulator does not stop while the test can go on (WF of `Next`). Both are what
an event-driven simulator does: it runs every process that can run and then
advances time. Nothing is assumed of the stimulus in `bus_small`. `polling` assumes
WF of `Serve`: the loop runs when the notifier has changed, and told code returns.
It assumes nothing of signals, user calls or restarts. `dpi_functions` (WF of
`MatchStep`) and `cmdline` (WF of `Construct`) assume that a function that was
called runs on. `CHECK_DEADLOCK FALSE` stands where the system really may stop: the
test ends (`StimTest`); the simulation is over (`HdlPolling`), or a call has ended it
(backdoor access, cache); the function has returned (`DpiFunctions`); every
processor that will be made has been made (`UvmCmdline`).

## Divergences

Places where the code does something other than a comment of the repository
says, found while it was modelled; the first three are runs of their own. The passing
runs leave out the calls that break a property because of one, and "Bounds" names
them; a divergence that breaks none stays in. So does the unknown command:
`stim_files` has such a line, and what the file means (`SequentialOutcome`) gives it no
effect, as the code does.

| where | what the text says | what the code does |
|---|---|---|
| `tb_spi_monitor.sv:70` | bytes are received while CS is low (`:62-63`) | `bus_mode1`: a fourth byte is begun in modes 1 and 2 and is still waiting when CS goes high |
| `tb_generators.sv:91` | a line with fewer than three tokens is reported (`:100-102`) | `stim_blank`: a blank line behind a PAUSE is a PAUSE |
| `uvm_lru_cache.svh:162` | the least recently used keys are evicted (`:122-123`) | `lru_oldest`: after the last key was used, the most recently used one is |
| `tb_spi_monitor.sv:44` | MISO is sampled on the rising edge | in modes 0 and 2 on the falling one, and must: MISO is registered |
| `tb_generators.sv:148` | `GPIO_IN_0 GET 0 ...` (`test_2_stimuli.txt:2`) is a check | a command that is not known is dropped without a word |
| `uvm_hdl_polling.c:287` | no notification is missed (`:453-455`) | a restart keeps list and notifier: with a change on the list, no later one is told |
| `uvm_hdl_polling.c:592` | a chunk beyond the end is an error (`:96-98`) | the last chunk is answered, with 1 |
| `uvm_hdl_xcelium.c:498`, `uvm_hdl_questa.c:130`, `uvm_hdl_vcs.c:550` | a read gets the value (`uvm_hdl.svh:139`) | a VHDL vector of several chunks is read with its chunks in the wrong order |
| `uvm_hdl_xcelium.c:649` | release_and_read answers the value (`uvm_hdl.svh:119-120`) | for a slice it answers 0, behind the release |
| `uvm_hdl_xcelium.c:60` | "Just return instead" of exiting (`:378`) | for a name that is not found the language is not assigned: the call may end the simulation |
| `uvm_hdl_questa.c:706` | a read clears the value first (`:782-789`) | behind a slice with a bit that is not there, no later read does |
| `uvm_hdl_questa.c:937` | release_and_read answers the value | for a slice, that of its last bit |
| `uvm_hdl_questa.c:549` | a force holds (`uvm_hdl.svh:90`) | a slice of a VHDL signal is deposited |
| `uvm_hdl_questa.c:558` | a deposit sets the path (`uvm_hdl.svh:82`) | one bit of a VHDL signal gets the bit of the value at its index |
| `uvm_hdl_vcs.c:1339` | release_and_read answers the value | the mixed builds do not write it |
| `uvm_hdl_vcs.c:774` | a read gets the value | a VHDL value is shifted into what the chunk held |
| `uvm_hdl_vcs.c:689` | a deposit sets the path to the value | a VHDL value with a 1 above the object's bits is cut at its low end |
| `uvm_lru_cache.svh:209` | `put` evicts when the cache is full (`:102-104`) | it never does |
| `uvm_lru_cache.svh:267` | `get` returns the data (`:110-111`) | with `m_end` on the wrong node, it or an eviction may follow a null reference |
| `uvm_regex.svh:56` | the cache only makes matching faster (`:47-48`) | its key has no `deglob`: a text used both ways is answered for the other |
| `uvm_regex.svh:107` | glob style matching (`:96-97`) | without DPI the empty pattern matches every string |
| `uvm_cmdline_processor.svh:356` | the arguments of the simulation (`:123-124`) | an empty argument ends the list |

## Fault variants

Definitions named `Fault_...` are variants of the definition behind them with a
bug that the code could plausibly have: a counter not reset, a register not
protected, a wait left out. No specification uses them. Replacing a definition by
its variant must make the property that `PROJECT.json` "mutants" names fail under
the same run; this shows that the property depends on that piece of code.

| variant | the bug | caught by |
|---|---|---|
| `Fault_Deselected` | `byte_cnt` survives a frame | `Decoded` |
| `Fault_Synchronize` | MOSI through one flop, SCLK and CS through two | `FollowsTheWire` |
| `Fault_full_byte` | a byte is taken without its last bit | `WriteTaken` |
| `Fault_StoreByte` | read-only registers not protected | `OnlyFramesWrite` |
| `Fault_ShiftOut` | `shift_out` not shifted | `ReadAnswered` |
| `Fault_sclk_rise` | a level taken for an edge | `EdgesConserved` (`bus_small`) |
| `Fault_SendItem` | no delay in `init_spi_clock` | `EdgesConserved` (`bus_full`) |
| `Fault_FrameOf` | data sent before the address | `ImplementsRegMap` (`bus_full`) |
| `Fault_TrailingEdge` | one bit too many in `send_byte` | `TypeOK` of `SpiBus` |
| `Fault_AssertCs` | CS is not driven low | `EveryItemScored` |
| `Fault_GetIntent` | the intent stays in the FIFO | `MonitorFollowsDriver` |
| `Fault_Observed` | a read gets the second byte | `ImplementsRegMap` (`bus_small`) |
| `Fault_ItemDone` | the sequence is not told | `TestEnds` |
| `Fault_ItemReturned` | the sequence does not wait | `StableInputs` |
| `Fault_SelectSequence` | the arbitration does not wait for the NBA region | `TypeOK` of `StimTest` |
| `Fault_EndPhase` | the phase ends without waiting | `SequentialOutcome` |
| `Fault_NotifyNewest` | the record keeps its flag when it is told | `ListAgrees` |
| `Fault_RequireNotification` | asks whether the list is empty behind the push | `ListIsServed` |
| `Fault_Restart` | the hooks keep their callbacks | `TypeOK` of `HdlPolling` |
| `Fault_ReturnFromNotify` | one record per wake-up | `KeepsPromise` of `HdlPolling` |
| `Fault_SliceBits` | a slice always upwards (Xcelium) | `TypeOK` of `HdlBackdoor` |
| `Fault_Refuse` | an error is reported and 1 answered (VCS) | `FoundMeansDone` |
| `Fault_Copied` | the words of a chunk swapped (Questa) | `KeepsPromise` of `HdlBackdoor` |
| `Fault_Evicted` | the list does not close behind its last | `ListIntact` |
| `Fault_Added` | `m_end` not set for the first node | `CallsReturn` |
| `Fault_EvictLast` | the maximal size itself is too many | `KeepsRecency` |
| `Fault_EvictAndFree` | keys dropped for their number are not freed | `HandlesOwned` |
| `Fault_Miss` | what was compiled is freed and cached | `SameAnswer` |
| `Fault_Rest` | only one trailing `*` passed over | `MatchesGlob` |
| `Fault_GoBack` | the place to go back to does not move | `Returns` |
| `Fault_Expand` | the `.` of a glob is left as it is | `FindsWhatIsMeant` |
| `Fault_uvm_re_deglobbed` | brackets are not looked for | `ConvertsOnce` |
| `Fault_Counted` | expansions are not counted | `Fits` |
| `Fault_top_mask` | the mask lacks the sign bit | `ValueExtended` |
| `Fault_PassOver` | `idx` is not set back | `KnowsArguments` |
| `Fault_New` | `argc_total` goes on from the last time | `PassesAgree` |
| `Fault_LevelOver` | the end of a file's list is not seen | `ConstructorReturns` |

## Proofs

`SpiSlaveFramesProofs` proves, for every width `W`, every address map with a
writable `gpio_out`, and every sequence of pin levels and resets:

* `DecodedCorrect`: `Spec => []Decoded`;
* `FollowsTheWireCorrect`: `Spec => FollowsTheWire`;
* `WriteTakenCorrect`: `Spec => []WriteTaken`;
* `OnlyFramesWriteCorrect`: `Spec => OnlyFramesWrite`;
* `ReadAnsweredCorrect`: `Spec => []ReadAnswered`.

The assumptions used are `WidthAssumption`, `AddressAssumption` and
`InputsAssumption`; that the registers keep their widths (`TypeCorrect`) is a lemma for the
others. The argument: `window` is the sequence of MOSI bits sampled since the slave was last deselected. `TypeOK /\ Decoded` is
inductive: the window has `byte_cnt * W + bit_cnt` bits, its first bytes are in
`rw` and `addr`, its last `bit_cnt` bits at the low end of `shift_in`. The step that
completes a byte uses the lemma `FullByteDecoded`: `full_byte` is the byte of the
window that the sampled bit completes. `wire` is what an observer of the pins has noted, who
knows nothing of the synchronizer: SCLK, CS and MOSI as they are at each clk edge.
`OneEdgeBehind`, that the first flops hold what he saw last and that the window by
one clk edge more is the wire, is inductive, also across resets, and with `Decoded` at
the other side of the edge gives `FollowsTheWire`. From `Decoded`, `OnlyFramesWrite` is a fact
about a single step, and `WriteTaken` is inductive relative to it: the write happens
in the step that makes `byte_cnt` 3 and nothing overwrites it until the window
changes. `ReadAnswered` is inductive relative to `Decoded`: `shift_out` is the value
read, shifted once per falling edge, and the falling edges since the address was
complete are `bit_cnt + 1 - sclk_d2`, because rising and falling edges alternate. It
is the strengthening that says where the value is while it leaves.

`HdlPollingProofs` proves, for every set of hook records:

* `PollingTypeCorrect` and `ListAgreesAlways`: `Spec => []TypeOK` and
  `Spec => []ListAgrees`, from `CalmRestarts` (restarts come, if at all, when the
  list is empty);
* `ListIsServedAlways`: `Spec => []ListIsServed`, from `CalmRestarts` and
  `CalmStarts` (when signals change before the loop was started, the simulation
  does not restart);
* `ImplementsService`: every behaviour starts and steps as `ChangeService` allows.
  This is the safety half of `KeepsPromise`; its fairness stays with TLC.

The argument: `LIInv`, types with the agreement of the list and the flags in its
records, is inductive, because a record is pushed when its flag is set and told when
it is cleared. `SIInv` adds that whenever the list is not empty the notifier
has changed since the loop last looked, or the loop is behind it: the step that
makes the list non-empty toggles the notifier, and only the loop's own steps
take it back. Without the first assumption `ListAgrees` is false: a restart
with a change on the list is one of the divergences.

`SpiBusProofs` proves, for every `W`, every set of configurations that
`ConfigAssumption` admits, any number of transactions and any interleaving:

* `TypeCorrect`: `Spec => []TypeOK`;
* `EdgesConservedCorrect`: `Spec => []EdgesConserved`, between driver and slave, in all four modes and for any
  `bits_per_word` up to the width;
* `MonitorFollowsDriverCorrect`: `Spec => []MonitorFollowsDriver`: the monitor has the
  driver's transaction and, whenever it waits, the bits the driver has finished; and
  `ReceivesWhileSelectedCorrect`: `Spec => []ReceivesWhileSelected`, both from
  `TrailingSampled`.

`EdgesConserved` is not inductive: a pin that moved must not move again before a clk
edge. `Timing` says so: the pins are in the first flop of the synchronizer when a
delay is over (`Paced`), each place of the driver has its levels (`Levels`), and while a
change of CS is in the synchronizer no change of SCLK is (`Quiet`). `TrailingSampled`
(modes 0 and 3, bytes as wide as the design's) is where the monitor samples at
the last edge of a bit. `stim_test` uses mode 0 and eight bits; in modes 1 and 2
the property is false, which is what `bus_mode1` shows, with the property of the
second theorem: what is a violation there holds in the other two modes. `Following`
relates each place of the monitor to a place of the driver: between two samples
the monitor has as many bits as the driver has made trailing edges, and it has
nothing left to do when a delay of the driver ends (`MonitorPaced`).

Its second part proves `ImplementsRegMapCorrect`: `Spec => ImplementsRegMap`,
the refinement under the mapping `Registers`, from `Served`: mode 0, or mode 3 with
half periods of at least two clk edges, and full bytes. The slave answers a falling
edge two clk edges later, and in mode 3 the monitor samples half a period behind
the falling edge; in mode 0 it samples a whole period behind it. The invariant
`Contents` follows a bit on its way: on MOSI and in the synchronizer when it is
sampled (`Wired`, `Slow`), in `shift_in`, `rw` and `addr` (`Taken`), in `shift_out` and on
MISO (`Answered`), in the monitor's byte (`Heard`). `Kept` says that nothing
overwrites what a frame wrote before the monitor reports it. The frame takes
effect in one step of `RegMap`, the report in another, every other step stutters.

`StimTestProofs` proves, for every set of lines, every file of them, every address
map and all readings of numbers:

* `TypeCorrect`: `Spec => []TypeOK`;
* `StableInputsCorrect`: `Spec => StableInputs`;
* `SequentialOutcomeCorrect`: `Spec => []SequentialOutcome`, from `OwnLines`.

The invariant is that of the handshake: one item at a time, in one of five stages
(`Stage`), on the sequencer it was started on, while the other sequencer is idle; a
monitor owes at most one verdict, and none once the next item is granted
(`Monitors`). `Following` then says that memory, pins, reports and verdicts, those
owed included, are what the lines driven so far mean. `OwnLines` are lines with
every token their command looks at, as all lines of `stimuli_files` are; behind
another line, a shorter one takes over tokens, which is the finding of
`stim_blank`. What a file means is a fold over its lines, a recursive function.
The library's induction theorems cannot be used, so `SetInduction` proves induction
for a *set* of numbers from the well-founded order of the naturals, and a
recursive function is unfolded with it.

`UvmRegexMatchProofs` proves, for every finite set of keys, nodes and handles, and
all maximal sizes:

* `CallsReturnCorrect`: `Spec => []CallsReturn`;
* `ListIntactCorrect`: `Spec => []ListIntact`;
* `HandlesOwnedCorrect`: `Spec => []HandlesOwned`;
* `KeepsRecencyCorrect`: `Spec => KeepsRecency`, the refinement of `RecencyCache`;
* `SameAnswerCorrect`: `Spec => []SameAnswer`, from `OneDeglob` as well.

All from `TrustedCallers`: no caller both uses the last of several keys and has
keys evicted. It is the assumption of the run `cache`, and `lru_oldest` shows what
happens without it: using the last key leaves `m_end` behind, and an eviction that
trusts it drops the newest key. A caller that only uses keys needs no more. `OneDeglob`,
one value of `deglob`, is the divergence of `uvm_regex.svh:56`. `CacheAssumption` and
`RegexAssumption` give keys, nodes and handles numbers, for `flush` takes keys in their order
and memory is handed out in some order; and more nodes than keys, more handles
than keys, for `new` and `malloc` do not fail in the model. The invariant is that a
sequence of distinct nodes *exists* which the hash, `m_begin`, `prev` and `next`
describe alike (`Lists`), with `m_end` its last node unless the caller uses last keys
(`EndAt`). Each operation maps the sequence to another: `ToFront`, `Dropped`,
`Prepended`; these are also the operations of `RecencyCache`, and collecting nodes that
nothing refers to changes nothing of the list. The loops of `evict_to_max` and
`flush` are recursive functions, unfolded by `SetInduction`: each turn drops one key, so
they end with as many as they should. `Owned` adds what each handle was compiled from.

`HdlBackdoorProofs` proves, for every size of the signal, every width of a chunk and
every set of calls, in each of the nine builds:

* `TypeCorrect`: `Spec => []TypeOK`;
* `FoundMeansDoneCorrect`: `Spec => []FoundMeansDone`;
* `KeepsPromiseCorrect`: `Spec => KeepsPromise`, the refinement of `HdlAccess`.

Besides `SizesAssumption` and `CallsAssumption` they rest on two more.
`WidthsAssumption`: the signal fits into a `uvm_hdl_data_t`; wider ones the code
refuses. `StraightAssumption`: the calls of each build are `Straight`, that is, none
of those where `uvm_hdl.svh` and the code disagree. In Verilog it leaves out nothing
but the release_and_read of a slice in Xcelium and Questa: every other path, whether
it is there or not, and every value is allowed, and everything in VCS. In VHDL it
leaves out slices in Xcelium (the code looks for their bits through VPI); in Questa
forces of a part, deposits of a single bit, an X in a slice, and paths of which a
part is not there; in the mixed and fast builds of VCS release_and_read, and values
with an X, or with anything but 0 above the path. The X is what the strings of two
digits cannot carry; the others are in the table of divergences. Each kind has
calls that break the promise. The VHDL objects of Xcelium, Questa and the fast build
of VCS are in one chunk, by the way `HdlBackdoor` instantiates those modules (the
order of several chunks is a divergence as well); the strings of the mixed build may
have any number of chunks.

The argument goes call by call, for a call is one action. The bits of a path are
counted from 0 without a gap and lead to different places (`Counted`), so what a
loop over bits, chunks or digits puts is a function of the places (`Written`).
`Tried` says of it that it is all of the path, if 1 is answered, and else a part of
it; `Held`, that an answer has what the signal has; `Served` puts them together,
operation by operation. One lemma per build (`XceliumVlogServes` to `VcsFastServes`)
shows that every straight call is served. `StepFacts` collects the nine, and
`ServedPromise` maps a call that is served to a step of `HdlAccess`. `TypeOK` and
`FoundMeansDone`, with `Tries` (the build is one of those that are tried), are
inductive.

`DpiFunctionsProofs` proves, for texts of every length and signals of every width:

* `MatchesGlobCorrect`: `Spec => []MatchesGlob`, from `NoPlus`;
* `ConvertsOnceCorrect`: `Spec => []ConvertsOnce`;
* `FitsCorrect`: `Spec => []Fits`, for every limit from 4 on;
* `FindsMeantCorrect`: `Spec => []FindsWhatIsMeant`, from `NoEscapes`;
* `ValueExtendedCorrect`: `Spec => []ValueExtended`, for every size and `ChunkWidth`.

`NoPlus` keeps `+` out of the patterns, which the Verilog only match takes for itself
and the conversion for a metacharacter. `NoEscapes` keeps `\` out of the globs, where it
is a character like others: the conversion passes it on, and in the expression it escapes
what follows. `StringsAssumption` says that strings are finite. `LengthsAssumption` keeps 0 out of the
texts, for it is what `getc` answers behind them, and `RegexLengths` leaves room for the
expression of the empty glob. The match goes back to its last `*` only, and the proof
says why that is enough. `Ends(p, t)[i]` are the places of the string where the first `i`
characters of the pattern may end. Before the first `*` there is one (`AtOnlyWay`). Behind a
`*` an `Attempt` is on, and every attempt that started earlier is `Dead`: it meets
another character, or the end of one of the texts, before the next `*`. So at the next
`*` the place reached is the least one (`FirstAtStar`), behind it every later place is
reached (`BehindStar`), and nothing of the `*` before is needed any more; when
the string is over, so are all attempts that would have ended earlier (`DeadAtEnd`). In
the conversion, the length of the text is the number of characters and that of
metacharacters (`ExpandedLength`), of which the code counts the second twice; the anchors
and brackets are counted when they are written (`AnchoredLength`), and brackets come off as
they were put on (`BracketsComeOff`). What the expression finds is shown character by
character: the expression is `^`, the expansions one behind the other, and `$` (`Laid`,
`AnchoredLaid`), and the item of each expansion takes what its character means, as often
(`ItemFacts`, `ItemSpans`). `Finds` reaches places from the back of the expression, `Ends`
from the front of the glob; that the two meet between two characters holds for all of them
or for none (`LaidFinds`), so what is found behind the `^` is what the glob ends with before
the `$`. For the value, `weight[i]` is the number whose
only bit is `i` (`BitsOfWeight`), and `weight[i] - 1` has the bits below (`BitsBelowWeight`):
`top_mask` are the bits up to the sign (`MaskBits`), also where 2U * `top_msb` is 2^32 and
overflows to 0. `ChunkExtends` then compares the chunk bit by bit with the signal.

**Only model-checked.** The command line (`KnowsArguments`, `PassesAgree`: `UvmCmdline`
walks with a RECURSIVE operator, which keeps theorems out of it), and all liveness:
`EveryItemScored`, `TestEnds`, `Returns`, `ConstructorReturns`, the fairness of
`KeepsPromise` in `polling`. Liveness under fairness and ENABLED are beyond the prover.
Induction over data is within reach only where it can be said of a set, as above.

## Not modelled

X before the first reset and the race of an early stimulus with the reset pulse;
`bits_per_word` other than the width in the runs (the driver takes it, the monitor
and the slave count to eight); a SET of `gpio_out`; several sequences on a
sequencer, locks, priorities, responses; the objection tree and phase schedule
behind the one objection the test uses; configuration database, factory,
reporting, recording, policies, register layer and TLM 2 of UVM (the testbench
uses them, if at all, to build itself); `tb_utils` other than clock and reset; the
simulator scripts.

Of the C side: the bodies of `uvm_common.c` and `uvm_dpi.h`, which report and declare;
`uvm_hdl.c` and `uvm_dpi.cc`, which include the others; `uvm_memory_load` and the
lifetime of handles in VCS, which have no effect on a value; text buffers other
than the one of `uvm_regex.cc`; a probe's user-defined backdoor. Of the
SystemVerilog behind it: the queries of the command line processor, and what a
simulator's save and restore does to the cache of expressions.

## Plan

In the order of importance:

1. Reset and clock as `tb_top` runs them, with the driver facing the pulse: what a
   stimulus before, across and behind it does.
2. The sequencer with several sequences: `m_choose_next_request` in its arbitration
   modes, lock and grab, `remove_sequence_from_queues`; `ItemPort` shown to be its
   special case with one sequence.
3. Objections: raise, drop, propagation, drain and the phase hopper that waits for
   them; `EndPhase` shown to be what they come to.
4. The SPI side of `StimTest` tied to `RegMap` by a refinement mapping instead of by
   reading.
5. `BPW < W`, transactions as handles, `wait_for_cond`.
