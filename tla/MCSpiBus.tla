------------------------------ MODULE MCSpiBus ------------------------------
(***************************************************************************)
(* SpiBus on small instances: addresses and data are given as numbers, a   *)
(* configuration by its mode and the clk edges of its delays.              *)
(***************************************************************************)
EXTENDS SpiBus

Config(mode, half, others) ==
  [spi_mode |-> mode, bits_per_word |-> W, half_period |-> half,
   clk_period |-> others, clk_inactive_period |-> others, cs_inactive_period |-> others]

Tight  == Config(0, {1}, {1})          \* the shortest delays the slave can follow
Jitter == Config(0, {1, 2}, {1, 2})    \* whose phase matters
Mode3  == Config(3, {2, 3}, {1, 2})    \* MISO has half a period to change in
Mode1  == Config(1, {1}, {1})

\* stim_test's: 40 ns, 100 ns and 100 ns with a clk of 5 ns.
StimTestConfig ==
  [spi_mode |-> 0, bits_per_word |-> W, half_period |-> {4}, clk_period |-> {8},
   clk_inactive_period |-> {20}, cs_inactive_period |-> {20}]

SmallConfigs == {Tight, Jitter, Mode3}
OnlyMode1    == {Mode1}
OnlyStimTest == {StimTestConfig}

\* The byte whose value is n.
ToByte(n) == [j \in 1..W |-> (n \div 2^(W - j)) % 2]

AddrId      == ToByte(0)
AddrGpioIn  == ToByte(1)
AddrGpioOut == ToByte(2)
IdHex       == ToByte(165)     \* 8'hA5, cut to W bits

AllBytes    == Byte
OutputOnly  == {AddrGpioOut}
RegisterMap == {AddrId, AddrGpioIn, AddrGpioOut}
OneData     == {ToByte(2)}
=============================================================================
