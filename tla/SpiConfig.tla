----------------------------- MODULE SpiConfig ------------------------------
(***************************************************************************)
(* The configuration object of the SPI agent (spi_cfg, tb_cfg_pkg.sv): the *)
(* test makes one when it is built, and driver and monitor read it.  Its   *)
(* delays are counted in clk edges.  One that is not a multiple of the     *)
(* clock period covers one edge more or less depending on its phase; hence *)
(* a set of counts for each of them.                                       *)
(***************************************************************************)
EXTENDS SpiAgentIf

CONSTANT Configs   \* the configurations a test may make

VARIABLE spi_cfg

Ticks == SUBSET (Nat \ {0})

\* configure() accepts what is positive; the slave needs a clk edge per delay.
ASSUME ConfigAssumption ==
  \A c \in Configs :
    /\ c.spi_mode \in 0..3 /\ c.bits_per_word \in 1..W
    /\ \A S \in {c.clk_period, c.half_period, c.clk_inactive_period, c.cs_inactive_period} :
         S \in Ticks \ {{}}

ConfigInit == spi_cfg \in Configs

MODE == spi_cfg.spi_mode
BPW  == spi_cfg.bits_per_word

PeriodTicks == spi_cfg.clk_period
HalfTicks   == spi_cfg.half_period
GapTicks    == spi_cfg.clk_inactive_period
CsTicks     == spi_cfg.cs_inactive_period

=============================================================================
