-------------------------- MODULE MCSpiSlaveFrames --------------------------
(* SpiSlaveFrames on small instances: addresses are given as numbers.      *)
EXTENDS SpiSlaveFrames

ToByte(n) == [j \in 1..W |-> (n \div 2^(W - j)) % 2]

AddrId      == ToByte(0)
AddrGpioIn  == ToByte(1)
AddrGpioOut == ToByte(2)
IdHex       == ToByte(165)
OneInput    == {ToByte(2)}

\* Bound: a run leaves at most one register other than 0.
OneRegister == \A a, b \in Byte : regfile[a] # Zero /\ regfile[b] # Zero => a = b

\* Bound: CS does not move in the clk period in which SCLK or MOSI moves.
CsMovesAlone == cs' # cs => sclk' = sclk /\ mosi' = mosi
=============================================================================
