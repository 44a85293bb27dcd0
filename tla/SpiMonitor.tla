----------------------------- MODULE SpiMonitor -----------------------------
(***************************************************************************)
(* spi_monitor.run_phase (tb_monitors.sv) over the low-level monitor's     *)
(* receive_transaction and receive_byte (tb_spi_monitor.sv), and the       *)
(* scoreboard its analysis port calls (tb_scoreboards.sv).                 *)
(*                                                                         *)
(* The process suspends in four places, the values of `mon': in            *)
(* intent_fifo.get ("intent"), in wait(cs == 0) ("cs"), in @(edge sclk)    *)
(* inside receive_byte ("byte") and in the wait after a byte ("between").  *)
(* It has no delays: it runs in the time step that wakes it up.  An edge   *)
(* control sees changes, not levels: sclk_seen is the level of sclk that   *)
(* the process, blocked in "byte", saw last.                               *)
(***************************************************************************)
EXTENDS SpiConfig

VARIABLES
  mon, sclk_seen,
  mon_tr,               \* the transaction taken from the intent FIFO
  received_byte, rx_i,  \* receive_byte: the byte and the bit it waits for
  received_data,        \* receive_transaction: the bytes of this CS window
  scored, uvm_errors    \* scoreboard: what it was last told, its error count

monitorVars == <<mon, sclk_seen, mon_tr, received_byte, rx_i, received_data>>
scoreVars   == <<scored, uvm_errors>>

-----------------------------------------------------------------------------
\* Modes 0 and 2 sample at negedge sclk, modes 1 and 3 at posedge sclk.
SampleLevel == IF MODE \in {0, 2} THEN 0 ELSE 1

ByteOver == sclk # SampleLevel \/ cs = 1

\* The wake-up condition of the process.
MonitorDue == \/ mon = "intent"  /\ intent_fifo # <<>>
              \/ mon = "cs"      /\ cs = 0
              \/ mon = "byte"    /\ sclk # sclk_seen
              \/ mon = "between" /\ ByteOver

EnterReceiveByte ==
  /\ mon' = "byte"
  /\ received_byte' = Zero /\ rx_i' = 1
  /\ sclk_seen' = sclk

-----------------------------------------------------------------------------
(* Definitions named Fault_... are variants with a plausible bug: nothing  *)
(* uses them but the tests of the properties (README, "Fault variants").   *)

\* The intent is looked at and stays in the FIFO.
Fault_GetIntent ==
  /\ mon = "intent" /\ intent_fifo # <<>>
  /\ mon_tr' = Head(intent_fifo)
  /\ received_data' = <<>>
  /\ mon' = "cs"
  /\ UNCHANGED <<sclk_seen, received_byte, rx_i, intent_fifo, scoreVars>>

GetIntent ==
  /\ mon = "intent" /\ intent_fifo # <<>>
  /\ mon_tr' = Head(intent_fifo)
  /\ intent_fifo' = Tail(intent_fifo)
  /\ received_data' = <<>>
  /\ mon' = "cs"
  /\ UNCHANGED <<sclk_seen, received_byte, rx_i, scoreVars>>

SeeSelect ==
  /\ mon = "cs" /\ cs = 0
  /\ EnterReceiveByte
  /\ UNCHANGED <<mon_tr, received_data, intent_fifo, scoreVars>>

\* An edge of the other direction does not end the wait.
IgnoreEdge ==
  /\ mon = "byte" /\ sclk # sclk_seen /\ sclk # SampleLevel
  /\ sclk_seen' = sclk
  /\ UNCHANGED <<mon, mon_tr, received_byte, rx_i, received_data, intent_fifo, scoreVars>>

SampleMiso ==
  /\ mon = "byte" /\ sclk # sclk_seen /\ sclk = SampleLevel
  /\ sclk_seen' = sclk
  /\ received_byte' = [received_byte EXCEPT ![rx_i] = miso]
  /\ \/ /\ rx_i < W
        /\ rx_i' = rx_i + 1
        /\ UNCHANGED <<mon, received_data>>
     \/ /\ rx_i = W
        /\ received_data' = Append(received_data, received_byte')
        /\ mon' = "between"
        /\ UNCHANGED rx_i
  /\ UNCHANGED <<mon_tr, intent_fifo, scoreVars>>

ContinueFrame ==
  /\ mon = "between" /\ ByteOver /\ cs = 0
  /\ EnterReceiveByte
  /\ UNCHANGED <<mon_tr, received_data, intent_fifo, scoreVars>>

\* spi_scoreboard.write
Verdict(tr) == IF tr.is_write = 1 THEN "write"
               ELSE IF tr.compare_data = 0 THEN "no compare"
               ELSE IF tr.data = tr.expected_data THEN "ok" ELSE "mismatch"

\* The address byte is taken for the data of a read.
Fault_Observed(tr, bytes) == IF tr.is_write = 0 /\ Len(bytes) >= 3
                             THEN [tr EXCEPT !.data = bytes[2]] ELSE tr

\* The transaction as the monitor publishes it: a read gets its third byte.
Observed(tr, bytes) == IF tr.is_write = 0 /\ Len(bytes) >= 3
                       THEN [tr EXCEPT !.data = bytes[3]] ELSE tr

(* CS is high: receive_transaction returns, the transaction is completed   *)
(* and written through the analysis port to the scoreboard.                *)
Publish ==
  /\ mon = "between" /\ cs = 1
  /\ LET tr == Observed(mon_tr, received_data)
     IN  /\ mon_tr' = tr
         /\ scored' = [tr |-> tr, verdict |-> Verdict(tr)]
         /\ uvm_errors' = uvm_errors + (IF Verdict(tr) = "mismatch" THEN 1 ELSE 0)
  /\ mon' = "intent"
  /\ UNCHANGED <<sclk_seen, received_byte, rx_i, received_data, intent_fifo>>

MonitorStep ==
  GetIntent \/ SeeSelect \/ IgnoreEdge \/ SampleMiso \/ ContinueFrame \/ Publish

NoTransaction == [transaction_id |-> 0, is_write |-> 0, addr |-> Zero, data |-> Zero,
                  compare_data |-> 0, expected_data |-> Zero]

MonitorInit ==
  /\ mon = "intent" /\ sclk_seen = 0
  /\ mon_tr = NoTransaction
  /\ received_byte = Zero /\ rx_i = 1 /\ received_data = <<>>
  /\ scored = [tr |-> NoTransaction, verdict |-> "none"] /\ uvm_errors = 0
  /\ intent_fifo = <<>>

\* What the scoreboard may have been told last.
Judged == [tr : Transaction,
           verdict : {"none", "write", "no compare", "ok", "mismatch"}]

MonitorTypeOK ==
  /\ mon \in {"intent", "cs", "byte", "between"}
  /\ sclk_seen \in Bit
  /\ mon_tr \in Transaction
  /\ received_byte \in Byte /\ rx_i \in 1..W
  /\ received_data \in Seq(Byte)
  /\ intent_fifo \in Seq(Transaction)
  /\ scored \in Judged
  /\ uvm_errors \in Nat

=============================================================================
