------------------------------- MODULE RegMap -------------------------------
(***************************************************************************)
(* What the SPI side of the testbench promises, without pins, clocks or    *)
(* processes: transactions submitted by the stimulus take effect one after *)
(* the other on a register file, and each is reported to the scoreboard,   *)
(* once and in order, a read with the value its register had while the     *)
(* transaction was the one in progress.                                    *)
(***************************************************************************)
EXTENDS Naturals, Sequences

CONSTANTS
  Byte,
  Request,                  \* the transactions the stimulus may submit
  IdAddr, InAddr, IdValue   \* the identification and the input register

VARIABLES
  mem,       \* the register file
  pins,      \* the general-purpose inputs
  queue,     \* transactions submitted and not reported yet
  result,    \* <<>>, or <<b>>: what the bus returned for Head(queue)
  report,    \* the transaction reported last, with its verdict
  errors     \* mismatches reported

vars == <<mem, pins, queue, result, report, errors>>

Value(a) == IF a = IdAddr THEN IdValue ELSE IF a = InAddr THEN pins ELSE mem[a]

Writes(tr)   == tr.is_write = 1 /\ tr.addr \notin {IdAddr, InAddr}
InEffect(tr) == Writes(tr) => mem[tr.addr] = tr.data

Judge(tr) == CASE tr.is_write = 1                 -> "write"
               [] tr.is_write = 0 /\ tr.compare_data = 0 -> "no compare"
               [] OTHER -> IF tr.data = tr.expected_data THEN "ok" ELSE "mismatch"

Init ==
  /\ mem \in [Byte -> Byte] /\ pins \in Byte
  /\ queue = <<>> /\ result = <<>>
  /\ report.verdict = "none" /\ errors = 0

\* At most one transaction is submitted while another is being reported.
Submit ==
  /\ queue = <<>> \/ (Len(queue) = 1 /\ result # <<>>)
  /\ \E tr \in Request : queue' = Append(queue, tr)
  /\ UNCHANGED <<mem, pins, result, report, errors>>

Perform ==
  /\ queue # <<>>
  /\ Writes(Head(queue))
  /\ mem' = [mem EXCEPT ![Head(queue).addr] = Head(queue).data]
  /\ UNCHANGED <<pins, queue, result, report, errors>>

Complete ==
  /\ queue # <<>> /\ result = <<>>
  /\ \E b \in Byte :
        /\ Head(queue).is_write = 0 => b = Value(Head(queue).addr)
        /\ result' = <<b>>
  /\ UNCHANGED <<mem, pins, queue, report, errors>>

Report ==
  /\ result # <<>> /\ InEffect(Head(queue))
  /\ LET tr == IF Head(queue).is_write = 1 THEN Head(queue)
               ELSE [Head(queue) EXCEPT !.data = result[1]]
     IN  /\ report' = [tr |-> tr, verdict |-> Judge(tr)]
         /\ errors' = IF Judge(tr) = "mismatch" THEN errors + 1 ELSE errors
  /\ queue' = Tail(queue)
  /\ result' = <<>>
  /\ UNCHANGED <<mem, pins>>

\* The inputs move between transactions only.
SetPins ==
  /\ queue = <<>> \/ (Len(queue) = 1 /\ result # <<>>)
  /\ pins' \in Byte
  /\ UNCHANGED <<mem, queue, result, report, errors>>

Next == Submit \/ Perform \/ Complete \/ Report \/ SetPins
Spec == Init /\ [][Next]_vars

=============================================================================
