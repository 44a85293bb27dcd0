------------------------------ MODULE ItemPort ------------------------------
(***************************************************************************)
(* The pull handshake between a sequence and a driver, as uvm_sequencer    *)
(* runs it when one sequence at a time uses it, which is how the testbench *)
(* does: fstim_generator is its only sequence, and it has two sequencers.  *)
(*                                                                         *)
(*    sequence                     driver                                  *)
(*    start_item  (StartItem)      get_next_item                           *)
(*       wait_for_grant      <---     select the sequence  (Grant)         *)
(*    finish_item (SendRequest) -->   m_req_fifo.peek      (TakeItem)      *)
(*       wait_for_item_done  <---  item_done               (ItemDone)      *)
(***************************************************************************)
EXTENDS Naturals, Sequences

Sequencers == {"spi", "gpio"}

VARIABLES
  arb_queue,    \* per sequencer: is start_item waiting for a grant?
  arb_done,     \* per sequencer: was it granted?
  m_req_fifo,   \* per sequencer: the item sent and not done yet
  item_done,    \* per sequencer: has it named the sequence that waits for its item?
  driver        \* per sequencer: where its driver is: "select", "peek", "busy"

portVars == <<arb_queue, arb_done, m_req_fifo, item_done, driver>>

StartItem(s) ==
  /\ arb_queue' = [arb_queue EXCEPT ![s] = TRUE]
  /\ UNCHANGED <<arb_done, m_req_fifo, item_done, driver>>

\* m_select_sequence, in the driver's process.
CanGrant(s) == driver[s] = "select" /\ arb_queue[s]
Grant(s) ==
  /\ CanGrant(s)
  /\ arb_queue' = [arb_queue EXCEPT ![s] = FALSE]
  /\ arb_done'  = [arb_done EXCEPT ![s] = TRUE]
  /\ driver'    = [driver EXCEPT ![s] = "peek"]
  /\ UNCHANGED <<m_req_fifo, item_done>>

\* wait_for_grant returns, finish_item sends the item and starts to wait for
\* the sequencer to name it as done.
SendRequest(s, item) ==
  /\ arb_done[s]
  /\ arb_done'   = [arb_done EXCEPT ![s] = FALSE]
  /\ m_req_fifo' = [m_req_fifo EXCEPT ![s] = Append(@, item)]
  /\ item_done'  = [item_done EXCEPT ![s] = FALSE]
  /\ UNCHANGED <<arb_queue, driver>>

\* get_next_item returns the head of the FIFO and leaves it there.
CanTake(s) == driver[s] = "peek" /\ m_req_fifo[s] # <<>>
TakeItem(s) ==
  /\ CanTake(s)
  /\ driver' = [driver EXCEPT ![s] = "busy"]
  /\ UNCHANGED <<arb_queue, arb_done, m_req_fifo, item_done>>

\* Fault_...: a variant with a plausible bug, for the tests of the properties.
\* Nobody is told that the item is done.
Fault_ItemDone(s) ==
  /\ m_req_fifo' = [m_req_fifo EXCEPT ![s] = Tail(@)]
  /\ driver'     = [driver EXCEPT ![s] = "select"]
  /\ UNCHANGED <<arb_queue, arb_done, item_done>>

\* item_done, and the driver's next get_next_item.
ItemDone(s) ==
  /\ m_req_fifo' = [m_req_fifo EXCEPT ![s] = Tail(@)]
  /\ item_done'  = [item_done EXCEPT ![s] = TRUE]
  /\ driver'     = [driver EXCEPT ![s] = "select"]
  /\ UNCHANGED <<arb_queue, arb_done>>

PortInit ==
  /\ arb_queue  = [s \in Sequencers |-> FALSE]
  /\ arb_done   = [s \in Sequencers |-> FALSE]
  /\ m_req_fifo = [s \in Sequencers |-> <<>>]
  /\ item_done  = [s \in Sequencers |-> FALSE]
  /\ driver     = [s \in Sequencers |-> "select"]

=============================================================================
