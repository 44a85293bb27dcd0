----------------------------- MODULE HdlPolling -----------------------------
(***************************************************************************)
(* Value-change polling of HDL signals: the C side (uvm_hdl_polling.c),    *)
(* the loop that serves it on the SystemVerilog side                       *)
(* (uvm_hdl_polling.svh) and the simulator between them.                   *)
(*                                                                         *)
(*    signal changes -> value_change_callback: push, toggle the notifier   *)
(*    notifier changes -> the loop wakes: process_changelist pops, newest  *)
(*                        first, and tells the probe, whose user code may  *)
(*                        create, enable and disable probes and write      *)
(*                        signals                                          *)
(*                                                                         *)
(* C code and SystemVerilog functions run to completion, so an action is   *)
(* what happens between two points where other code can run.  A hook is    *)
(* the address of a record.                                                *)
(***************************************************************************)
EXTENDS Naturals, Sequences, FiniteSets

CONSTANTS
  Hook,            \* addresses of hook records
  EarlyChange,     \* do signals change before the loop has been started?
  CallbackWrites,  \* does the code that is told of a change write signals?
  Restarts         \* may the simulation restart: "never", "calm" (when no
                   \* change is on the list) or "any" time?

ASSUME FlagsAssumption ==
  /\ EarlyChange \in BOOLEAN
  /\ CallbackWrites \in BOOLEAN
  /\ Restarts \in {"never", "calm", "any"}

VARIABLES
  allHooks,        \* the records allocated and not freed
  cb,              \* those with a value-change callback in place
  changeList,      \* the records with a change to serve, newest first
  on_changeList,   \* the flag in each record
  notifier,        \* "null", "set" or "stale": its handle has been released
  forked,          \* is a fork of uvm_hdl_polling_probes_run still to start?
  loop,            \* where the loop on @notifier is
  fatal            \* UVM_FATAL was reported: the simulation ends

cVars  == <<allHooks, cb, changeList, on_changeList, notifier>>
svVars == <<forked, loop, fatal>>
vars   == <<cVars, svVars>>

Entries(s) == {s[i] : i \in DOMAIN s}

\* "walking": inside process_changelist; "notifying": in the code it calls.
LoopPlaces == {"none", "waiting", "woken", "walking", "notifying"}

Init ==
  /\ allHooks = {} /\ cb = {} /\ changeList = <<>>
  /\ on_changeList = [h \in Hook |-> FALSE]
  /\ notifier = "null"
  /\ forked = FALSE /\ loop = "none" /\ fatal = FALSE

\* Testbench code runs unless the loop is in C; the design, only when no
\* testbench function is running.
TestbenchRuns == ~fatal /\ loop # "walking"
DesignRuns    == TestbenchRuns /\ (loop = "notifying" => CallbackWrites)

-----------------------------------------------------------------------------
(* Probes. *)

\* malloc returns an address that is not in use.  (It could also be one that
\* was freed while on the list; the list would then be a cycle.  A freed
\* record on the list does harm enough without.)
Free(h) == h \notin allHooks \cup Entries(changeList)

\* create_probe with a name that is found: uvm_polling_create, the callback
\* if it is to be enabled, and the fork of the loop.
CreateProbe(h, enable) ==
  /\ TestbenchRuns /\ Free(h)
  /\ allHooks' = allHooks \cup {h}
  /\ on_changeList' = [on_changeList EXCEPT ![h] = FALSE]
  /\ cb' = IF enable THEN cb \cup {h} ELSE cb
  /\ forked' = TRUE
  /\ UNCHANGED <<changeList, notifier, loop, fatal>>

\* The name is not found, is not of an integral type, or there is no memory.
CreateFails ==
  /\ TestbenchRuns
  /\ fatal' = TRUE
  /\ UNCHANGED <<cVars, forked, loop>>

\* uvm_polling_set_enable_callback on a probe of this simulation.
SetEnableCallback(h, enable) ==
  /\ TestbenchRuns /\ h \in allHooks
  /\ cb' = IF enable THEN cb \cup {h} ELSE cb \ {h}
  /\ UNCHANGED <<allHooks, changeList, on_changeList, notifier, svVars>>

-----------------------------------------------------------------------------
(* A change of a watched signal. *)

PushIfNeeded(h) == IF on_changeList[h] THEN changeList ELSE <<h>> \o changeList

\* Toggling the notifier wakes the loop if that is waiting for it.
Wake == IF loop = "waiting" THEN "woken" ELSE loop

ToggleNotifier ==
  \/ notifier = "null"  /\ fatal' = TRUE /\ UNCHANGED loop
  \/ notifier = "set"   /\ loop' = Wake  /\ UNCHANGED fatal
  \/ notifier = "stale" /\ loop' \in {loop, Wake} /\ UNCHANGED fatal  \* undefined

Fault_RequireNotification(h) == PushIfNeeded(h) = <<>>   \* asked after the push
RequireNotification(h) == changeList = <<>>

ValueChange(h) ==
  /\ DesignRuns /\ h \in cb
  /\ notifier # "set" => EarlyChange
  /\ changeList' = PushIfNeeded(h)
  /\ on_changeList' = [on_changeList EXCEPT ![h] = TRUE]
  /\ IF RequireNotification(h) THEN ToggleNotifier ELSE UNCHANGED <<loop, fatal>>
  /\ UNCHANGED <<allHooks, cb, notifier, forked>>

-----------------------------------------------------------------------------
(* The loop. *)

\* The forked uvm_hdl_polling_probes_run: nothing if a notifier is running,
\* else setup_notifier, which may fail, and in both cases the loop.
StartLoop ==
  /\ forked /\ TestbenchRuns /\ loop # "notifying"
  /\ forked' = FALSE
  /\ \/ notifier = "set" /\ UNCHANGED <<notifier, loop>>
     \/ /\ notifier # "set"
        /\ notifier' \in {notifier, "set"}
        /\ loop' = IF loop = "none" THEN "waiting" ELSE loop
  /\ UNCHANGED <<allHooks, cb, changeList, on_changeList, fatal>>

EnterProcess ==
  /\ loop = "woken" /\ ~fatal
  /\ loop' = "walking"
  /\ UNCHANGED <<cVars, forked, fatal>>

\* uvm_polling_get_newest_entry and the call of its probe's code.
Fault_NotifyNewest ==                  \* the flag of the record is not cleared
  /\ loop = "walking" /\ ~fatal /\ changeList # <<>>
  /\ changeList' = Tail(changeList)
  /\ loop' = "notifying"
  /\ UNCHANGED <<allHooks, cb, on_changeList, notifier, forked, fatal>>
NotifyNewest ==
  /\ loop = "walking" /\ ~fatal /\ changeList # <<>>
  /\ changeList' = Tail(changeList)
  /\ on_changeList' = [on_changeList EXCEPT ![Head(changeList)] = FALSE]
  /\ loop' = "notifying"
  /\ UNCHANGED <<allHooks, cb, notifier, forked, fatal>>

Fault_ReturnFromNotify ==              \* one record per wake-up
  /\ loop = "notifying" /\ ~fatal
  /\ loop' = "waiting"
  /\ UNCHANGED <<cVars, forked, fatal>>
ReturnFromNotify ==
  /\ loop = "notifying" /\ ~fatal
  /\ loop' = "walking"
  /\ UNCHANGED <<cVars, forked, fatal>>

\* The list is empty: back to @notifier, with nothing in between.
LeaveProcess ==
  /\ loop = "walking" /\ ~fatal /\ changeList = <<>>
  /\ loop' = "waiting"
  /\ UNCHANGED <<cVars, forked, fatal>>

-----------------------------------------------------------------------------
(* A restart of the simulation: cbStartOfReset calls                       *)
(* uvm_polling_free_mem_structures, and SystemVerilog starts afresh.       *)
(* The callback is registered together with the notifier.                  *)

MayRestart ==
  \/ Restarts = "any"
  \/ Restarts = "calm" /\ changeList = <<>>

Fault_Restart ==                       \* the hooks keep their callbacks
  /\ TestbenchRuns /\ notifier # "null"
  /\ MayRestart
  /\ allHooks' = {} /\ notifier' = "stale"
  /\ forked' = FALSE /\ loop' = "none"
  /\ UNCHANGED <<cb, changeList, on_changeList, fatal>>
Restart ==
  /\ TestbenchRuns /\ notifier # "null"
  /\ MayRestart
  /\ allHooks' = {} /\ cb' = {} /\ notifier' = "stale"
  /\ forked' = FALSE /\ loop' = "none"
  /\ UNCHANGED <<changeList, on_changeList, fatal>>

Serve == StartLoop \/ EnterProcess \/ NotifyNewest \/ ReturnFromNotify \/ LeaveProcess

Next ==
  \/ \E h \in Hook :
       \/ \E enable \in BOOLEAN : CreateProbe(h, enable) \/ SetEnableCallback(h, enable)
       \/ ValueChange(h)
  \/ CreateFails
  \/ Serve
  \/ Restart

\* The simulator runs a process that is ready, and a called function returns.
Spec == Init /\ [][Next]_vars /\ WF_vars(Serve)

-----------------------------------------------------------------------------
(* Properties. *)

\* The C and SystemVerilog state is in its range; the list is not longer than
\* there are records.
TypeOK ==
  /\ allHooks \subseteq Hook /\ cb \subseteq allHooks
  /\ changeList \in Seq(Hook)
  /\ on_changeList \in [Hook -> BOOLEAN]
  /\ notifier \in {"null", "set", "stale"}
  /\ forked \in BOOLEAN /\ loop \in LoopPlaces /\ fatal \in BOOLEAN

\* The flag in a record says whether the record is on the list, no record is
\* on it twice (the list is linked through the records, so that would be a
\* cycle), and no record on it has been freed.
ListAgrees ==
  /\ \A i, j \in DOMAIN changeList : i # j => changeList[i] # changeList[j]
  /\ \A h \in Hook : on_changeList[h] <=> h \in Entries(changeList)
  /\ Entries(changeList) \subseteq allHooks

\* A change on the list is on its way to the testbench: the loop has been
\* woken or is walking the list.  A notification cannot be missed, because
\* only a change that finds the list empty toggles the notifier
\* (uvm_hdl_polling.c:444-455).
ListIsServed ==
  changeList # <<>> /\ ~fatal => loop \in {"woken", "walking", "notifying"}

\* The polling layer implements the promise: what is owed is what is on the
\* list, and every entry is told in the end, unless the simulation is over
\* ("this mechanism avoids any risk of races whereby a notification might be
\* missed", uvm_hdl_polling.c:453-455).
Service == INSTANCE ChangeService WITH
             watched <- IF fatal THEN {} ELSE cb,
             owed <- IF fatal THEN {} ELSE Entries(changeList)
KeepsPromise == Service!Spec
=============================================================================
