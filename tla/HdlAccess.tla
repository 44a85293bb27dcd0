----------------------------- MODULE HdlAccess -----------------------------
(***************************************************************************)
(* What uvm_hdl.svh promises of backdoor access, whatever the simulator:   *)
(* a call that returns 1 has done what its comment says to the bits its    *)
(* path names, and to no other; a call that returns 0 may have done part   *)
(* of it.  Nothing but a call and the design itself moves the signal.      *)
(***************************************************************************)
EXTENDS HdlSignal

Put(flag, c, K) == \E f \in Written(c.path, K, c.value) : PutValue(flag, f)

\* Part of what was asked may have been done when a call returns 0.
Try(flag, c) ==
  \/ /\ call'.ret = 1
     /\ Exists(c.path)
     /\ Put(flag, c, DOMAIN Places(c.path))
  \/ /\ call'.ret = 0
     /\ \E K \in SUBSET {k \in DOMAIN Places(c.path) : Places(c.path)[k] \in Index} :
          Put(flag, c, K)

Check(c) == NoPut /\ call'.ret = IF Exists(c.path) THEN 1 ELSE 0

\* The value at the path, which fits.
Holds(p, value) == Exists(p) /\ Width(p) <= MaxWidth /\ Agrees(value, p)

Read(c) ==
  /\ NoPut
  /\ (call.ret = 1 => Holds(call.path, call.value))'

Deposit(c) == Try("deposit", c) /\ call'.value = c.value
Force(c)   == Try("force", c) /\ call'.value = c.value
Release(c) == Try("release", c)

ReleaseAndRead(c) ==
  /\ Try("release", c)
  /\ (call.ret = 1 => Holds(call.path, call.value))'

Promised(c) ==
  CASE c.op = "check_path"       -> Check(c)
    [] c.op = "read"             -> Read(c)
    [] c.op = "deposit"          -> Deposit(c)
    [] c.op = "force"            -> Force(c)
    [] c.op = "release"          -> Release(c)
    [] c.op = "release_and_read" -> ReleaseAndRead(c)

Access ==
  /\ call = NoCall /\ ~ended
  /\ \E c \in Calls :
       /\ call'.op = c.op /\ call'.path = c.path
       /\ call'.ret \in {0, 1}
       /\ Promised(c)

Next == Access \/ Testbench

Spec == SignalInit /\ [][Next]_signalVars
=============================================================================
