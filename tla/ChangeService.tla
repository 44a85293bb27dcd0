---------------------------- MODULE ChangeService ----------------------------
(***************************************************************************)
(* What the polling layer of the UVM library promises a testbench: whoever *)
(* watches a signal is told of its changes.  Changes that follow each      *)
(* other before the testbench is told are told once; a change is never     *)
(* forgotten, and nothing is told that did not happen.                     *)
(***************************************************************************)
CONSTANT Hook              \* the probes a testbench can have

VARIABLES
  watched,                 \* the probes whose signal is watched
  owed                     \* the probes whose change has still to be told

serviceVars == <<watched, owed>>

Init == watched = {} /\ owed = {}

Watch(h)   == watched' = watched \cup {h} /\ UNCHANGED owed
Unwatch(h) == watched' = watched \ {h}    /\ UNCHANGED owed

Change(h) == h \in watched /\ owed' = owed \cup {h} /\ UNCHANGED watched
Notify(h) == h \in owed /\ owed' = owed \ {h} /\ UNCHANGED watched

\* The simulation ends, or starts again from time zero without its probes.
Restart == watched' = {} /\ owed' = {}

Next ==
  \/ \E h \in Hook : Watch(h) \/ Unwatch(h) \/ Change(h) \/ Notify(h)
  \/ Restart

Spec == Init /\ [][Next]_serviceVars /\ \A h \in Hook : WF_serviceVars(Notify(h))
=============================================================================
