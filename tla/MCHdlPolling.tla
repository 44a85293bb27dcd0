---------------------------- MODULE MCHdlPolling ----------------------------
\* Three probes: enough for a list with a newest, a middle and an oldest entry
\* while the others come and go.  Signals change once the loop has been
\* started, what is told of them writes none, and the simulation restarts when
\* no change is on the list.
EXTENDS HdlPolling

Probes   == {"p1", "p2", "p3"}
CalmOnly == "calm"
=============================================================================
