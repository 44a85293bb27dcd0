---------------------------- MODULE DpiFunctions ----------------------------
(***************************************************************************)
(* The functions of the DPI layer that look at nothing but their arguments *)
(* and the signal: a testbench calls one of them.                          *)
(***************************************************************************)
EXTENDS UvmGlobMatch, UvmRegex, HdlPollingValue

Init == frame \in MatchFrames \cup ConvertFrames \cup ValueFrames

Next == MatchStep \/ ConvertStep \/ ValueStep

\* A function runs to its end.
Spec == Init /\ [][Next]_frame /\ WF_frame(MatchStep)
=============================================================================
