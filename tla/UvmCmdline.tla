----------------------------- MODULE UvmCmdline -----------------------------
(***************************************************************************)
(* The command line as uvm_cmdline_processor gets to know it               *)
(* (base/uvm_cmdline_processor.svh:334-358): its constructor asks          *)
(* dpi/uvm_svcmd_dpi.c for one argument after the other.  The first call   *)
(* walks the arguments twice, to count and to keep them; an argument file  *)
(* is "-f" (or "-F") followed by a list that begins with the file's name.  *)
(***************************************************************************)
EXTENDS Integers, SequencesExt

CONSTANTS
  CommandLines,    \* sequences of words: texts, "-f", and lists [file |-> words]
  Plus, Uvm,       \* the texts that begin with +, and with [+-]uvm in any case
  MaxConstructed   \* processors that are made, one after the other

ASSUME CmdlineAssumption == MaxConstructed \in Nat

VARIABLES
  argv,            \* info.argv
  frames,          \* walk_level, and the words each of its levels has before it
  cmd,             \* its pass: 0 counts, 1 keeps, 2 is over
  argc_total, argv_stack, idx,          \* static: kept from call to call
  m_argv, m_plus_argv, m_uvm_argv,
  constructed,
  state            \* "called" while a constructor runs, or "idle"

cVars  == <<argc_total, argv_stack, idx>>
svVars == <<m_argv, m_plus_argv, m_uvm_argv, constructed>>
vars   == <<argv, frames, cmd, cVars, svVars, state>>

\* new: the first call is to walk the arguments.
Fault_New ==                           \* argc_total goes on from the last time
  /\ state = "idle" /\ constructed < MaxConstructed
  /\ constructed' = constructed + 1
  /\ m_argv' = <<>> /\ m_plus_argv' = <<>> /\ m_uvm_argv' = <<>>
  /\ argv_stack' = <<>> /\ frames' = <<argv>> /\ cmd' = 0
  /\ state' = "called"
  /\ UNCHANGED <<argv, argc_total, idx>>
New ==
  /\ state = "idle" /\ constructed < MaxConstructed
  /\ constructed' = constructed + 1
  /\ m_argv' = <<>> /\ m_plus_argv' = <<>> /\ m_uvm_argv' = <<>>
  /\ argc_total' = 0 /\ argv_stack' = <<>>
  /\ frames' = <<argv>> /\ cmd' = 0
  /\ state' = "called"
  /\ UNCHANGED <<argv, idx>>

push_data(w) ==
  IF cmd = 0 THEN argc_total' = argc_total + 1 /\ UNCHANGED argv_stack
             ELSE argv_stack' = Append(argv_stack, w) /\ UNCHANGED argc_total

\* The words of the innermost level.
Words == Last(frames)
Into(level) == Front(frames) \o level

WalkWord ==
  /\ frames # <<>> /\ Words # <<>> /\ Head(Words) # "-f"
  /\ push_data(Head(Words))
  /\ frames' = Into(<<Tail(Words)>>)
  /\ UNCHANGED <<argv, cmd, idx, svVars, state>>

\* The list behind -f, without the name it begins with.
WalkFile ==
  /\ frames # <<>> /\ Words # <<>> /\ Head(Words) = "-f"
  /\ frames' = Into(<<Tail(Tail(Words)), Tail(Words[2].file)>>)
  /\ UNCHANGED <<argv, cmd, cVars, svVars, state>>

Fault_LevelOver ==                     \* the end of a file's list is not seen
  /\ Len(frames) = 1 /\ Words = <<>>
  /\ frames' = Front(frames)
  /\ UNCHANGED <<argv, cmd, cVars, svVars, state>>
LevelOver ==
  /\ frames # <<>> /\ Words = <<>>
  /\ frames' = Front(frames)
  /\ UNCHANGED <<argv, cmd, cVars, svVars, state>>

\* Behind the first pass memory for argc_total arguments is taken, behind the
\* second they are given out from the first on.
Fault_PassOver ==                      \* idx is not set back
  /\ frames = <<>> /\ cmd < 2
  /\ frames' = IF cmd = 0 THEN <<argv>> ELSE <<>>
  /\ cmd' = cmd + 1
  /\ UNCHANGED <<argv, argc_total, argv_stack, idx, svVars, state>>
PassOver ==
  /\ frames = <<>> /\ cmd < 2
  /\ frames' = IF cmd = 0 THEN <<argv>> ELSE <<>>
  /\ cmd' = cmd + 1
  /\ idx' = IF cmd = 1 THEN 0 ELSE idx
  /\ UNCHANGED <<argv, argc_total, argv_stack, svVars, state>>

\* NULL, behind the last argument, is the empty string in SystemVerilog.
NextArg == IF idx < argc_total THEN argv_stack[idx + 1] ELSE ""

AddArg(s, q, C) == IF s \in C THEN Append(q, s) ELSE q

\* uvm_dpi_get_next_arg_c returns, and the constructor takes what it returned.
GetNextArg ==
  /\ state = "called" /\ cmd = 2
  /\ idx' = idx + 1
  /\ m_argv'      = IF NextArg # "" THEN Append(m_argv, NextArg) ELSE m_argv
  /\ m_plus_argv' = AddArg(NextArg, m_plus_argv, Plus)
  /\ m_uvm_argv'  = AddArg(NextArg, m_uvm_argv, Uvm)
  /\ state' = IF NextArg = "" THEN "idle" ELSE "called"
  /\ UNCHANGED <<argv, frames, cmd, argc_total, argv_stack, constructed>>

Init ==
  /\ argv \in CommandLines
  /\ frames = <<>> /\ cmd = 2
  /\ argc_total = 0 /\ argv_stack = <<>> /\ idx = 0
  /\ m_argv = <<>> /\ m_plus_argv = <<>> /\ m_uvm_argv = <<>>
  /\ constructed = 0 /\ state = "idle"

Construct == WalkWord \/ WalkFile \/ LevelOver \/ PassOver \/ GetNextArg

Next == New \/ Construct

\* A constructor runs to its end.
Spec == Init /\ [][Next]_vars /\ WF_vars(Construct)

-----------------------------------------------------------------------------
(* Properties. *)

\* The arguments of a command line: its texts, and those of the files it names,
\* and of the files these name, in their places.
RECURSIVE Arguments(_)
Arguments(words) ==
  IF words = <<>> THEN <<>>
  ELSE IF Head(words) = "-f"
       THEN Arguments(Tail(words[2].file)) \o Arguments(Tail(Tail(words)))
       ELSE <<Head(words)>> \o Arguments(Tail(words))

\* Every processor that was made knows all arguments, in their order, however
\* many were made before it, and the lists of + and uvm arguments are those of
\* the same arguments.
KnowsArguments ==
  state = "idle" /\ constructed > 0 =>
    /\ m_argv = Arguments(argv)
    /\ m_plus_argv = SelectSeq(Arguments(argv), LAMBDA s : s \in Plus)
    /\ m_uvm_argv = SelectSeq(Arguments(argv), LAMBDA s : s \in Uvm)

\* The two passes agree: no argument is kept beyond the memory that was taken,
\* and what is handed out was kept.
PassesAgree ==
  /\ cmd = 1 => Len(argv_stack) <= argc_total
  /\ cmd = 2 => Len(argv_stack) = argc_total

\* Every constructor returns.
ConstructorReturns == state = "called" ~> state = "idle"
=============================================================================
