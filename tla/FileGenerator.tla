--------------------------- MODULE FileGenerator ----------------------------
(***************************************************************************)
(* fstim_generator.body (tb_generators.sv): reads the stimuli file line by *)
(* line and turns SPI and GPIO lines into items for the two sequencers.    *)
(*                                                                         *)
(* A line is the sequence of its tokens, <<>> when it is blank.  $sscanf   *)
(* assigns as many of t0..t6 as the line has tokens, and the variables are *)
(* those of the task: the others keep what an earlier line left in them.   *)
(***************************************************************************)
EXTENDS Integers, ItemPort

CONSTANTS
  Lines,                 \* lines a stimuli file may have
  MaxLines,              \* its length: a bound for model checking
  Atoi(_), Atohex(_)     \* string.atoi and string.atohex

Words == {""} \cup UNION {{line[k] : k \in DOMAIN line} : line \in Lines}

ASSUME LinesAssumption ==
  /\ Lines \subseteq Seq(STRING) /\ MaxLines \in Nat
  /\ \A t \in Words : Atoi(t) \in Int /\ Atohex(t) \in Int

VARIABLES
  file,                  \* the lines of the file
  stim_f_ln_num,         \* lines read
  tok,                   \* t0..t6
  gen,                   \* where the sequence is
  item,                  \* the item being started, with its sequencer
  gen_errors             \* the lines reported by `uvm_error

genVars == <<file, stim_f_ln_num, tok, gen, item, gen_errors>>

-----------------------------------------------------------------------------
Tokens == 0..6
NoItem == [seqr |-> "none", txn |-> <<>>]

Scan(line) == [k \in Tokens |-> IF k < Len(line) THEN line[k + 1] ELSE tok[k]]

Flag(b) == IF b THEN 1 ELSE 0

\* The items of an SPI and of a GPIO line; fields are cut to their width.
SpiItem(id, t) ==
  LET write == t[1] = "WR" IN
  [transaction_id |-> id, is_write |-> Flag(write), addr |-> Atoi(t[2]) % 256,
   data          |-> IF write THEN Atohex(t[3]) % 256 ELSE 0,
   expected_data |-> IF write THEN 0 ELSE Atohex(t[3]) % 256,
   compare_data  |-> Flag(~write /\ t[4] = "SB_VERIFY")]

GpioItem(id, t) ==
  LET write == t[3] = "SET" IN
  [transaction_id |-> id, is_write |-> Flag(write), sig_name |-> t[1],
   gpio_offset    |-> Atoi(t[2]) % 8,
   value          |-> Atoi(t[4]) % 2,
   expected_value |-> IF write THEN 0 ELSE Atoi(t[4]) % 2,
   compare_value  |-> Flag(~write /\ t[5] = "SB_VERIFY")]

-----------------------------------------------------------------------------
\* The next line is read; it is not a comment and leaves t in the tokens.
NextLine == file[stim_f_ln_num + 1]
\* The first three characters of the line, which are its first token here.
IsComment(line) == line # <<>> /\ line[1] = "###"
CanRead == gen = "read" /\ stim_f_ln_num < Len(file)

Read(t) ==
  /\ CanRead /\ ~IsComment(NextLine)
  /\ t = Scan(NextLine)
  /\ tok' = t
  /\ stim_f_ln_num' = stim_f_ln_num + 1
  /\ UNCHANGED file

Error == gen_errors' = gen_errors \cup {stim_f_ln_num + 1}

SkipComment ==
  /\ CanRead /\ IsComment(NextLine)
  /\ stim_f_ln_num' = stim_f_ln_num + 1
  /\ UNCHANGED <<file, tok, gen, item, gen_errors, portVars>>

Pause ==
  LET t == Scan(NextLine) IN
  /\ Read(t) /\ t[0] = "PAUSE"
  /\ \/ t[1] \in {"NS", "US", "MS"} /\ gen' = "pause" /\ UNCHANGED gen_errors
     \/ t[1] \notin {"NS", "US", "MS"} /\ Error /\ UNCHANGED gen
  /\ UNCHANGED <<item, portVars>>

PauseOver ==
  /\ gen = "pause" /\ gen' = "read"
  /\ UNCHANGED <<file, stim_f_ln_num, tok, item, gen_errors, portVars>>

Malformed ==
  LET t == Scan(NextLine) IN
  /\ Read(t) /\ t[0] # "PAUSE" /\ Len(NextLine) < 3
  /\ Error
  /\ UNCHANGED <<gen, item, portVars>>

\* Neither SPI nor GPIO: the loop goes on with the next line.
Unknown ==
  LET t == Scan(NextLine) IN
  /\ Read(t) /\ Len(NextLine) >= 3 /\ t[0] \notin {"PAUSE", "SPI", "GPIO"}
  /\ UNCHANGED <<gen, item, gen_errors, portVars>>

Start(s, txn) ==
  /\ item' = [seqr |-> s, txn |-> txn]
  /\ gen'  = "grant"
  /\ StartItem(s)
  /\ UNCHANGED gen_errors

SpiLine ==
  LET t == Scan(NextLine) IN
  /\ Read(t) /\ Len(NextLine) >= 3 /\ t[0] = "SPI"
  /\ Start("spi", SpiItem(stim_f_ln_num + 1, t))

GpioLine ==
  LET t == Scan(NextLine) IN
  /\ Read(t) /\ Len(NextLine) >= 3 /\ t[0] = "GPIO"
  /\ Start("gpio", GpioItem(stim_f_ln_num + 1, t))

FinishItem ==
  /\ gen = "grant" /\ SendRequest(item.seqr, item.txn)
  /\ gen' = "item"
  /\ UNCHANGED <<file, stim_f_ln_num, tok, item, gen_errors>>

\* Fault_...: a variant with a plausible bug, for the tests of the properties.
\* The sequence does not wait for the driver.
Fault_ItemReturned ==
  /\ gen = "item"
  /\ gen' = "read" /\ item' = NoItem
  /\ UNCHANGED <<file, stim_f_ln_num, tok, gen_errors, portVars>>

\* wait_for_item_done returns.
ItemReturned ==
  /\ gen = "item" /\ item_done[item.seqr]
  /\ gen' = "read" /\ item' = NoItem
  /\ UNCHANGED <<file, stim_f_ln_num, tok, gen_errors, portVars>>

\* $feof: body returns, and stim_test drops its objection.
EndOfFile ==
  /\ gen = "read" /\ stim_f_ln_num = Len(file)
  /\ gen' = "dropped"
  /\ UNCHANGED <<file, stim_f_ln_num, tok, item, gen_errors, portVars>>

\* What the sequence does without letting time pass.
GeneratorStep == SkipComment \/ Pause \/ Malformed \/ Unknown \/ SpiLine \/ GpioLine
                 \/ FinishItem \/ ItemReturned \/ EndOfFile

GeneratorInit ==
  /\ file \in UNION {[1..n -> Lines] : n \in 0..MaxLines}
  /\ stim_f_ln_num = 0 /\ tok = [k \in Tokens |-> ""]
  /\ gen = "read" /\ item = NoItem /\ gen_errors = {}

=============================================================================
