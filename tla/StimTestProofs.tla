--------------------------- MODULE StimTestProofs ---------------------------
(***************************************************************************)
(* Proofs about the test as a whole, for every set of lines, every file of *)
(* them and every address map.                                             *)
(***************************************************************************)
EXTENDS StimTest, WellFoundedInduction, TLAPS

USE DEF Sequencers, Tokens

-----------------------------------------------------------------------------
(* The invariants. *)

Bit == {0, 1}
SpiTransaction ==
  [transaction_id : 1..MaxLines, is_write : Bit, addr : 0..255, data : 0..255,
   expected_data : 0..255, compare_data : Bit]
GpioTransaction ==
  [transaction_id : 1..MaxLines, is_write : Bit, sig_name : Words, gpio_offset : 0..7,
   value : Bit, expected_value : Bit, compare_value : Bit]

Transaction(s) == IF s = "spi" THEN SpiTransaction ELSE GpioTransaction

\* Where the sequence is in its file.
Reading ==
  /\ file \in Seq(Lines) /\ Len(file) <= MaxLines
  /\ stim_f_ln_num \in 0..Len(file)
  /\ tok \in [Tokens -> Words]
  /\ gen \in {"read", "pause", "grant", "item", "dropped"}
  /\ gen = "dropped" => stim_f_ln_num = Len(file)
  /\ gen_errors \subseteq 1..MaxLines

\* A sequencer nobody has started an item on, and one in each of the stages of
\* an item.
Idle(s) == ~arb_queue[s] /\ ~arb_done[s] /\ m_req_fifo[s] = <<>> /\ driver[s] = "select"

Asked(s) ==
  gen = "grant" /\ arb_queue[s] /\ ~arb_done[s] /\ m_req_fifo[s] = <<>> /\ driver[s] = "select"
Granted(s) ==
  gen = "grant" /\ ~arb_queue[s] /\ arb_done[s] /\ m_req_fifo[s] = <<>> /\ driver[s] = "peek"
Sent(s) ==
  /\ gen = "item" /\ ~arb_queue[s] /\ ~arb_done[s] /\ m_req_fifo[s] = <<item.txn>>
  /\ ~item_done[s] /\ driver[s] = "peek"
Taken(s) ==
  /\ gen = "item" /\ ~arb_queue[s] /\ ~arb_done[s] /\ m_req_fifo[s] = <<item.txn>>
  /\ ~item_done[s] /\ driver[s] = "busy" /\ s = "spi"
Done(s) ==
  /\ gen = "item" /\ ~arb_queue[s] /\ ~arb_done[s] /\ m_req_fifo[s] = <<>>
  /\ item_done[s] /\ driver[s] = "select"

Stage(s) == Asked(s) \/ Granted(s) \/ Sent(s) \/ Taken(s) \/ Done(s)

\* One item at a time is under way, on the sequencer it was started on.
Handshake ==
  /\ arb_queue \in [Sequencers -> BOOLEAN] /\ arb_done \in [Sequencers -> BOOLEAN]
  /\ item_done \in [Sequencers -> BOOLEAN]
  /\ DOMAIN m_req_fifo = Sequencers
  /\ driver \in [Sequencers -> {"select", "peek", "busy"}]
  /\ \A s \in Sequencers : s # item.seqr => Idle(s)
  /\ IF gen \in {"grant", "item"}
     THEN item.seqr \in Sequencers /\ item.txn \in Transaction(item.seqr) /\ Stage(item.seqr)
     ELSE item = NoItem

\* A monitor has at most the intent of the item that was driven last, and none
\* from the moment the next one is granted.
Monitors ==
  /\ IF driver["spi"] = "busy"
     THEN spi_intents = <<item.txn>> /\ received = <<>>
     ELSE \/ spi_intents = <<>> /\ received = <<>>
          \/ spi_intents = <<spi_intents[1]>> /\ received = <<received[1]>>
  /\ gpio_intents = <<>> \/ gpio_intents = <<gpio_intents[1]>>
  /\ \A s \in Sequencers : driver[s] # "select" => received = <<>> /\ gpio_intents = <<>>

Values ==
  /\ regfile \in [0..255 -> 0..255] /\ gpio_in \in [0..7 -> Bit]
  /\ if_errors \subseteq 1..MaxLines
  /\ phase \in {"run", "ended"}

\* The item of the last line has not been driven yet.
Pending == gen = "grant" \/ (gen = "item" /\ ~item_done[item.seqr])
Driven  == IF Pending THEN stim_f_ln_num - 1 ELSE stim_f_ln_num

\* The item is what its line means.
Meant ==
  Pending =>
    LET line == file[stim_f_ln_num]
        t == Own(line)
    IN /\ stim_f_ln_num > 0 /\ ~IsComment(line) /\ Len(line) >= 3
       /\ \/ t[0] = "SPI" /\ item = [seqr |-> "spi", txn |-> SpiItem(stim_f_ln_num, t)]
          \/ t[0] = "GPIO" /\ item = [seqr |-> "gpio", txn |-> GpioItem(stim_f_ln_num, t)]

\* The scoreboards' verdicts, with those that the monitors owe.
SpiJudged ==
  IF received = <<>> THEN spi_log
  ELSE LET intent == Head(spi_intents)
           tr == IF intent.is_write = 1 THEN intent ELSE [intent EXCEPT !.data = received[1]]
       IN Append(spi_log, Entry(tr, SpiVerdict(tr)))
GpioJudged ==
  IF gpio_intents = <<>> THEN gpio_log
  ELSE Append(gpio_log, Entry(Head(gpio_intents), GpioVerdict(Head(gpio_intents))))

\* What has happened is what the lines driven mean; a line that is reported is
\* reported when it is read.
Following ==
  LET effect == Effects(file)[Driven]
  IN /\ regfile = effect.mem /\ gpio_in = effect.pins /\ if_errors = effect.unknown
     /\ SpiJudged = effect.spi /\ GpioJudged = effect.gpio
     /\ gen_errors = Effects(file)[stim_f_ln_num].bad

\* A line that has the tokens that its command looks at; the tokens of a line
\* before it take the place of those it has not.
OwnTokens(line) ==
  /\ line # <<>>
  /\ line[1] = "PAUSE" => Len(line) >= 2
  /\ line[1] = "SPI"  /\ Len(line) >= 3 => Len(line) >= 4 /\ (line[2] # "WR" => Len(line) >= 5)
  /\ line[1] = "GPIO" /\ Len(line) >= 3 => Len(line) >= 5 /\ (line[4] # "SET" => Len(line) >= 6)
OwnLines == \A line \in Lines : OwnTokens(line)

-----------------------------------------------------------------------------
(* Where the sequence is in its file.                                      *)

\* The tokens of a line are words.
LEMMA LineWords ==
  ASSUME NEW line \in Lines
  PROVE  /\ line \in Seq(STRING) /\ Len(line) \in Nat
         /\ \A k \in 1..Len(line) : line[k] \in Words
<1>1. line \in Seq(STRING)
  BY LinesAssumption
<1>2. DOMAIN line = 1..Len(line) /\ Len(line) \in Nat
  BY <1>1
<1>3. \A k \in DOMAIN line : line[k] \in Words
  <2> SUFFICES ASSUME NEW k \in DOMAIN line PROVE line[k] \in Words
    OBVIOUS
  <2> DEFINE tokens == {line[j] : j \in DOMAIN line}
  <2>1. line[k] \in tokens
    OBVIOUS
  <2>2. tokens \in {{l[j] : j \in DOMAIN l} : l \in Lines}
    OBVIOUS
  <2> HIDE DEF tokens
  <2> QED
    BY <2>1, <2>2 DEF Words
<1> QED
  BY <1>1, <1>2, <1>3

LEMMA NextLineFacts ==
  ASSUME Reading, CanRead
  PROVE  /\ NextLine \in Lines /\ stim_f_ln_num + 1 \in 1..Len(file)
         /\ Scan(NextLine) \in [Tokens -> Words]
<1>1. stim_f_ln_num + 1 \in 1..Len(file) /\ file \in Seq(Lines)
  BY DEF Reading, CanRead
<1>2. NextLine \in Lines
  BY <1>1 DEF NextLine
<1>3. \A k \in Tokens : Scan(NextLine)[k] \in Words
  BY <1>2, LineWords DEF Scan, Reading
<1> QED
  BY <1>1, <1>2, <1>3 DEF Scan

LEMMA ReadingInit == Init => Reading
<1> SUFFICES ASSUME Init PROVE Reading
  OBVIOUS
<1>1. PICK n \in 0..MaxLines : file \in [1..n -> Lines]
  BY LinesAssumption DEF Init, GeneratorInit
<1>2. n \in Nat /\ file \in Seq(Lines) /\ Len(file) = n
  BY <1>1, LinesAssumption
<1>3. "" \in Words
  BY DEF Words
<1>4. tok \in [Tokens -> Words]
  BY <1>3 DEF Init, GeneratorInit
<1>5. Len(file) <= MaxLines /\ 0 \in 0..Len(file)
  BY <1>1, <1>2, LinesAssumption
<1> QED
  BY <1>2, <1>4, <1>5 DEF Init, GeneratorInit, Reading

\* The steps of the sequence, and those that leave it alone.
LEMMA ReadingStep == Reading /\ [Next]_vars => Reading'
<1> SUFFICES ASSUME Reading, [Next]_vars PROVE Reading'
  OBVIOUS
<1>1. CASE SkipComment
  BY <1>1 DEF SkipComment, CanRead, Reading
<1>2. CASE Pause \/ Malformed \/ Unknown \/ SpiLine \/ GpioLine
  <2>1. CanRead
    BY <1>2 DEF Pause, Malformed, Unknown, SpiLine, GpioLine, Read
  <2>2. tok' = Scan(NextLine) /\ stim_f_ln_num' = stim_f_ln_num + 1 /\ file' = file
    BY <1>2 DEF Pause, Malformed, Unknown, SpiLine, GpioLine, Read
  <2>3. gen_errors' = gen_errors \/ gen_errors' = gen_errors \cup {stim_f_ln_num + 1}
    BY <1>2 DEF Pause, Malformed, Unknown, SpiLine, GpioLine, Start, Error
  <2>4. gen' \in {"read", "pause", "grant"}
    BY <1>2, <2>1 DEF Pause, Malformed, Unknown, SpiLine, GpioLine, Start, CanRead
  <2> QED
    <3>1. stim_f_ln_num' \in 1..Len(file) /\ tok' \in [Tokens -> Words]
      BY <2>1, <2>2, NextLineFacts
    <3>2. gen_errors' \subseteq 1..MaxLines
      <4>1. stim_f_ln_num + 1 \in 1..MaxLines
        BY <2>2, <3>1, LinesAssumption DEF Reading
      <4> QED
        BY <2>3, <4>1 DEF Reading
    <3> QED
      BY <2>2, <2>4, <3>1, <3>2 DEF Reading
<1>3. CASE FinishItem \/ ItemReturned \/ EndOfFile \/ PauseOver
  BY <1>3 DEF FinishItem, ItemReturned, EndOfFile, PauseOver, Reading
<1>4. CASE UNCHANGED genVars
  BY <1>4 DEF genVars, Reading
<1>5. UNCHANGED genVars \/ GeneratorStep \/ PauseOver
  BY DEF Next, Running, Generate, SelectSequence, SpiTake, SpiFrame, SpiPublish, GpioDrive,
     GpioPublish, PauseEnds, EndPhase, vars
<1> QED
  BY <1>1, <1>2, <1>3, <1>4, <1>5 DEF GeneratorStep

-----------------------------------------------------------------------------
(* The handshake.                                                          *)

LEMMA ItemType ==
  ASSUME NEW t \in [Tokens -> Words], NEW id \in 1..MaxLines
  PROVE  SpiItem(id, t) \in SpiTransaction /\ GpioItem(id, t) \in GpioTransaction
<1>1. \A k \in Tokens : t[k] \in Words /\ Atoi(t[k]) \in Int /\ Atohex(t[k]) \in Int
  BY LinesAssumption
<1>2. \A n \in Int : n % 256 \in 0..255 /\ n % 8 \in 0..7 /\ n % 2 \in Bit
  BY DEF Bit
<1>3. \A b \in BOOLEAN : Flag(b) \in Bit
  BY DEF Flag, Bit
<1>4. SpiItem(id, t) \in SpiTransaction
  <2>1. Atoi(t[2]) % 256 \in 0..255 /\ Atohex(t[3]) % 256 \in 0..255 /\ 0 \in 0..255
    BY <1>1, <1>2
  <2>2. Flag(t[1] = "WR") \in Bit /\ Flag(t[1] # "WR" /\ t[4] = "SB_VERIFY") \in Bit
    BY <1>3
  <2> QED
    BY <2>1, <2>2 DEF SpiItem, SpiTransaction
<1>5. GpioItem(id, t) \in GpioTransaction
  <2>1. Atoi(t[2]) % 8 \in 0..7 /\ Atoi(t[4]) % 2 \in Bit /\ 0 \in Bit /\ t[1] \in Words
    BY <1>1, <1>2 DEF Bit
  <2>2. Flag(t[3] = "SET") \in Bit /\ Flag(t[3] # "SET" /\ t[5] = "SB_VERIFY") \in Bit
    BY <1>3
  <2> QED
    BY <2>1, <2>2 DEF GpioItem, GpioTransaction
<1> QED
  BY <1>4, <1>5

LEMMA HandshakeInit == Init => Handshake
<1> SUFFICES ASSUME Init PROVE Handshake
  OBVIOUS
<1>1. \A s \in Sequencers : Idle(s)
  BY DEF Init, PortInit, Idle
<1>2. gen = "read" /\ item = NoItem
  BY DEF Init, GeneratorInit
<1> QED
  BY <1>1, <1>2 DEF Init, PortInit, Handshake

\* Which stage the item on a sequencer is in.
LEMMA StageOf ==
  ASSUME Handshake, NEW s \in Sequencers
  PROVE  /\ CanGrant(s) => s = item.seqr /\ Asked(s)
         /\ arb_done[s] => s = item.seqr /\ Granted(s)
         /\ CanTake(s) => s = item.seqr /\ Sent(s)
         /\ driver[s] = "busy" => s = item.seqr /\ Taken(s)
         /\ gen = "item" /\ s = item.seqr /\ item_done[s] => Done(s)
<1>1. s # item.seqr => Idle(s)
  BY DEF Handshake
<1>2. s = item.seqr => Stage(s)
  BY DEF Handshake, NoItem
<1>3. arb_queue[s] \in BOOLEAN /\ arb_done[s] \in BOOLEAN
  BY DEF Handshake
<1> QED
  BY <1>1, <1>2, <1>3 DEF Stage, Asked, Granted, Sent, Taken, Done, Idle, CanGrant, CanTake

\* Whoever has an item leaves the other sequencer alone.
LEMMA HandshakeStep == Reading /\ Handshake /\ [Next]_vars => Handshake'
<1> SUFFICES ASSUME Reading, Handshake, [Next]_vars PROVE Handshake'
  OBVIOUS
<1>1. CASE SkipComment \/ Pause \/ Malformed \/ Unknown \/ EndOfFile \/ PauseOver
  <2>1. /\ gen \in {"read", "pause"} /\ gen' \in {"read", "pause", "dropped"}
        /\ UNCHANGED <<item, portVars>>
    BY <1>1 DEF SkipComment, Pause, Malformed, Unknown, EndOfFile, PauseOver, Read, CanRead
  <2> QED
    BY <2>1 DEF Handshake, portVars, Idle
<1>2. CASE SpiLine \/ GpioLine
  <2>1. gen = "read" /\ Scan(NextLine) \in [Tokens -> Words] /\ stim_f_ln_num + 1 \in 1..MaxLines
    <3>1. CanRead /\ gen = "read"
      BY <1>2 DEF SpiLine, GpioLine, Read, CanRead
    <3>2. Len(file) \in Nat /\ Len(file) <= MaxLines
      BY DEF Reading
    <3> QED
      BY <3>1, <3>2, NextLineFacts, LinesAssumption
  <2>2. PICK s \in Sequencers : \E txn \in Transaction(s) : Start(s, txn)
    BY <1>2, <2>1, ItemType DEF SpiLine, GpioLine, Transaction
  <2> PICK txn \in Transaction(s) : Start(s, txn)
    BY <2>2
  <2>3. \A r \in Sequencers : Idle(r)
    BY <2>1 DEF Handshake, NoItem
  <2>4. /\ item' = [seqr |-> s, txn |-> txn] /\ gen' = "grant"
        /\ arb_queue' = [arb_queue EXCEPT ![s] = TRUE]
        /\ arb_done' = arb_done /\ m_req_fifo' = m_req_fifo /\ item_done' = item_done
        /\ driver' = driver
    BY DEF Start, StartItem
  <2>5. Stage(s)' /\ \A r \in Sequencers : r # s => Idle(r)'
    BY <2>3, <2>4 DEF Handshake, Idle, Stage, Asked
  <2> QED
    BY <2>4, <2>5 DEF Handshake
<1>3. CASE FinishItem
  <2> DEFINE s == item.seqr
  <2>1. gen = "grant" /\ s \in Sequencers /\ Granted(s) /\ item.txn \in Transaction(s)
    BY <1>3, StageOf DEF FinishItem, SendRequest, Handshake
  <2>2. /\ arb_done' = [arb_done EXCEPT ![s] = FALSE]
        /\ m_req_fifo' = [m_req_fifo EXCEPT ![s] = Append(@, item.txn)]
        /\ item_done' = [item_done EXCEPT ![s] = FALSE]
        /\ arb_queue' = arb_queue /\ driver' = driver /\ gen' = "item" /\ item' = item
    BY <1>3 DEF FinishItem, SendRequest
  <2>3. Append(<<>>, item.txn) = <<item.txn>>
    OBVIOUS
  <2>4. Stage(s)' /\ \A r \in Sequencers : r # s => Idle(r)'
    BY <2>1, <2>2, <2>3 DEF Handshake, Granted, Idle, Stage, Sent
  <2> QED
    BY <2>1, <2>2, <2>4 DEF Handshake
<1>4. CASE ItemReturned
  <2>1. gen = "item" /\ gen' = "read" /\ item' = NoItem /\ UNCHANGED portVars
    BY <1>4 DEF ItemReturned
  <2>2. item.seqr \in Sequencers /\ Done(item.seqr)
    BY <1>4, <2>1, StageOf DEF ItemReturned, Handshake
  <2>3. \A r \in Sequencers : Idle(r)
    BY <2>2 DEF Handshake, Done, Idle
  <2> QED
    BY <2>1, <2>3 DEF Handshake, portVars, Idle
<1>5. CASE SelectSequence
  <2>1. PICK s \in Sequencers : Grant(s)
    BY <1>5 DEF SelectSequence
  <2>2. gen' = gen /\ item' = item
    BY <1>5 DEF SelectSequence, genVars
  <2>3. s = item.seqr /\ Asked(s)
    BY <2>1, StageOf DEF Grant
  <2>4. Stage(s)' /\ \A r \in Sequencers : r # s => Idle(r)'
    BY <2>1, <2>2, <2>3 DEF Handshake, Asked, Idle, Stage, Granted, Grant
  <2>5. gen \in {"grant", "item"} /\ item.txn \in Transaction(item.seqr)
    BY <2>3 DEF Handshake, Asked
  <2> QED
    BY <2>1, <2>2, <2>3, <2>4, <2>5 DEF Handshake, Grant
<1>6. CASE SpiTake
  <2>1. TakeItem("spi") /\ gen' = gen /\ item' = item
    BY <1>6 DEF SpiTake, genVars
  <2>2. "spi" = item.seqr /\ Sent("spi")
    BY <2>1, StageOf DEF TakeItem
  <2>3. Stage("spi")' /\ \A r \in Sequencers : r # "spi" => Idle(r)'
    BY <2>1, <2>2 DEF Handshake, Sent, Idle, Stage, Taken, TakeItem
  <2>4. gen \in {"grant", "item"} /\ item.txn \in Transaction(item.seqr)
    BY <2>2 DEF Handshake, Sent
  <2> QED
    BY <2>1, <2>2, <2>3, <2>4 DEF Handshake, TakeItem
<1>7. CASE SpiFrame \/ GpioDrive
  <2>1. gen' = gen /\ item' = item
    BY <1>7 DEF SpiFrame, GpioDrive, genVars
  <2>2. PICK s \in Sequencers : ItemDone(s) /\ (CanTake(s) \/ driver[s] = "busy")
    BY <1>7 DEF SpiFrame, GpioDrive
  <2>3. s = item.seqr /\ (Sent(s) \/ Taken(s))
    BY <2>2, StageOf
  <2>4. /\ gen = "item" /\ ~arb_queue[s] /\ ~arb_done[s] /\ m_req_fifo[s] = <<item.txn>>
    BY <2>3 DEF Sent, Taken
  <2>5. Tail(<<item.txn>>) = <<>>
    OBVIOUS
  <2>6. Stage(s)' /\ \A r \in Sequencers : r # s => Idle(r)'
    BY <2>1, <2>2, <2>3, <2>4, <2>5 DEF Handshake, Idle, Stage, Done, ItemDone
  <2>7. item.txn \in Transaction(item.seqr)
    BY <2>4 DEF Handshake
  <2> QED
    BY <2>1, <2>2, <2>3, <2>4, <2>6, <2>7 DEF Handshake, ItemDone
<1>8. CASE UNCHANGED <<gen, item, portVars>>
  BY <1>8 DEF Handshake, portVars, Idle, Stage, Asked, Granted, Sent, Taken, Done
<1>9. CASE SpiPublish \/ GpioPublish \/ EndPhase \/ UNCHANGED vars
  <2> UNCHANGED <<gen, item, portVars>>
    BY <1>9 DEF SpiPublish, GpioPublish, EndPhase, vars, genVars
  <2> QED
    BY <1>8
<1> QED
  BY <1>1, <1>2, <1>3, <1>4, <1>5, <1>6, <1>7, <1>9
  DEF Next, Running, Generate, GeneratorStep, PauseEnds

-----------------------------------------------------------------------------
(* The monitors and the values.                                            *)

LEMMA MonitorsInit == Init => Monitors
BY DEF Init, PortInit, Monitors

\* What the sequence does leaves the monitors alone, and does not touch the
\* item of a frame.
LEMMA GenerateMonitors ==
  ASSUME Handshake, Monitors, GeneratorStep \/ PauseOver, UNCHANGED <<spiSide, gpioSide>>
  PROVE  Monitors'
<1>1. driver' = driver
  BY DEF GeneratorStep, SkipComment, Pause, Malformed, Unknown, SpiLine, GpioLine, Start, StartItem,
     FinishItem, SendRequest, ItemReturned, EndOfFile, PauseOver, portVars
<1>2. driver["spi"] # "busy"
  <2> SUFFICES ASSUME driver["spi"] = "busy" PROVE FALSE
    OBVIOUS
  <2>1. "spi" = item.seqr /\ Taken("spi")
    BY StageOf
  <2>2. gen = "item" /\ ~item_done[item.seqr]
    BY <2>1 DEF Taken
  <2> QED
    BY <2>2 DEF GeneratorStep, SkipComment, Pause, Malformed, Unknown, SpiLine, GpioLine, Read,
       CanRead, FinishItem, ItemReturned, EndOfFile, PauseOver
<1>3. UNCHANGED <<spi_intents, received, gpio_intents>>
  BY DEF spiSide, gpioSide
<1> QED
  BY <1>1, <1>2, <1>3 DEF Monitors

LEMMA MonitorsStep == Handshake /\ Monitors /\ [Next]_vars => Monitors'
<1> SUFFICES ASSUME Handshake, Monitors, [Next]_vars PROVE Monitors'
  OBVIOUS
<1>1. CASE Generate \/ PauseEnds
  BY <1>1, GenerateMonitors DEF Generate, PauseEnds
<1>2. CASE SelectSequence
  <2>1. PICK s \in Sequencers : Grant(s)
    BY <1>2 DEF SelectSequence
  <2>2. s = item.seqr /\ Asked(s)
    BY <2>1, StageOf DEF Grant
  <2>3. driver["spi"] = "select" /\ driver' = [driver EXCEPT ![s] = "peek"]
    BY <2>1, <2>2 DEF Handshake, Idle, Asked, Grant
  <2>4. received = <<>> /\ gpio_intents = <<>> /\ spi_intents = <<>>
    <3>1. received = <<>> /\ gpio_intents = <<>>
      BY <1>2 DEF SelectSequence, Unsettled, MonitorDue
    <3> QED
      BY <2>3, <3>1 DEF Monitors
  <2>5. driver'["spi"] # "busy" /\ UNCHANGED <<spi_intents, received, gpio_intents>>
    BY <1>2, <2>3 DEF SelectSequence, spiSide, gpioSide, Handshake
  <2> QED
    BY <2>4, <2>5 DEF Monitors
<1>3. CASE SpiTake
  <2>1. "spi" = item.seqr /\ Sent("spi")
    BY <1>3, StageOf DEF SpiTake, TakeItem
  <2>2. received = <<>> /\ gpio_intents = <<>> /\ spi_intents = <<>>
    BY <2>1 DEF Monitors, Sent
  <2>3. spi_intents' = Append(<<>>, Head(<<item.txn>>))
    BY <1>3, <2>1, <2>2 DEF SpiTake, Sent
  <2>4. spi_intents' = <<item.txn>>
    BY <2>3
  <2>5. driver'["spi"] = "busy" /\ UNCHANGED <<item, received, gpio_intents>>
    BY <1>3 DEF SpiTake, TakeItem, genVars, gpioSide, Handshake
  <2> QED
    BY <2>2, <2>4, <2>5 DEF Monitors
<1>4. CASE SpiFrame
  <2>1. "spi" = item.seqr /\ Taken("spi")
    BY <1>4, StageOf DEF SpiFrame
  <2>2. spi_intents = <<item.txn>> /\ gpio_intents = <<>>
    BY <2>1 DEF Monitors, Taken
  <2>3. received' = <<received'[1]>> /\ spi_intents' = spi_intents /\ gpio_intents' = gpio_intents
    BY <1>4 DEF SpiFrame, gpioSide
  <2>4. \A s \in Sequencers : driver'[s] = "select"
    BY <1>4, <2>1 DEF SpiFrame, ItemDone, Handshake, Idle
  <2> QED
    BY <2>2, <2>3, <2>4 DEF Monitors
<1>5. CASE SpiPublish
  <2>1. driver["spi"] # "busy" /\ spi_intents = <<spi_intents[1]>> /\ received # <<>>
    BY <1>5 DEF SpiPublish, Monitors
  <2>2. spi_intents' = <<>> /\ received' = <<>>
    <3>1. Tail(<<spi_intents[1]>>) = <<>>
      OBVIOUS
    <3> QED
      BY <1>5, <2>1, <3>1 DEF SpiPublish
  <2>3. UNCHANGED <<driver, gpio_intents>>
    BY <1>5 DEF SpiPublish, portVars, gpioSide
  <2> QED
    BY <2>1, <2>2, <2>3 DEF Monitors
<1>6. CASE GpioDrive
  <2>1. "gpio" = item.seqr /\ Sent("gpio")
    BY <1>6, StageOf DEF GpioDrive
  <2>2. received = <<>> /\ gpio_intents = <<>> /\ driver["spi"] = "select"
    BY <2>1 DEF Monitors, Sent, Handshake, Idle
  <2>3. PICK tr : gpio_intents' = Append(gpio_intents, tr)
    BY <1>6 DEF GpioDrive
  <2>4. gpio_intents' = <<tr>>
    BY <2>2, <2>3
  <2>5. \A s \in Sequencers : driver'[s] = "select"
    BY <1>6, <2>2 DEF GpioDrive, ItemDone, Handshake
  <2>6. UNCHANGED <<spi_intents, received>>
    BY <1>6 DEF GpioDrive, spiSide
  <2> QED
    BY <2>2, <2>4, <2>5, <2>6 DEF Monitors
<1>7. CASE GpioPublish
  <2>1. gpio_intents' = <<>>
    <3>1. Tail(<<gpio_intents[1]>>) = <<>>
      OBVIOUS
    <3> QED
      BY <1>7, <3>1 DEF GpioPublish, Monitors
  <2>2. UNCHANGED <<driver, item, spi_intents, received>>
    BY <1>7 DEF GpioPublish, portVars, genVars, spiSide
  <2> QED
    BY <2>1, <2>2 DEF Monitors
<1>8. CASE EndPhase \/ UNCHANGED vars
  <2> UNCHANGED <<driver, item, spi_intents, received, gpio_intents>>
    BY <1>8 DEF EndPhase, vars, genVars, portVars, spiSide, gpioSide
  <2> QED
    BY DEF Monitors
<1> QED
  BY <1>1, <1>2, <1>3, <1>4, <1>5, <1>6, <1>7, <1>8 DEF Next, Running

LEMMA ValuesInit == Init => Values
BY DEF Init, Values, Bit

LEMMA ValuesStep == Handshake /\ Values /\ [Next]_vars => Values'
<1> SUFFICES ASSUME Handshake, Values, [Next]_vars PROVE Values'
  OBVIOUS
<1>0. phase' \in {"run", "ended"}
  BY DEF Next, EndPhase, vars, Values
<1>1. CASE SpiFrame
  <2> DEFINE tr == Head(m_req_fifo["spi"])
  <2>1. "spi" = item.seqr /\ Taken("spi")
    BY <1>1, StageOf DEF SpiFrame
  <2>2. tr \in SpiTransaction
    <3>1. Head(<<item.txn>>) = item.txn
      OBVIOUS
    <3> QED
      BY <2>1, <3>1 DEF Taken, Handshake, Transaction
  <2>3. tr.addr \in 0..255 /\ tr.data \in 0..255
    BY <2>2 DEF SpiTransaction
  <2>4. regfile' = regfile \/ regfile' = [regfile EXCEPT ![tr.addr] = tr.data]
    BY <1>1 DEF SpiFrame, WriteReg
  <2> HIDE DEF tr
  <2>r. regfile \in [0..255 -> 0..255]
    BY DEF Values
  <2>a. PICK a \in 0..255, d \in 0..255 :
          regfile' = regfile \/ regfile' = [regfile EXCEPT ![a] = d]
    BY <2>3, <2>4
  <2>5. regfile' \in [0..255 -> 0..255]
    BY <2>a, <2>r
  <2>6. UNCHANGED <<gpio_in, if_errors>>
    BY <1>1 DEF SpiFrame, gpioSide
  <2> QED
    BY <1>0, <2>5, <2>6 DEF Values
<1>2. CASE GpioDrive
  <2> DEFINE tr == Head(m_req_fifo["gpio"])
  <2>1. "gpio" = item.seqr /\ Sent("gpio")
    BY <1>2, StageOf DEF GpioDrive
  <2>2. tr \in GpioTransaction
    <3>1. Head(<<item.txn>>) = item.txn
      OBVIOUS
    <3> QED
      BY <2>1, <3>1 DEF Sent, Handshake, Transaction
  <2>3. tr.gpio_offset \in 0..7 /\ tr.value \in Bit /\ tr.transaction_id \in 1..MaxLines
    BY <2>2 DEF GpioTransaction
  <2>4. /\ gpio_in' = gpio_in \/ gpio_in' = [gpio_in EXCEPT ![tr.gpio_offset] = tr.value]
        /\ if_errors' = if_errors \/ if_errors' = if_errors \cup {tr.transaction_id}
    BY <1>2 DEF GpioDrive
  <2> HIDE DEF tr
  <2>5. gpio_in' \in [0..7 -> Bit] /\ if_errors' \subseteq 1..MaxLines
    <3> DEFINE k == tr.gpio_offset
               v == tr.value
               e == tr.transaction_id
    <3>1. gpio_in \in [0..7 -> Bit] /\ if_errors \subseteq 1..MaxLines
      BY DEF Values
    <3>2. /\ k \in 0..7 /\ v \in Bit /\ e \in 1..MaxLines
          /\ gpio_in' = gpio_in \/ gpio_in' = [gpio_in EXCEPT ![k] = v]
          /\ if_errors' = if_errors \/ if_errors' = if_errors \cup {e}
      BY <2>3, <2>4
    <3> HIDE DEF k, v, e
    <3>3. gpio_in' \in [0..7 -> Bit]
      BY <3>1, <3>2
    <3>4. if_errors' \subseteq 1..MaxLines
      BY <3>1, <3>2
    <3> QED
      BY <3>3, <3>4
  <2>6. regfile' = regfile
    BY <1>2 DEF GpioDrive, spiSide
  <2> QED
    BY <1>0, <2>5, <2>6 DEF Values
<1>3. CASE \/ Generate \/ SelectSequence \/ SpiTake \/ SpiPublish \/ GpioPublish \/ PauseEnds
           \/ EndPhase \/ UNCHANGED vars
  <2>1. UNCHANGED <<regfile, gpio_in, if_errors>>
    BY <1>3 DEF Generate, SelectSequence, SpiTake, SpiPublish, GpioPublish, PauseEnds, EndPhase,
       vars, spiSide, gpioSide
  <2> QED
    BY <1>0, <2>1 DEF Values
<1> QED
  BY <1>1, <1>2, <1>3 DEF Next, Running

Inv == Reading /\ Handshake /\ Monitors /\ Values

LEMMA Invariant == Spec => []Inv
<1>1. Init => Inv
  BY ReadingInit, HandshakeInit, MonitorsInit, ValuesInit DEF Inv
<1>2. Inv /\ [Next]_vars => Inv'
  BY ReadingStep, HandshakeStep, MonitorsStep, ValuesStep DEF Inv
<1> QED
  BY <1>1, <1>2, PTL DEF Spec

(* Type correctness of the test: at most one item is in each FIFO, and     *)
(* each monitor has at most one transaction to publish (tb_test.sv,        *)
(* tb_monitors.sv).                                                        *)
THEOREM TypeCorrect == Spec => []TypeOK
<1>1. Inv => TypeOK
  <2> SUFFICES ASSUME Inv PROVE TypeOK
    OBVIOUS
  <2>1. \A s \in Sequencers : m_req_fifo[s] = <<>> \/ m_req_fifo[s] = <<item.txn>>
    <3> TAKE s \in Sequencers
    <3>1. Idle(s) \/ Stage(s)
      BY DEF Inv, Handshake, NoItem
    <3> QED
      BY <3>1 DEF Idle, Stage, Asked, Granted, Sent, Taken, Done
  <2>2. \A s \in Sequencers : Len(m_req_fifo[s]) <= 1
    <3>1. Len(<<item.txn>>) <= 1 /\ Len(<<>>) <= 1
      OBVIOUS
    <3> QED
      BY <2>1, <3>1
  <2>3. Len(spi_intents) <= 1 /\ Len(received) <= 1 /\ Len(gpio_intents) <= 1
    <3>1. \A x : Len(<<x>>) <= 1 /\ Len(<<>>) <= 1
      OBVIOUS
    <3> QED
      BY <3>1 DEF Inv, Monitors
  <2> QED
    BY <2>2, <2>3 DEF Inv, Reading, Handshake, Values, Bit, TypeOK
<1> QED
  BY <1>1, Invariant, PTL

(* The input pins of the design do not move while a frame is on the bus:   *)
(* the sequence has one item under way, and the GPIO driver moves a pin    *)
(* only for an item of its own (tb_generators.sv:136-138, 173-175).        *)
THEOREM StableInputsCorrect == Spec => StableInputs
<1>1. Inv /\ [Next]_vars => (gpio_in' # gpio_in => driver["spi"] # "busy")
  <2> SUFFICES ASSUME Inv, [Next]_vars, gpio_in' # gpio_in PROVE driver["spi"] # "busy"
    OBVIOUS
  <2>1. GpioDrive
    BY DEF Next, Running, Generate, SelectSequence, SpiTake, SpiFrame, SpiPublish, GpioPublish,
       PauseEnds, EndPhase, vars, gpioSide
  <2>2. "gpio" = item.seqr /\ Sent("gpio")
    BY <2>1, StageOf DEF GpioDrive, Inv
  <2> QED
    BY <2>2 DEF Inv, Handshake, Idle
<1> QED
  BY <1>1, Invariant, PTL DEF Spec, StableInputs

-----------------------------------------------------------------------------
(* What a file means, unfolded.  Its recursion is over the lines, so that  *)
(* a function for the first m lines is extended to one for the next.       *)

LessNat == {ss \in Nat \X Nat : ss[1] < ss[2]}

\* Induction on the natural numbers, for a set instead of a predicate.
LEMMA SetInduction ==
  ASSUME NEW T, 0 \in T, \A n \in Nat : n \in T => n + 1 \in T
  PROVE  Nat \subseteq T
<1> DEFINE M == Nat \ T
<1>1. IsWellFoundedOn(LessNat, Nat)
  BY NatLessThanWellFounded DEF OpToRel, LessNat
<1>2. \A x, y \in Nat : <<y, x>> \in LessNat <=> y < x
  BY DEF LessNat
<1> SUFFICES ASSUME M # {} PROVE FALSE
  OBVIOUS
<1>3. PICK x \in M : \A y \in M : ~(<<y, x>> \in LessNat)
  BY <1>1, WFMin
<1>4. x # 0
  BY <1>3
<1>5. x - 1 \in Nat /\ x - 1 < x
  BY <1>3, <1>4
<1>6. x - 1 \in T
  BY <1>2, <1>3, <1>5
<1> QED
  BY <1>3, <1>5, <1>6

LEMMA EffectsUnfold ==
  ASSUME NEW lines \in Seq(Lines)
  PROVE  /\ Effects(lines)[0] = NoEffect
         /\ \A n \in 1..Len(lines) :
              Effects(lines)[n] = LineEffect(Effects(lines)[n - 1], n, lines[n])
<1> DEFINE Unfolds(x, m) ==
             x = [n \in 0..m |-> IF n = 0 THEN NoEffect ELSE LineEffect(x[n - 1], n, lines[n])]
           T == {m \in Nat : \E x : Unfolds(x, m)}
<1>1. 0 \in T
  <2> DEFINE e == [n \in 0..0 |-> NoEffect]
  <2>1. Unfolds(e, 0)
    OBVIOUS
  <2> QED
    BY <2>1
<1>2. ASSUME NEW m \in Nat, m \in T PROVE m + 1 \in T
  <2>1. PICK e : Unfolds(e, m)
    BY <1>2
  <2> DEFINE last == LineEffect(e[m], m + 1, lines[m + 1])
             g == [n \in 0..(m + 1) |-> IF n <= m THEN e[n] ELSE last]
  <2>2. \A n \in 0..m : e[n] = IF n = 0 THEN NoEffect ELSE LineEffect(e[n - 1], n, lines[n])
    BY <2>1
  <2>3. ASSUME NEW n \in 0..(m + 1)
        PROVE  g[n] = IF n = 0 THEN NoEffect ELSE LineEffect(g[n - 1], n, lines[n])
    <3>1. CASE n = m + 1
      BY <3>1
    <3>2. CASE n \in 0..m
      BY <2>2, <3>2
    <3> QED
      BY <3>1, <3>2
  <2>4. Unfolds(g, m + 1)
    <3>1. g = [n \in 0..(m + 1) |-> g[n]]
      OBVIOUS
    <3> HIDE DEF g
    <3> QED
      BY <2>3, <3>1
  <2>5. \E x : Unfolds(x, m + 1)
    <3> HIDE DEF Unfolds, g
    <3> QED
      BY <2>4
  <2> HIDE DEF Unfolds
  <2> QED
    BY <2>5
<1>3. Len(lines) \in T
  <2>1. Nat \subseteq T
    <3> HIDE DEF T
    <3> QED
      BY <1>1, <1>2, SetInduction
  <2> QED
    BY <2>1
<1>4. Unfolds(Effects(lines), Len(lines))
  <2>1. \E x : Unfolds(x, Len(lines))
    BY <1>3
  <2>2. Effects(lines) = CHOOSE x : Unfolds(x, Len(lines))
    BY DEF Effects
  <2> HIDE DEF Unfolds
  <2> QED
    BY <2>1, <2>2
<1> HIDE DEF T
<1>5. 0 \in 0..Len(lines)
  OBVIOUS
<1>6. ASSUME NEW f, Unfolds(f, Len(lines)), NEW n \in 0..Len(lines)
      PROVE  f[n] = IF n = 0 THEN NoEffect ELSE LineEffect(f[n - 1], n, lines[n])
  BY <1>6
<1> QED
  BY <1>4, <1>5, <1>6

\* An effect has all its parts.
Parts(e) == e = [mem |-> e.mem, pins |-> e.pins, spi |-> e.spi, gpio |-> e.gpio,
                 bad |-> e.bad, unknown |-> e.unknown]

LEMMA RecordParts ==
  \A m, p, s, g, b, u :
     Parts([mem |-> m, pins |-> p, spi |-> s, gpio |-> g, bad |-> b, unknown |-> u])
BY DEF Parts

LEMMA Reported ==
  ASSUME NEW e, Parts(e), NEW id
  PROVE  LET f == [e EXCEPT !.bad = @ \cup {id}]
         IN /\ Parts(f) /\ f.bad = e.bad \cup {id}
            /\ f.mem = e.mem /\ f.pins = e.pins /\ f.spi = e.spi /\ f.gpio = e.gpio
            /\ f.unknown = e.unknown
<1>1. DOMAIN e = {"mem", "pins", "spi", "gpio", "bad", "unknown"}
  BY DEF Parts
<1> DEFINE f == [e EXCEPT !.bad = @ \cup {id}]
<1>2. DOMAIN f = DOMAIN e /\ \A k \in DOMAIN e : f[k] = IF k = "bad" THEN e[k] \cup {id} ELSE e[k]
  OBVIOUS
<1>3. /\ f.bad = e.bad \cup {id} /\ f.mem = e.mem /\ f.pins = e.pins /\ f.spi = e.spi
      /\ f.gpio = e.gpio /\ f.unknown = e.unknown
  BY <1>1, <1>2
<1>4. f = [mem |-> f.mem, pins |-> f.pins, spi |-> f.spi, gpio |-> f.gpio,
           bad |-> f.bad, unknown |-> f.unknown]
  BY <1>1
<1> QED
  BY <1>3, <1>4 DEF Parts

LEMMA EffectParts ==
  ASSUME NEW lines \in Seq(Lines), NEW n \in 0..Len(lines)
  PROVE  Parts(Effects(lines)[n])
<1> DEFINE T == {m \in Nat : m <= Len(lines) => Parts(Effects(lines)[m])}
<1>1. 0 \in T
  <2>1. Effects(lines)[0] = NoEffect
    BY EffectsUnfold
  <2>2. Parts(NoEffect)
    BY RecordParts DEF NoEffect
  <2> QED
    BY <2>1, <2>2
<1>2. ASSUME NEW m \in Nat, m \in T PROVE m + 1 \in T
  <2> SUFFICES ASSUME m + 1 <= Len(lines) PROVE Parts(Effects(lines)[m + 1])
    OBVIOUS
  <2>1. Effects(lines)[m + 1] = LineEffect(Effects(lines)[m], m + 1, lines[m + 1])
    BY EffectsUnfold
  <2>2. ASSUME NEW e, NEW id, NEW line, Parts(e) PROVE Parts(LineEffect(e, id, line))
    <3>1. ASSUME NEW t PROVE Parts(SpiEffect(e, id, t)) /\ Parts(GpioEffect(e, id, t))
      BY <2>2 DEF SpiEffect, GpioEffect, Parts
    <3>2. Parts([e EXCEPT !.bad = @ \cup {id}])
      BY <2>2, Reported
    <3> QED
      BY <2>2, <3>1, <3>2 DEF LineEffect
  <2> QED
    BY <1>2, <2>1, <2>2
<1>3. Nat \subseteq T
  <2> HIDE DEF T
  <2> QED
    BY <1>1, <1>2, SetInduction
<1> QED
  BY <1>3

-----------------------------------------------------------------------------
(* What a line means is what is done when it is read, and when its item is *)
(* driven.                                                                 *)

\* With all its tokens, a line is read as what it says.
LEMMA OwnScan ==
  ASSUME NEW line \in Lines, OwnTokens(line), NEW id
  PROVE  LET t == Scan(line)
             o == Own(line)
         IN /\ t[0] = o[0] /\ o[0] = line[1]
            /\ t[0] = "PAUSE" => t[1] = o[1]
            /\ t[0] = "SPI" /\ Len(line) >= 3 => SpiItem(id, t) = SpiItem(id, o)
            /\ t[0] = "GPIO" /\ Len(line) >= 3 => GpioItem(id, t) = GpioItem(id, o)
<1> DEFINE t == Scan(line)
           o == Own(line)
<1>1. line \in Seq(STRING) /\ Len(line) \in Nat
  BY LineWords
<1>2. \A k \in Tokens : k < Len(line) => t[k] = line[k + 1] /\ o[k] = line[k + 1]
  BY <1>1 DEF Scan, Own
<1>3. Len(line) >= 1
  BY <1>1 DEF OwnTokens
<1>4. t[0] = o[0] /\ o[0] = line[1]
  BY <1>1, <1>2, <1>3
<1>5. t[0] = "PAUSE" => t[1] = o[1]
  BY <1>1, <1>2, <1>4 DEF OwnTokens
<1>6. ASSUME t[0] = "SPI", Len(line) >= 3 PROVE SpiItem(id, t) = SpiItem(id, o)
  <2>1. t[1] = o[1] /\ t[2] = o[2] /\ t[1] = line[2]
    BY <1>1, <1>2, <1>6
  <2>2. t[3] = o[3] /\ (t[1] # "WR" => t[4] = o[4])
    BY <1>1, <1>2, <1>4, <1>6, <2>1 DEF OwnTokens
  <2> HIDE DEF t, o
  <2>3. (t[1] # "WR" /\ t[4] = "SB_VERIFY") = (o[1] # "WR" /\ o[4] = "SB_VERIFY")
    BY <2>1, <2>2
  <2> QED
    BY <2>1, <2>2, <2>3 DEF SpiItem
<1>7. ASSUME t[0] = "GPIO", Len(line) >= 3 PROVE GpioItem(id, t) = GpioItem(id, o)
  <2>1. Len(line) >= 5 /\ (line[4] # "SET" => Len(line) >= 6)
    BY <1>4, <1>7 DEF OwnTokens
  <2>2. t[1] = o[1] /\ t[2] = o[2] /\ t[3] = o[3] /\ t[4] = o[4] /\ t[3] = line[4]
    BY <1>1, <1>2, <2>1
  <2>3. t[3] # "SET" => t[5] = o[5]
    BY <1>1, <1>2, <2>1, <2>2
  <2> HIDE DEF t, o
  <2>4. (t[3] # "SET" /\ t[5] = "SB_VERIFY") = (o[3] # "SET" /\ o[5] = "SB_VERIFY")
    BY <2>2, <2>3
  <2> QED
    BY <2>2, <2>4 DEF GpioItem
<1> QED
  BY <1>4, <1>5, <1>6, <1>7

\* What an item changes.
SpiMeans(f, e, id, t) ==
  LET tr == SpiItem(id, t)
      read == [tr EXCEPT !.data = ReadReg(e.mem, e.pins, tr.addr)]
  IN /\ f.pins = e.pins /\ f.gpio = e.gpio /\ f.bad = e.bad /\ f.unknown = e.unknown
     /\ f.mem = IF t[1] = "WR" THEN WriteReg(e.mem, tr.addr, tr.data) ELSE e.mem
     /\ f.spi = Append(e.spi, IF t[1] = "WR" THEN Entry(tr, "write")
                              ELSE Entry(tr, SpiVerdict(read)))

GpioMeans(f, e, id, t) ==
  LET tr == GpioItem(id, t)
      read == [tr EXCEPT !.value = GetGpio(e.mem, e.pins, t[1], tr.gpio_offset)]
  IN /\ f.mem = e.mem /\ f.spi = e.spi /\ f.bad = e.bad
     /\ f.unknown = IF t[1] \in Signals THEN e.unknown ELSE e.unknown \cup {id}
     /\ f.pins = IF t[3] = "SET" /\ t[1] = "gpio_in"
                 THEN [e.pins EXCEPT ![tr.gpio_offset] = tr.value] ELSE e.pins
     /\ f.gpio = Append(e.gpio, IF t[3] = "SET" THEN Entry(tr, "no compare")
                                ELSE Entry(tr, GpioVerdict(read)))

LEMMA SpiEffectParts ==
  ASSUME NEW e, Parts(e), NEW id, NEW t
  PROVE  SpiMeans(SpiEffect(e, id, t), e, id, t)
<1>1. DOMAIN e = {"mem", "pins", "spi", "gpio", "bad", "unknown"}
  BY DEF Parts
<1>2. ASSUME NEW m, NEW q
      PROVE  LET f == [e EXCEPT !.mem = m, !.spi = Append(@, q)]
             IN /\ f.mem = m /\ f.spi = Append(e.spi, q)
                /\ f.pins = e.pins /\ f.gpio = e.gpio /\ f.bad = e.bad /\ f.unknown = e.unknown
  BY <1>1
<1>3. ASSUME NEW q
      PROVE  LET f == [e EXCEPT !.spi = Append(@, q)]
             IN /\ f.mem = e.mem /\ f.spi = Append(e.spi, q)
                /\ f.pins = e.pins /\ f.gpio = e.gpio /\ f.bad = e.bad /\ f.unknown = e.unknown
  BY <1>1
<1> QED
  BY <1>2, <1>3 DEF SpiEffect, SpiMeans

LEMMA GpioEffectParts ==
  ASSUME NEW e, Parts(e), NEW id, NEW t
  PROVE  GpioMeans(GpioEffect(e, id, t), e, id, t)
<1>1. DOMAIN e = {"mem", "pins", "spi", "gpio", "bad", "unknown"}
  BY DEF Parts
<1> DEFINE seen == [e EXCEPT !.unknown = IF t[1] \in Signals THEN @ ELSE @ \cup {id}]
           tr == GpioItem(id, t)
           read == [tr EXCEPT !.value = GetGpio(e.mem, e.pins, t[1], tr.gpio_offset)]
<1>2. /\ DOMAIN seen = DOMAIN e
      /\ seen.unknown = IF t[1] \in Signals THEN e.unknown ELSE e.unknown \cup {id}
      /\ seen.mem = e.mem /\ seen.spi = e.spi /\ seen.bad = e.bad /\ seen.pins = e.pins
      /\ seen.gpio = e.gpio
  BY <1>1
<1>3. ASSUME NEW g, DOMAIN g = DOMAIN e, NEW q
      PROVE  LET f == [g EXCEPT !.gpio = Append(@, q)]
             IN /\ f.pins = g.pins /\ f.gpio = Append(g.gpio, q)
                /\ f.mem = g.mem /\ f.spi = g.spi /\ f.bad = g.bad /\ f.unknown = g.unknown
  BY <1>1, <1>3
<1>4. CASE t[3] = "SET"
  <2> DEFINE pins == IF t[1] = "gpio_in" THEN [seen.pins EXCEPT ![tr.gpio_offset] = tr.value]
                     ELSE seen.pins
  <2>1. GpioEffect(e, id, t)
          = [seen EXCEPT !.pins = pins, !.gpio = Append(@, Entry(tr, "no compare"))]
    BY <1>4 DEF GpioEffect
  <2> HIDE DEF seen, tr
  <2>2. pins = IF t[1] = "gpio_in" THEN [e.pins EXCEPT ![tr.gpio_offset] = tr.value] ELSE e.pins
    BY <1>2
  <2> HIDE DEF pins, read
  <2>3. LET f == GpioEffect(e, id, t)
        IN /\ f.pins = pins /\ f.gpio = Append(seen.gpio, Entry(tr, "no compare"))
           /\ f.mem = seen.mem /\ f.spi = seen.spi /\ f.bad = seen.bad /\ f.unknown = seen.unknown
    BY <1>1, <1>2, <2>1
  <2> QED
    BY <1>2, <1>4, <2>2, <2>3 DEF tr, GpioMeans
<1>5. CASE t[3] # "SET"
  <2>1. GpioEffect(e, id, t) = [seen EXCEPT !.gpio = Append(@, Entry(tr, GpioVerdict(read)))]
    BY <1>5 DEF GpioEffect
  <2> HIDE DEF seen
  <2> QED
    BY <1>2, <1>3, <1>5, <2>1 DEF GpioMeans
<1> QED
  BY <1>4, <1>5

\* The effect of the next line that is read.
LEMMA NextEffect ==
  ASSUME Reading, CanRead
  PROVE  LET e == Effects(file)
             n == stim_f_ln_num
         IN /\ Parts(e[n]) /\ Parts(e[n + 1])
            /\ e[n + 1] = LineEffect(e[n], n + 1, NextLine)
<1>1. file \in Seq(Lines) /\ stim_f_ln_num \in Nat /\ stim_f_ln_num + 1 \in 1..Len(file)
  BY NextLineFacts DEF Reading
<1>2. stim_f_ln_num + 1 - 1 = stim_f_ln_num /\ stim_f_ln_num \in 0..Len(file)
      /\ stim_f_ln_num + 1 \in 0..Len(file)
  BY <1>1
<1> QED
  BY <1>1, <1>2, EffectsUnfold, EffectParts DEF NextLine

\* A step that leaves alone what happens and is not about a line.
Unmoved ==
  /\ UNCHANGED <<file, stim_f_ln_num, gen_errors, regfile, gpio_in, if_errors>>
  /\ SpiJudged' = SpiJudged /\ GpioJudged' = GpioJudged
  /\ (Pending' <=> Pending) /\ (Pending => item' = item)

LEMMA UnmovedFollows == Unmoved /\ Meant /\ Following => Meant' /\ Following'
<1> SUFFICES ASSUME Unmoved, Meant, Following PROVE Meant' /\ Following'
  OBVIOUS
<1>1. Driven' = Driven
  BY DEF Unmoved, Driven
<1>2. Following'
  BY <1>1 DEF Unmoved, Following
<1>3. Meant'
  BY DEF Unmoved, Meant
<1> QED
  BY <1>2, <1>3

\* A line that starts no item.
LEMMA OtherLines ==
  ASSUME OwnLines, Inv, Meant, Following, SkipComment \/ Pause \/ Malformed \/ Unknown,
         UNCHANGED <<spiSide, gpioSide>>
  PROVE  Meant' /\ Following'
<1> DEFINE n == stim_f_ln_num
           e == Effects(file)
<1>1. CanRead /\ gen = "read" /\ file' = file /\ stim_f_ln_num' = n + 1 /\ gen' \in {"read", "pause"}
  BY DEF SkipComment, Pause, Malformed, Unknown, Read, CanRead
<1>2. ~Pending /\ ~Pending' /\ Driven = n /\ Driven' = n + 1
  BY <1>1 DEF Pending, Driven
<1>3. Parts(e[n]) /\ e[n + 1] = LineEffect(e[n], n + 1, NextLine)
  BY <1>1, NextEffect DEF Inv
<1>4. NextLine \in Lines /\ OwnTokens(NextLine) /\ n + 1 \in 1..Len(file)
  BY <1>1, NextLineFacts DEF OwnLines, Inv
<1> DEFINE f == e[n + 1]
           badPause == Own(NextLine)[0] = "PAUSE" /\ Own(NextLine)[1] \notin {"NS", "US", "MS"}
           tooShort == Own(NextLine)[0] # "PAUSE" /\ Len(NextLine) < 3
<1>5. \/ f = e[n] /\ gen_errors' = gen_errors
      \/ f = [e[n] EXCEPT !.bad = @ \cup {n + 1}] /\ gen_errors' = gen_errors \cup {n + 1}
  <2>1. CASE SkipComment
    BY <1>3, <2>1 DEF SkipComment, LineEffect
  <2>2. CASE Pause \/ Malformed \/ Unknown
    <3>1. ~IsComment(NextLine)
      BY <2>2 DEF Pause, Malformed, Unknown, Read
    <3>2. /\ Scan(NextLine)[0] = Own(NextLine)[0]
          /\ Scan(NextLine)[0] = "PAUSE" => Scan(NextLine)[1] = Own(NextLine)[1]
      BY <1>4, OwnScan
    <3>3. IF badPause \/ tooShort THEN gen_errors' = gen_errors \cup {n + 1}
          ELSE gen_errors' = gen_errors /\ Own(NextLine)[0] \notin {"SPI", "GPIO"}
      <4>1. Len(NextLine) \in Nat
        BY <1>4, LineWords
      <4> QED
        BY <2>2, <3>2, <4>1 DEF Pause, Malformed, Unknown, Error
    <3> QED
      BY <1>3, <3>1, <3>3 DEF LineEffect
  <2> QED
    BY <2>1, <2>2
<1>6. /\ f.mem = e[n].mem /\ f.pins = e[n].pins /\ f.spi = e[n].spi /\ f.gpio = e[n].gpio
      /\ f.unknown = e[n].unknown /\ (gen_errors = e[n].bad => gen_errors' = f.bad)
  <2>1. CASE f = [e[n] EXCEPT !.bad = @ \cup {n + 1}] /\ gen_errors' = gen_errors \cup {n + 1}
    <3> DEFINE g == [e[n] EXCEPT !.bad = @ \cup {n + 1}]
    <3>1. /\ g.bad = e[n].bad \cup {n + 1} /\ g.mem = e[n].mem /\ g.pins = e[n].pins
          /\ g.spi = e[n].spi /\ g.gpio = e[n].gpio /\ g.unknown = e[n].unknown
      BY <1>3, Reported
    <3>2. f = g
      BY <2>1
    <3> HIDE DEF g, f
    <3> QED
      BY <2>1, <3>1, <3>2
  <2> QED
    BY <1>5, <2>1
<1>7. /\ UNCHANGED <<regfile, gpio_in, if_errors>>
      /\ SpiJudged' = SpiJudged /\ GpioJudged' = GpioJudged
  BY DEF spiSide, gpioSide, SpiJudged, GpioJudged
<1> HIDE DEF f
<1>8. Following'
  <2>1. Effects(file)'[Driven'] = f /\ Effects(file)'[stim_f_ln_num'] = f
    BY <1>1, <1>2 DEF f
  <2> QED
    BY <1>2, <1>6, <1>7, <2>1 DEF Following
<1>9. Meant'
  BY <1>2 DEF Meant
<1> QED
  BY <1>8, <1>9

\* A line that starts an item.
LEMMA ItemLines ==
  ASSUME OwnLines, Inv, Meant, Following, SpiLine \/ GpioLine, UNCHANGED <<spiSide, gpioSide>>
  PROVE  Meant' /\ Following'
<1> DEFINE n == stim_f_ln_num
           e == Effects(file)
           f == e[n + 1]
           t == Own(NextLine)
<1>1. CanRead /\ gen = "read" /\ file' = file /\ stim_f_ln_num' = n + 1 /\ gen' = "grant"
      /\ gen_errors' = gen_errors /\ ~IsComment(NextLine) /\ Len(NextLine) >= 3
  BY DEF SpiLine, GpioLine, Read, CanRead, Start
<1>2. NextLine \in Lines /\ OwnTokens(NextLine) /\ n + 1 \in 1..Len(file) /\ n \in Nat
      /\ Len(NextLine) \in Nat
  BY <1>1, NextLineFacts, LineWords DEF OwnLines, Inv, Reading
<1>3. ~Pending /\ Pending' /\ Driven = n /\ Driven' = n
  BY <1>1, <1>2 DEF Pending, Driven
<1>4. \/ t[0] = "SPI" /\ item' = [seqr |-> "spi", txn |-> SpiItem(n + 1, t)]
      \/ t[0] = "GPIO" /\ item' = [seqr |-> "gpio", txn |-> GpioItem(n + 1, t)]
  BY <1>1, <1>2, OwnScan DEF SpiLine, GpioLine, Start
<1>5. f.bad = e[n].bad
  <2>1. Parts(e[n]) /\ f = LineEffect(e[n], n + 1, NextLine)
    BY <1>1, NextEffect DEF Inv
  <2>2. f = SpiEffect(e[n], n + 1, t) \/ f = GpioEffect(e[n], n + 1, t)
    BY <1>1, <1>2, <1>4, <2>1 DEF LineEffect
  <2>3. SpiEffect(e[n], n + 1, t).bad = e[n].bad /\ GpioEffect(e[n], n + 1, t).bad = e[n].bad
    <3>1. /\ SpiMeans(SpiEffect(e[n], n + 1, t), e[n], n + 1, t)
          /\ GpioMeans(GpioEffect(e[n], n + 1, t), e[n], n + 1, t)
      BY <2>1, SpiEffectParts, GpioEffectParts
    <3> QED
      BY <3>1 DEF SpiMeans, GpioMeans
  <2> HIDE DEF f
  <2> QED
    BY <2>2, <2>3
<1>6. Meant'
  <2>1. file'[stim_f_ln_num'] = NextLine
    BY <1>1 DEF NextLine
  <2> HIDE DEF t
  <2> QED
    BY <1>1, <1>2, <1>4, <2>1 DEF Meant, t
<1>7. /\ UNCHANGED <<regfile, gpio_in, if_errors>>
      /\ SpiJudged' = SpiJudged /\ GpioJudged' = GpioJudged
  BY DEF spiSide, gpioSide, SpiJudged, GpioJudged
<1>8. Following'
  BY <1>1, <1>3, <1>5, <1>7 DEF Following
<1> QED
  BY <1>6, <1>8

\* The line of the item that is driven, and its effect.
LEMMA PendingEffect ==
  ASSUME Inv, Meant, Pending
  PROVE  LET n == stim_f_ln_num
             e == Effects(file)
             t == Own(file[n])
         IN /\ Driven = n - 1 /\ Parts(e[n - 1])
            /\ item.seqr = "spi" =>
                 item.txn = SpiItem(n, t) /\ SpiMeans(e[n], e[n - 1], n, t)
            /\ item.seqr = "gpio" =>
                 item.txn = GpioItem(n, t) /\ GpioMeans(e[n], e[n - 1], n, t)
<1> DEFINE n == stim_f_ln_num
           e == Effects(file)
           t == Own(file[n])
<1>1. file \in Seq(Lines) /\ n \in 1..Len(file) /\ Len(file) \in Nat
  BY DEF Inv, Reading, Meant
<1>2. Parts(e[n - 1]) /\ e[n] = LineEffect(e[n - 1], n, file[n])
  BY <1>1, EffectsUnfold, EffectParts
<1>3. ~IsComment(file[n]) /\ ~(Len(file[n]) < 3)
  <2>1. Len(file[n]) \in Nat
    BY <1>1, LineWords
  <2> QED
    BY <2>1 DEF Meant
<1>4. ASSUME item.seqr = "spi"
      PROVE  item.txn = SpiItem(n, t) /\ SpiMeans(e[n], e[n - 1], n, t)
  <2>1. t[0] = "SPI" /\ item.txn = SpiItem(n, t)
    BY <1>4 DEF Meant
  <2>2. e[n] = SpiEffect(e[n - 1], n, t)
    BY <1>2, <1>3, <2>1 DEF LineEffect
  <2> QED
    BY <1>2, <2>1, <2>2, SpiEffectParts
<1>5. ASSUME item.seqr = "gpio"
      PROVE  item.txn = GpioItem(n, t) /\ GpioMeans(e[n], e[n - 1], n, t)
  <2>1. t[0] = "GPIO" /\ item.txn = GpioItem(n, t)
    BY <1>5 DEF Meant
  <2>2. e[n] = GpioEffect(e[n - 1], n, t)
    BY <1>2, <1>3, <2>1 DEF LineEffect
  <2> QED
    BY <1>2, <2>1, <2>2, GpioEffectParts
<1> QED
  BY <1>2, <1>4, <1>5 DEF Driven

\* The frame: the registers, and byte 3 for the monitor.
LEMMA FrameFollows ==
  ASSUME Inv, Meant, Following, SpiFrame
  PROVE  Meant' /\ Following'
<1> DEFINE n == stim_f_ln_num
           e == Effects(file)
           t == Own(file[n])
           tr == SpiItem(n, t)
           b == IF tr.is_write = 1 THEN tr.data ELSE ReadReg(regfile, gpio_in, tr.addr)
           seen == IF tr.is_write = 1 THEN tr ELSE [tr EXCEPT !.data = b]
<1>1. item.seqr = "spi" /\ Taken("spi")
  BY StageOf DEF SpiFrame, Inv
<1>2. Pending /\ ~Pending' /\ Driven' = n
  BY <1>1 DEF Taken, Pending, Driven, SpiFrame, ItemDone, genVars, Inv, Handshake
<1>3. Driven = n - 1 /\ item.txn = tr /\ SpiMeans(e[n], e[n - 1], n, t)
  BY <1>1, <1>2, PendingEffect
<1>4. /\ regfile = e[n - 1].mem /\ gpio_in = e[n - 1].pins /\ if_errors = e[n - 1].unknown
      /\ SpiJudged = e[n - 1].spi /\ GpioJudged = e[n - 1].gpio /\ gen_errors = e[n].bad
  BY <1>3 DEF Following
<1>5. Head(m_req_fifo["spi"]) = tr /\ Head(spi_intents) = tr /\ received = <<>>
  <2>1. Head(<<item.txn>>) = item.txn
    OBVIOUS
  <2> QED
    BY <1>1, <1>3, <2>1 DEF Taken, Inv, Monitors
<1>6. tr.is_write = 1 <=> t[1] = "WR"
  BY DEF SpiItem, Flag
<1> HIDE DEF tr
<1>7. /\ received' = <<b>> /\ spi_intents' = spi_intents /\ spi_log' = spi_log
      /\ regfile' = IF t[1] = "WR" THEN WriteReg(regfile, tr.addr, tr.data) ELSE regfile
      /\ UNCHANGED <<gpio_in, if_errors, gpio_intents, gpio_log, gen_errors, file, stim_f_ln_num>>
  BY <1>5, <1>6 DEF SpiFrame, gpioSide, genVars
<1>8. SpiJudged' = Append(spi_log, Entry(seen, SpiVerdict(seen)))
  <2>1. received' # <<>> /\ received'[1] = b /\ Head(spi_intents') = tr
    BY <1>5, <1>7
  <2> HIDE DEF b
  <2> QED
    BY <1>7, <2>1 DEF SpiJudged
<1>9. SpiJudged' = e[n].spi
  <2>1. spi_log = e[n - 1].spi
    BY <1>4, <1>5 DEF SpiJudged
  <2>2. CASE t[1] = "WR"
    <3>1. seen = tr /\ SpiVerdict(seen) = "write"
      BY <1>6, <2>2 DEF SpiVerdict
    <3> HIDE DEF seen
    <3> QED
      BY <1>3, <1>8, <2>1, <2>2, <3>1 DEF SpiMeans, tr
  <2>3. CASE t[1] # "WR"
    <3>1. seen = [tr EXCEPT !.data = ReadReg(e[n - 1].mem, e[n - 1].pins, tr.addr)]
      BY <1>4, <1>6, <2>3
    <3>2. Entry(seen, SpiVerdict(seen)) = Entry(tr, SpiVerdict(seen))
      <4>1. seen.transaction_id = tr.transaction_id
        BY <1>6, <2>3
      <4> QED
        BY <4>1 DEF Entry
    <3> HIDE DEF seen
    <3> QED
      BY <1>3, <1>8, <2>1, <2>3, <3>1, <3>2 DEF SpiMeans, tr
  <2> QED
    BY <2>2, <2>3
<1>10. regfile' = e[n].mem /\ gpio_in' = e[n].pins /\ if_errors' = e[n].unknown
  BY <1>3, <1>4, <1>7 DEF SpiMeans, tr
<1>11. GpioJudged' = e[n].gpio
  BY <1>3, <1>4, <1>7 DEF SpiMeans, GpioJudged
<1>12. Following'
  <2> HIDE DEF e, t
  <2>1. Effects(file') = e /\ Driven' = n /\ stim_f_ln_num' = n /\ gen_errors' = e[n].bad
    BY <1>2, <1>4, <1>7 DEF e
  <2> QED
    BY <1>9, <1>10, <1>11, <2>1 DEF Following
<1>13. Meant'
  BY <1>2 DEF Meant
<1> QED
  BY <1>12, <1>13

\* The pin, or what is read from it, and the GPIO monitor's intent.
LEMMA PinFollows ==
  ASSUME Inv, Meant, Following, GpioDrive
  PROVE  Meant' /\ Following'
<1> DEFINE n == stim_f_ln_num
           e == Effects(file)
           t == Own(file[n])
           tr == GpioItem(n, t)
           seen == IF tr.is_write = 1 THEN tr
                   ELSE [tr EXCEPT !.value = GetGpio(regfile, gpio_in, tr.sig_name, tr.gpio_offset)]
<1>1. item.seqr = "gpio" /\ Sent("gpio")
  BY StageOf DEF GpioDrive, Inv
<1>2. Pending /\ ~Pending' /\ Driven' = n
  BY <1>1 DEF Sent, Pending, Driven, GpioDrive, ItemDone, genVars, Inv, Handshake
<1>3. Driven = n - 1 /\ item.txn = tr /\ GpioMeans(e[n], e[n - 1], n, t)
  BY <1>1, <1>2, PendingEffect
<1>4. /\ regfile = e[n - 1].mem /\ gpio_in = e[n - 1].pins /\ if_errors = e[n - 1].unknown
      /\ SpiJudged = e[n - 1].spi /\ GpioJudged = e[n - 1].gpio /\ gen_errors = e[n].bad
  BY <1>3 DEF Following
<1>5. Head(m_req_fifo["gpio"]) = tr /\ gpio_intents = <<>>
  <2>1. Head(<<item.txn>>) = item.txn
    OBVIOUS
  <2> QED
    BY <1>1, <1>3, <2>1 DEF Sent, Inv, Monitors
<1>6. (tr.is_write = 1 <=> t[3] = "SET") /\ tr.sig_name = t[1] /\ tr.transaction_id = n
      /\ (t[3] = "SET" => tr.compare_value = 0)
  BY DEF GpioItem, Flag
<1> HIDE DEF tr
<1>7. /\ gpio_intents' = Append(gpio_intents, seen) /\ gpio_log' = gpio_log
      /\ gpio_in' = IF t[3] = "SET" /\ t[1] = "gpio_in"
                    THEN [gpio_in EXCEPT ![tr.gpio_offset] = tr.value] ELSE gpio_in
      /\ if_errors' = IF t[1] \in Signals THEN if_errors ELSE if_errors \cup {n}
      /\ UNCHANGED <<regfile, spi_intents, received, spi_log, gen_errors, file, stim_f_ln_num>>
  BY <1>5, <1>6 DEF GpioDrive, spiSide, genVars
<1>8. GpioJudged' = Append(gpio_log, Entry(seen, GpioVerdict(seen)))
  <2> HIDE DEF seen
  <2>1. gpio_intents' = <<seen>>
    BY <1>5, <1>7
  <2>2. gpio_intents' # <<>> /\ Head(gpio_intents') = seen
    BY <2>1
  <2> QED
    BY <1>7, <2>2 DEF GpioJudged
<1>9. GpioJudged' = e[n].gpio
  <2>1. gpio_log = e[n - 1].gpio
    BY <1>4, <1>5 DEF GpioJudged
  <2>2. CASE t[3] = "SET"
    <3>1. seen = tr /\ GpioVerdict(seen) = "no compare"
      BY <1>6, <2>2 DEF GpioVerdict
    <3> HIDE DEF seen
    <3> QED
      BY <1>3, <1>8, <2>1, <2>2, <3>1 DEF GpioMeans, tr
  <2>3. CASE t[3] # "SET"
    <3>1. seen = [tr EXCEPT !.value = GetGpio(e[n - 1].mem, e[n - 1].pins, t[1], tr.gpio_offset)]
      BY <1>4, <1>6, <2>3
    <3>2. Entry(seen, GpioVerdict(seen)) = Entry(tr, GpioVerdict(seen))
      <4>1. seen.transaction_id = tr.transaction_id
        BY <1>6, <2>3
      <4> QED
        BY <4>1 DEF Entry
    <3> HIDE DEF seen
    <3> QED
      BY <1>3, <1>8, <2>1, <2>3, <3>1, <3>2 DEF GpioMeans, tr
  <2> QED
    BY <2>2, <2>3
<1>10. regfile' = e[n].mem /\ gpio_in' = e[n].pins /\ if_errors' = e[n].unknown
  BY <1>3, <1>4, <1>7 DEF GpioMeans, tr
<1>11. SpiJudged' = e[n].spi
  BY <1>3, <1>4, <1>7 DEF GpioMeans, SpiJudged
<1>12. Following'
  <2> HIDE DEF e, t
  <2>1. Effects(file') = e /\ Driven' = n /\ stim_f_ln_num' = n /\ gen_errors' = e[n].bad
    BY <1>2, <1>4, <1>7 DEF e
  <2> QED
    BY <1>9, <1>10, <1>11, <2>1 DEF Following
<1>13. Meant'
  BY <1>2 DEF Meant
<1> QED
  BY <1>12, <1>13

\* The steps of the handshake, of the monitors, and the end of the phase.
LEMMA OtherSteps ==
  ASSUME Inv,
         \/ (FinishItem \/ ItemReturned \/ EndOfFile \/ PauseOver) /\ UNCHANGED <<spiSide, gpioSide>>
         \/ SelectSequence \/ SpiTake \/ SpiPublish \/ GpioPublish \/ EndPhase \/ UNCHANGED vars
  PROVE  Unmoved
<1>1. ASSUME UNCHANGED <<spiSide, gpioSide>>
      PROVE  /\ UNCHANGED <<regfile, gpio_in, if_errors>>
             /\ SpiJudged' = SpiJudged /\ GpioJudged' = GpioJudged
  BY <1>1 DEF spiSide, gpioSide, SpiJudged, GpioJudged
<1>2. CASE (FinishItem \/ ItemReturned \/ EndOfFile \/ PauseOver) /\ UNCHANGED <<spiSide, gpioSide>>
  <2>1. UNCHANGED <<file, stim_f_ln_num, gen_errors>>
    BY <1>2 DEF FinishItem, ItemReturned, EndOfFile, PauseOver
  <2>2. CASE FinishItem
    <3>1. gen = "grant" /\ gen' = "item" /\ item' = item /\ item.seqr \in Sequencers
      BY <2>2 DEF FinishItem, Inv, Handshake
    <3>2. ~item_done'[item.seqr]
      BY <2>2, <3>1 DEF FinishItem, SendRequest, Inv, Handshake
    <3>3. Pending /\ Pending'
      BY <3>1, <3>2 DEF Pending
    <3> QED
      BY <1>1, <1>2, <2>1, <3>1, <3>3 DEF Unmoved
  <2>3. CASE ItemReturned \/ EndOfFile \/ PauseOver
    <3>1. ~Pending /\ ~Pending'
      BY <2>3 DEF ItemReturned, EndOfFile, PauseOver, Pending
    <3> QED
      BY <1>1, <1>2, <2>1, <3>1 DEF Unmoved
  <2> QED
    BY <1>2, <2>2, <2>3
<1>3. ASSUME UNCHANGED genVars, item_done' = item_done
      PROVE  /\ UNCHANGED <<file, stim_f_ln_num, gen_errors, item>>
             /\ (Pending' <=> Pending)
  BY <1>3 DEF genVars, Pending
<1>4. CASE SelectSequence \/ EndPhase \/ UNCHANGED vars
  <2>1. UNCHANGED genVars /\ item_done' = item_done /\ UNCHANGED <<spiSide, gpioSide>>
    BY <1>4 DEF SelectSequence, Grant, EndPhase, vars, portVars
  <2> QED
    BY <1>1, <1>3, <2>1 DEF Unmoved
<1>5. CASE SpiTake
  <2>1. UNCHANGED genVars /\ item_done' = item_done
    BY <1>5 DEF SpiTake, TakeItem
  <2>2. UNCHANGED <<regfile, gpio_in, if_errors, received, spi_log, gpio_intents, gpio_log>>
    BY <1>5 DEF SpiTake, gpioSide
  <2>3. received = <<>>
    <3>1. driver["spi"] = "peek"
      BY <1>5 DEF SpiTake, TakeItem, CanTake
    <3> QED
      BY <3>1 DEF Inv, Monitors
  <2> QED
    BY <1>3, <2>1, <2>2, <2>3 DEF Unmoved, SpiJudged, GpioJudged
<1>6. CASE SpiPublish
  <2>1. UNCHANGED genVars /\ item_done' = item_done
    BY <1>6 DEF SpiPublish, portVars
  <2>2. /\ UNCHANGED <<regfile, gpio_in, if_errors, gpio_intents, gpio_log>>
        /\ received # <<>> /\ received' = <<>> /\ spi_log' = SpiJudged
    BY <1>6 DEF SpiPublish, gpioSide, SpiJudged
  <2> QED
    BY <1>3, <2>1, <2>2 DEF Unmoved, SpiJudged, GpioJudged
<1>7. CASE GpioPublish
  <2>1. UNCHANGED genVars /\ item_done' = item_done
    BY <1>7 DEF GpioPublish, portVars
  <2>2. /\ UNCHANGED <<regfile, gpio_in, if_errors, received, spi_intents, spi_log>>
        /\ gpio_log' = GpioJudged
    BY <1>7 DEF GpioPublish, spiSide, GpioJudged
  <2>3. gpio_intents' = <<>>
    <3>1. Tail(<<gpio_intents[1]>>) = <<>>
      OBVIOUS
    <3> QED
      BY <1>7, <3>1 DEF GpioPublish, Inv, Monitors
  <2> QED
    BY <1>3, <2>1, <2>2, <2>3 DEF Unmoved, SpiJudged, GpioJudged
<1> QED
  BY <1>2, <1>4, <1>5, <1>6, <1>7

LEMMA FollowingInit == Init => Meant /\ Following
<1> SUFFICES ASSUME Init PROVE Meant /\ Following
  OBVIOUS
<1>1. gen = "read" /\ stim_f_ln_num = 0
  BY DEF Init, GeneratorInit
<1>2. ~Pending /\ Driven = 0
  BY <1>1 DEF Pending, Driven
<1>3. Effects(file)[0] = NoEffect
  BY ReadingInit, EffectsUnfold DEF Reading
<1>4. /\ NoEffect.mem = regfile /\ NoEffect.pins = gpio_in /\ NoEffect.unknown = if_errors
      /\ NoEffect.bad = gen_errors
  BY DEF Init, GeneratorInit, NoEffect
<1>5. NoEffect.spi = SpiJudged /\ NoEffect.gpio = GpioJudged
  BY DEF Init, NoEffect, SpiJudged, GpioJudged
<1> QED
  BY <1>1, <1>2, <1>3, <1>4, <1>5 DEF Meant, Following

LEMMA FollowingStep ==
  ASSUME OwnLines, Inv, Meant, Following, [Next]_vars
  PROVE  Meant' /\ Following'
<1>1. CASE Generate \/ PauseEnds
  <2>1. UNCHANGED <<spiSide, gpioSide>> /\ (GeneratorStep \/ PauseOver)
    BY <1>1 DEF Generate, PauseEnds
  <2>2. CASE SkipComment \/ Pause \/ Malformed \/ Unknown
    BY <2>1, <2>2, OtherLines
  <2>3. CASE SpiLine \/ GpioLine
    BY <2>1, <2>3, ItemLines
  <2>4. CASE FinishItem \/ ItemReturned \/ EndOfFile \/ PauseOver
    BY <2>1, <2>4, OtherSteps, UnmovedFollows
  <2> QED
    BY <2>1, <2>2, <2>3, <2>4 DEF GeneratorStep
<1>2. CASE SelectSequence \/ SpiTake \/ SpiPublish \/ GpioPublish \/ EndPhase \/ UNCHANGED vars
  BY <1>2, OtherSteps, UnmovedFollows
<1>3. CASE SpiFrame
  BY <1>3, FrameFollows
<1>4. CASE GpioDrive
  BY <1>4, PinFollows
<1> QED
  BY <1>1, <1>2, <1>3, <1>4 DEF Next, Running

\* The phase ends when nobody has anything left to do.
Ended == phase = "ended" => gen = "dropped" /\ received = <<>> /\ gpio_intents = <<>>

LEMMA EndedInvariant == Spec => []Ended
<1>1. Init => Ended
  BY DEF Init, Ended
<1>2. Ended /\ [Next]_vars => Ended'
  <2> SUFFICES ASSUME Ended, [Next]_vars PROVE Ended'
    OBVIOUS
  <2>1. CASE UNCHANGED vars
    BY <2>1 DEF vars, genVars, spiSide, gpioSide, Ended
  <2>2. CASE EndPhase
    BY <2>2 DEF EndPhase, Due, Unsettled, MonitorDue, genVars, spiSide, gpioSide, Ended
  <2>3. CASE phase = "run" /\ phase' = phase
    BY <2>3 DEF Ended
  <2> QED
    BY <2>1, <2>2, <2>3 DEF Next
<1> QED
  BY <1>1, <1>2, PTL DEF Spec

(* The outcome of a test is what its file means, line by line: the six     *)
(* processes - the sequence, two drivers, two monitors and the end of the  *)
(* phase - lose no item, judge none twice, out of order or against a state *)
(* of another line (tb_generators.sv, tb_drivers.sv, tb_monitors.sv,       *)
(* tb_scoreboards.sv).  A line that leaves out tokens takes those of the   *)
(* line before, and is the one thing that is assumed away.                 *)
THEOREM SequentialOutcomeCorrect ==
  ASSUME OwnLines
  PROVE  Spec => []SequentialOutcome
<1>1. Spec => [](Inv /\ Meant /\ Following)
  <2>1. Inv /\ Meant /\ Following /\ [Next]_vars => Meant' /\ Following'
    BY FollowingStep
  <2> QED
    BY <2>1, FollowingInit, Invariant, PTL DEF Spec
<1>2. Inv /\ Following /\ Ended => SequentialOutcome
  <2> SUFFICES ASSUME Inv, Following, Ended, phase = "ended"
               PROVE  [mem |-> regfile, pins |-> gpio_in, spi |-> spi_log, gpio |-> gpio_log,
                       bad |-> gen_errors, unknown |-> if_errors] = Meaning
    BY DEF SequentialOutcome
  <2>1. gen = "dropped" /\ stim_f_ln_num = Len(file) /\ file \in Seq(Lines)
    BY DEF Ended, Inv, Reading
  <2>2. Driven = Len(file)
    BY <2>1 DEF Driven, Pending
  <2>3. SpiJudged = spi_log /\ GpioJudged = gpio_log
    BY DEF Ended, SpiJudged, GpioJudged
  <2>4. Parts(Meaning)
    <3>1. Len(file) \in 0..Len(file)
      BY <2>1
    <3> QED
      BY <2>1, <3>1, EffectParts DEF Meaning
  <2> QED
    BY <2>1, <2>2, <2>3, <2>4 DEF Following, Meaning, Parts
<1> QED
  BY <1>1, <1>2, EndedInvariant, PTL

=============================================================================
