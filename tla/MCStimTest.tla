----------------------------- MODULE MCStimTest -----------------------------
(* StimTest on short stimuli files.                                        *)
EXTENDS StimTest

\* The numerals that occur in the lines below; atoi stops at the first character
\* that is no digit, so it gives 0 for a word.
MCAtoi(t) == CASE t = "1" -> 1 [] t = "2" -> 2 [] t = "10" -> 10 [] OTHER -> 0
MCAtohex(t) == CASE t = "0xA5" -> 165 [] t = "0xEE" -> 238 [] t = "0x04" -> 4 [] OTHER -> 0

\* Lines of stimuli_files: pauses, comments, items of both kinds and a command
\* that does not exist.
Pauses   == {<<"PAUSE", "US", "10">>, <<"PAUSE", "10">>}
Others   == {<<"###", "COMMENT", "1">>, <<"GPIO_IN_0", "GET", "0", "SB_VERIFY">>}
SpiLines == {<<"SPI", "WR", "2", "0xEE", "SB_VERIFY">>,
             <<"SPI", "RD", "2", "0xEE", "SB_VERIFY">>,
             <<"SPI", "RD", "0", "0xA5", "SB_BYPASS">>,
             <<"SPI", "RD", "1", "0x04", "SB_VERIFY">>}
GpioLines == {<<"GPIO", "gpio_in", "2", "SET", "1", "SB_BYPASS">>,
              <<"GPIO", "gpio_in", "2", "GET", "1", "SB_VERIFY">>,
              <<"GPIO", "gpio_out", "1", "GET", "1", "SB_VERIFY">>,
              <<"GPIO", "gpio_x", "0", "GET", "0", "SB_VERIFY">>}
Blank == <<>>

ShortLine == <<"SPI", "RD">>

FileLines == Pauses \cup Others \cup SpiLines \cup GpioLines \cup {ShortLine}
WithBlank == {<<"PAUSE", "US", "10">>, <<"SPI", "RD", "0", "0xA5", "SB_VERIFY">>, Blank}
=============================================================================
