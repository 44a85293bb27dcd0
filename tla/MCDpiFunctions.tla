--------------------------- MODULE MCDpiFunctions ---------------------------
\* Every glob of up to four characters, in a buffer that is too short for some
\* and in one that is long enough for all.
EXTENDS DpiFunctions

ShortStrings == UNION {[1..n -> {"a", "b", "."}] : n \in 0..3} \cup {<<"/", "a">>, <<"a", "/">>}
=============================================================================
