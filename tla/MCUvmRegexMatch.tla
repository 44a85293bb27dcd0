-------------------------- MODULE MCUvmRegexMatch --------------------------
\* Three expressions, and four handles, one more than are ever held.  The
\* last of several keys is used where nothing is evicted, and not used where
\* something is; whoever does both is the case of the run lru_oldest.
EXTENDS UvmRegexMatch

ThreeKeys   == 1..3
FiveNodes   == 1..5
FourHandles == 1..4

MayBoth == {[uses_last |-> TRUE, evicts |-> TRUE]}
MayOne  == {[uses_last |-> u, evicts |-> ~u] : u \in BOOLEAN}

\* Expression 3 does not compile.
TwoCorrect == (1..2) \X {1}
=============================================================================
