---------------------------- MODULE MCUvmCmdline ----------------------------
EXTENDS UvmCmdline

File(words) == [file |-> words]
Texts == {"vsim", "+a", "-uvm", "+uvm"}
PlusTexts == {"+a", "+uvm"}
UvmTexts  == {"-uvm", "+uvm"}

\* Lists of up to n words, and the files they make.
Lists(W, n) == UNION {[1..k -> W] : k \in 0..n}
Files(L)    == {File(<<"name">> \o l) : l \in L}
Pieces(F)   == {<<t>> : t \in Texts} \cup {<<"-f", f>> : f \in F}
Lines(F, n) == {FlattenSeq(l) : l \in Lists(Pieces(F), n)}

\* A file in a file.
Inner == Files({<<>>, <<"+a">>, <<"-uvm", "+uvm">>})
Outer == Files({<<>>, <<"-f", File(<<"name", "+a">>)>>,
                <<"vsim", "-f", File(<<"name", "+uvm", "+a">>), "-uvm">>})
Nested == Lines(Inner \cup Outer, 3)
=============================================================================
