-------------------------- MODULE MCMemoryRecurrent --------------------------
(***************************************************************************)
(* MemoryRecurrent for TLC.                                                *)
(***************************************************************************)
EXTENDS MemoryRecurrent

\* A token of one sequence, or of two; sequences together, in different orders and
\* of different lengths.
SomeShapes == {<<<<0>>>>, <<<<0, 1>>>>, <<<<2>>, <<0>>>>, <<<<1>>, <<2>>, <<0>>>>,
               <<<<0>>, <<1>>, <<1>>, <<0>>>>}
PlainShapes == {<<<<0>>>>, <<<<1>>, <<2>>>>}

\* Two of the sequences are given the same tokens.
Toks == [s \in Seqs |-> IF s = 0 THEN "a" ELSE "b"]

\* States are moved both ways.
Moves == {-1, 1}
=============================================================================
