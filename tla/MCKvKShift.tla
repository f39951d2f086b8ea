----------------------------- MODULE MCKvKShift -----------------------------
(* A small instance of KvKShift, and with it of KvCells. *)
EXTENDS KvKShift, TLC

CONSTANTS s1, s2

MCSeqs == {s1, s2}
SeqSymmetry == Permutations(MCSeqs)

(* Every pos_div takes a row one step further from its cell, without end.  *)
RowsNear == \A i \in Cells : kpos[i] <= MaxPos + 1

=============================================================================
