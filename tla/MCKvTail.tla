------------------------------ MODULE MCKvTail ------------------------------
(***************************************************************************)
(* KvTail with interchangeable sequences.  Generations are only counted up *)
(* and compared for equality, so adding a constant to every generation of  *)
(* one cell changes no behaviour: the view counts them from the cell's     *)
(* present one.                                                            *)
(***************************************************************************)
EXTENDS KvTail, TLC

SeqSymmetry == Permutations(Seqs)

Since(e) == [e EXCEPT !.gen = (@ - gen[e.cell]) % GenWrap]
AllSince(entries) == {Since(e) : e \in entries}
TailsSince(ts) == [s \in Seqs |-> [ts[s] EXCEPT !.entries = AllSince(@)]]

RelativeView ==
    <<pos, seqs, TailsSince(tail), rows,
      IF batch = None THEN None
      ELSE [batch EXCEPT !.tail = TailsSince(@), !.current = AllSince(@),
                         !.gen = [c \in Cells |-> (@[c] - gen[c]) % GenWrap]],
      IF pending = None THEN None ELSE [pending EXCEPT !.entries = AllSince(@)]>>
=============================================================================
