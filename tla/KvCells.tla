------------------------------ MODULE KvCells ------------------------------
(***************************************************************************)
(* The metadata of the KV cells of one stream: class llama_kv_cells        *)
(* (src/llama-kv-cells.h).  A cell is empty (pos = -1) or holds one        *)
(* position shared by a set of sequences.  Beside the per-cell arrays the  *)
(* class keeps three indices that are only ever updated incrementally:     *)
(* the set of used cells, per sequence the multiset of its positions and   *)
(* per sequence the number of its cells.  Every query of the cache (how    *)
(* far does a sequence reach, how many cells are used) is answered from    *)
(* the indices, so a missed update would go unnoticed until a decode       *)
(* reads the wrong context.                                                *)
(*                                                                         *)
(* The guards are the preconditions the class states as assert()s and      *)
(* comments.  `saved' is the recovery copy that the owner of the cells     *)
(* holds between cp() and set().  The 2D position `ext' is never read by   *)
(* the class and is left out.                                              *)
(***************************************************************************)
EXTENDS Integers, FiniteSets

CONSTANTS NCells,   (* size of the cell arrays                             *)
          Seqs,     (* sequence ids, 0 .. LLAMA_MAX_SEQ-1 in the code      *)
          MaxPos,   (* bound on positions                                  *)
          MaxShift, (* bound on |d| of pos_add                             *)
          MaxAccum, (* bound on an accumulated shift                       *)
          Divisors  (* the divisors d > 1 given to pos_div                 *)

ASSUME CellsAssumption ==
    /\ NCells \in Nat /\ MaxPos \in Nat /\ MaxShift \in Nat /\ MaxAccum \in Nat
    /\ IsFiniteSet(Seqs)
    /\ Divisors \subseteq Nat \ {0, 1}

Cells     == 0 .. NCells - 1
Positions == 0 .. MaxPos

VARIABLES pos, seq, shift, has_shift, used, seq_pos, seq_used, saved

perCell == <<pos, seq, shift>>
indices == <<used, seq_pos, seq_used>>
vars    == <<pos, seq, shift, has_shift, used, seq_pos, seq_used, saved>>

NoCopy == [idxs |-> {}, pos |-> [i \in {} |-> -1], seq |-> [i \in {} |-> {}]]

-----------------------------------------------------------------------------
(* Index helpers.  A count of 0 stands for a key absent from the map.      *)

seq_pos_inc(S, p) ==
    /\ seq_pos'  = [seq_pos EXCEPT ![S][p] = @ + 1]
    /\ seq_used' = [seq_used EXCEPT ![S] = @ + 1]

seq_pos_dec(S, p) ==
    /\ seq_pos'  = [seq_pos EXCEPT ![S][p] = @ - 1]
    /\ seq_used' = [seq_used EXCEPT ![S] = @ - 1]

(* seq_pos_rm(i): one decrement for every sequence of the cell.            *)
seq_pos_rm(i) ==
    /\ seq_pos'  = [s \in Seqs |-> [p \in Positions |->
                      IF s \in seq[i] /\ p = pos[i]
                      THEN seq_pos[s][p] - 1 ELSE seq_pos[s][p]]]
    /\ seq_used' = [s \in Seqs |->
                      IF s \in seq[i] THEN seq_used[s] - 1 ELSE seq_used[s]]

(* seq_pos_rm(i), a new position, seq_pos_add(i): the cell moves to p.     *)
seq_pos_move(i, q) ==
    /\ seq_pos'  = [s \in Seqs |-> [p \in Positions |->
                      IF s \in seq[i]
                      THEN seq_pos[s][p] - (IF p = pos[i] THEN 1 ELSE 0)
                                         + (IF p = q THEN 1 ELSE 0)
                      ELSE seq_pos[s][p]]]
    /\ UNCHANGED seq_used

(* The cells among I that hold sequence s (at position p) in the arrays    *)
(* ps, sq.                                                                 *)
Holding(I, ps, sq, s)      == {i \in I : ps[i] # -1 /\ s \in sq[i]}
HoldingAt(I, ps, sq, s, p) == {i \in I : ps[i] = p /\ s \in sq[i]}

-----------------------------------------------------------------------------
Init ==
    /\ pos   = [i \in Cells |-> -1]
    /\ seq   = [i \in Cells |-> {}]
    /\ shift = [i \in Cells |-> 0]
    /\ has_shift = FALSE
    /\ used = {}
    /\ seq_pos  = [s \in Seqs |-> [p \in Positions |-> 0]]
    /\ seq_used = [s \in Seqs |-> 0]
    /\ saved = NoCopy

(* reset(): the owner's clear() also has no use for an older copy.         *)
Reset ==
    /\ pos'   = [i \in Cells |-> -1]
    /\ seq'   = [i \in Cells |-> {}]
    /\ shift' = [i \in Cells |-> 0]
    /\ has_shift' = FALSE
    /\ used' = {}
    /\ seq_pos'  = [s \in Seqs |-> [p \in Positions |-> 0]]
    /\ seq_used' = [s \in Seqs |-> 0]
    /\ saved' = NoCopy

(* update() has run the K-shift graph and calls reset_shift().             *)
ResetShift ==
    /\ has_shift
    /\ has_shift' = FALSE
    /\ shift' = [i \in Cells |-> 0]
    /\ UNCHANGED <<pos, seq, used, seq_pos, seq_used, saved>>

(* Both cp() overloads: copy the cells of I.                               *)
Cp(I) ==
    /\ I # {}
    /\ \A i \in I : shift[i] = 0
    /\ saved' = [idxs |-> I, pos |-> [i \in I |-> pos[i]], seq |-> [i \in I |-> seq[i]]]
    /\ UNCHANGED <<perCell, has_shift, indices>>

(* Mutant: cells that were empty in the copy stay in the used set.         *)
Set_keeps_used ==
    LET I == saved.idxs
    IN  /\ I # {}
        /\ \A i \in I : shift[i] = 0
        /\ used' = used \cup {i \in I : saved.pos[i] # -1}
        /\ seq_pos' = [s \in Seqs |-> [p \in Positions |->
                         (seq_pos[s][p] - Cardinality(HoldingAt(I, pos, seq, s, p)))
                           + Cardinality(HoldingAt(I, saved.pos, saved.seq, s, p))]]
        /\ seq_used' = [s \in Seqs |->
                         (seq_used[s] - Cardinality(Holding(I, pos, seq, s)))
                           + Cardinality(Holding(I, saved.pos, saved.seq, s))]
        /\ pos'  = [i \in Cells |-> IF i \in I THEN saved.pos[i] ELSE pos[i]]
        /\ seq'  = [i \in Cells |-> IF i \in I THEN saved.seq[i] ELSE seq[i]]
        /\ saved' = NoCopy
        /\ UNCHANGED <<shift, has_shift>>

(* Both set() overloads: put the copied cells back.                        *)
Set ==
    LET I      == saved.idxs
        live   == {i \in I : saved.pos[i] # -1}
        gone   == I \ live
    IN  /\ I # {}
        /\ \A i \in I : shift[i] = 0
        /\ used' = (used \cup live) \ gone
        /\ seq_pos' = [s \in Seqs |-> [p \in Positions |->
                         (seq_pos[s][p] - Cardinality(HoldingAt(I, pos, seq, s, p)))
                           + Cardinality(HoldingAt(I, saved.pos, saved.seq, s, p))]]
        /\ seq_used' = [s \in Seqs |->
                         (seq_used[s] - Cardinality(Holding(I, pos, seq, s)))
                           + Cardinality(Holding(I, saved.pos, saved.seq, s))]
        /\ pos'  = [i \in Cells |-> IF i \in I THEN saved.pos[i] ELSE pos[i]]
        /\ seq'  = [i \in Cells |-> IF i \in I THEN saved.seq[i] ELSE seq[i]]
        /\ saved' = NoCopy
        /\ UNCHANGED <<shift, has_shift>>

(* Mutant: the shift of the old tenant survives.                           *)
EmptyCell_keeps_shift(i) ==
    /\ seq'   = [seq EXCEPT ![i] = {}]
    /\ pos'   = [pos EXCEPT ![i] = -1]
    /\ used'  = used \ {i}
    /\ UNCHANGED shift

(* What every path that empties cell i assigns; pos_add, seq_rm, seq_keep  *)
(* and rm share it.                                                        *)
EmptyCell(i) ==
    /\ seq'   = [seq EXCEPT ![i] = {}]
    /\ pos'   = [pos EXCEPT ![i] = -1]
    /\ shift' = [shift EXCEPT ![i] = 0]
    /\ used'  = used \ {i}

Rm(i) ==
    /\ pos[i] # -1
    /\ seq_pos_rm(i)
    /\ EmptyCell(i)
    /\ UNCHANGED <<has_shift, saved>>

(* seq_rm(i, s), also the body of seq_rm_cell once its test has passed.    *)
SeqRm(i, S) ==
    /\ pos[i] # -1 /\ S \in seq[i]
    /\ seq_pos_dec(S, pos[i])
    /\ \/ /\ seq[i] = {S}
          /\ EmptyCell(i)
       \/ /\ seq[i] # {S}
          /\ seq' = [seq EXCEPT ![i] = @ \ {S}]
          /\ UNCHANGED <<pos, shift, used>>
    /\ UNCHANGED <<has_shift, saved>>

(* seq_keep on a cell of S: every other sequence leaves it.                *)
SeqKeepMember(i, S) ==
    /\ pos[i] # -1 /\ S \in seq[i]
    /\ seq_pos'  = [s \in Seqs |-> [p \in Positions |->
                      IF s \in seq[i] \ {S} /\ p = pos[i]
                      THEN seq_pos[s][p] - 1 ELSE seq_pos[s][p]]]
    /\ seq_used' = [s \in Seqs |->
                      IF s \in seq[i] \ {S} THEN seq_used[s] - 1 ELSE seq_used[s]]
    /\ seq' = [seq EXCEPT ![i] = {S}]
    /\ UNCHANGED <<pos, shift, has_shift, used, saved>>

(* seq_keep on a cell of other sequences only: the cell becomes empty.     *)
SeqKeepOther(i, S) ==
    /\ S \notin seq[i] /\ seq[i] # {}
    /\ seq_pos_rm(i)
    /\ EmptyCell(i)
    /\ UNCHANGED <<has_shift, saved>>

SeqKeep(i, S) == SeqKeepMember(i, S) \/ SeqKeepOther(i, S)

SeqAdd(i, S) ==
    /\ pos[i] # -1 /\ S \notin seq[i]
    /\ seq_pos_inc(S, pos[i])
    /\ seq' = [seq EXCEPT ![i] = @ \cup {S}]
    /\ UNCHANGED <<pos, shift, has_shift, used, saved>>

PosSet(i, p) ==
    /\ pos[i] = -1 /\ seq[i] = {}
    /\ pos'  = [pos EXCEPT ![i] = p]
    /\ used' = used \cup {i}
    /\ UNCHANGED <<seq, shift, has_shift, seq_pos, seq_used, saved>>

AccumBounded(a) == -MaxAccum <= a /\ a <= MaxAccum

(* Mutants: no test for a negative position; the wrong sign of the shift.  *)
PosAdd_below_zero(i, d) ==
    /\ pos[i] # -1 /\ pos[i] + d <= MaxPos
    /\ AccumBounded(shift[i] + d)
    /\ seq_pos_move(i, pos[i] + d)
    /\ pos'   = [pos EXCEPT ![i] = @ + d]
    /\ shift' = [shift EXCEPT ![i] = @ + d]
    /\ has_shift' = TRUE
    /\ UNCHANGED <<seq, used, saved>>

PosAdd_wrong_sign(i, d) ==
    /\ pos[i] # -1 /\ pos[i] + d \in 0..MaxPos
    /\ AccumBounded(shift[i] - d)
    /\ seq_pos_move(i, pos[i] + d)
    /\ pos'   = [pos EXCEPT ![i] = @ + d]
    /\ shift' = [shift EXCEPT ![i] = @ - d]
    /\ has_shift' = TRUE
    /\ UNCHANGED <<seq, used, saved>>

(* pos_add: the cell moves by d, or drops out when it moves below 0.       *)
PosAdd(i, d) ==
    /\ pos[i] # -1
    /\ pos[i] + d <= MaxPos
    /\ has_shift' = TRUE
    /\ \/ /\ pos[i] + d >= 0
          /\ AccumBounded(shift[i] + d)
          /\ seq_pos_move(i, pos[i] + d)
          /\ pos'   = [pos EXCEPT ![i] = @ + d]
          /\ shift' = [shift EXCEPT ![i] = @ + d]
          /\ UNCHANGED <<seq, used>>
       \/ /\ pos[i] + d < 0
          /\ seq_pos_rm(i)
          /\ EmptyCell(i)
    /\ UNCHANGED saved

(* Mutant: the shift is recorded but not flagged.                          *)
PosDiv_unflagged(i, d) ==
    /\ pos[i] # -1
    /\ AccumBounded(shift[i] + (pos[i] - (pos[i] \div d)))
    /\ seq_pos_move(i, pos[i] \div d)
    /\ pos'   = [pos EXCEPT ![i] = @ \div d]
    /\ shift' = [shift EXCEPT ![i] = @ + (pos[i] - (pos[i] \div d))]
    /\ UNCHANGED <<seq, used, saved, has_shift>>

PosDiv(i, d) ==
    /\ pos[i] # -1
    /\ AccumBounded(shift[i] + (pos[i] - (pos[i] \div d)))
    /\ seq_pos_move(i, pos[i] \div d)
    /\ pos'   = [pos EXCEPT ![i] = @ \div d]
    /\ shift' = [shift EXCEPT ![i] = @ + (pos[i] - (pos[i] \div d))]
    /\ has_shift' = TRUE
    /\ UNCHANGED <<seq, used, saved>>

CellEdit(i) ==
    \/ Rm(i)
    \/ \E S \in Seqs : SeqRm(i, S) \/ SeqKeep(i, S) \/ SeqAdd(i, S)
    \/ \E p \in Positions : PosSet(i, p)
    \/ \E d \in -MaxShift .. MaxShift : PosAdd(i, d)

CellOp(i) == CellEdit(i) \/ \E d \in Divisors : PosDiv(i, d)

Next ==
    \/ Reset
    \/ ResetShift
    \/ \E I \in SUBSET Cells : Cp(I)
    \/ Set
    \/ \E i \in Cells : CellOp(i)

Spec == Init /\ [][Next]_vars

-----------------------------------------------------------------------------
(* The type of every variable.                                             *)
TypeOK ==
    /\ pos   \in [Cells -> Positions \cup {-1}]
    /\ seq   \in [Cells -> SUBSET Seqs]
    /\ shift \in [Cells -> Int]
    /\ has_shift \in BOOLEAN
    /\ used \subseteq Cells
    /\ seq_pos  \in [Seqs -> [Positions -> Int]]
    /\ seq_used \in [Seqs -> Int]
    /\ saved.idxs \subseteq Cells
    /\ saved.pos  \in [saved.idxs -> Positions \cup {-1}]
    /\ saved.seq  \in [saved.idxs -> SUBSET Seqs]

(* An empty cell carries no sequence and no shift: pos_set() asserts the   *)
(* first, and a leftover shift would rotate the row of the next tenant.    *)
BlankWhenEmpty ==
    \A i \in Cells : pos[i] = -1 => seq[i] = {} /\ shift[i] = 0

UsedExact == used = {i \in Cells : pos[i] # -1}

SeqPosExact ==
    \A s \in Seqs, p \in Positions :
        seq_pos[s][p] = Cardinality(HoldingAt(Cells, pos, seq, s, p))

SeqUsedExact ==
    \A s \in Seqs : seq_used[s] = Cardinality(Holding(Cells, pos, seq, s))

(* The incrementally kept indices (used, seq_pos, seq_used) say exactly    *)
(* what a scan of the cells would, whatever mix of rm, seq_rm, seq_keep,   *)
(* pos_add, pos_div and cp/set led here.                                   *)
IndexExact == UsedExact /\ SeqPosExact /\ SeqUsedExact

(* A pending shift is never forgotten: get_has_shift() decides whether     *)
(* update() builds the K-shift graph at all.                               *)
ShiftFlagged == (\E i \in Cells : shift[i] # 0) => has_shift

=============================================================================
