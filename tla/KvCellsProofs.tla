--------------------------- MODULE KvCellsProofs ---------------------------
(***************************************************************************)
(* Machine-checked facts about KvCells and the K-shift that KvKShift adds  *)
(* to it, for every number of cells, every finite set of sequences and     *)
(* every bound on positions and shifts.                                    *)
(***************************************************************************)
EXTENDS KvKShift, FiniteSetTheorems, TLAPS

(* A copy taken by cp() is itself blank where it is empty; without this    *)
(* set() could bring back a sequence in an empty cell.                     *)
SavedBlank ==
    \A i \in saved.idxs : saved.pos[i] = -1 => saved.seq[i] = {}

(* The inductive invariant.                                                *)
IInv == TypeOK /\ BlankWhenEmpty /\ SavedBlank /\ ShiftFlagged /\ IndexExact

-----------------------------------------------------------------------------
(* Counting.                                                               *)

(* The cells are finite, so every set counted below is.                    *)
LEMMA CellsFinite ==
    /\ IsFiniteSet(Cells)
    /\ \A A \in SUBSET Cells : IsFiniteSet(A) /\ Cardinality(A) \in Nat
<1>1. IsFiniteSet(Cells)
  BY FS_Interval, CellsAssumption DEF Cells
<1>2. ASSUME NEW A \in SUBSET Cells
      PROVE  IsFiniteSet(A) /\ Cardinality(A) \in Nat
  BY <1>1, FS_Subset, FS_CardinalityType
<1> QED BY <1>1, <1>2

(* What a set of cells has outside I.                                      *)
LEMMA CountOutside ==
    ASSUME NEW A \in SUBSET Cells, NEW I
    PROVE  /\ Cardinality(A) \in Nat /\ Cardinality(A \cap I) \in Nat
           /\ Cardinality(A \ I) = Cardinality(A) - Cardinality(A \cap I)
<1>1. IsFiniteSet(A) /\ A \cap I \in SUBSET Cells
  BY CellsFinite
<1> QED BY <1>1, CellsFinite, FS_Difference

(* The sizes of two sets that differ in cell i at most.                    *)
LEMMA CountOneCell ==
    ASSUME NEW A \in SUBSET Cells, NEW B \in SUBSET Cells, NEW i \in Cells,
           A \ {i} = B \ {i}
    PROVE  /\ i \in A /\ i \in B => Cardinality(B) = Cardinality(A)
           /\ i \in A /\ i \notin B => Cardinality(B) = Cardinality(A) - 1
           /\ i \notin A /\ i \in B => Cardinality(B) = Cardinality(A) + 1
           /\ i \notin A /\ i \notin B => Cardinality(B) = Cardinality(A)
<1>1. Cardinality(A) \in Nat /\ Cardinality(B) \in Nat /\ IsFiniteSet(A) /\ IsFiniteSet(B)
  BY CellsFinite
<1>2. CASE i \in A /\ i \in B
  <2>1. A = B BY <1>2
  <2> QED BY <2>1
<1>3. CASE i \in A /\ i \notin B
  <2>1. B = A \ {i} BY <1>3
  <2> QED BY <2>1, <1>1, <1>3, FS_RemoveElement
<1>4. CASE i \notin A /\ i \in B
  <2>1. B = A \cup {i} BY <1>4
  <2> QED BY <2>1, <1>1, <1>4, FS_AddElement
<1>5. CASE i \notin A /\ i \notin B
  <2>1. A = B BY <1>5
  <2> QED BY <2>1
<1> QED BY <1>2, <1>3, <1>4, <1>5

(* The effect of one cell's change on the two counting indices.            *)
Delta(was, is) == IF was THEN (IF is THEN 0 ELSE -1) ELSE (IF is THEN 1 ELSE 0)

(* An operation that touches only cell i and adjusts the counters by what  *)
(* cell i gained and lost keeps both counting indices exact.               *)
LEMMA IndexStep ==
    ASSUME NEW i \in Cells, TypeOK, SeqPosExact, SeqUsedExact,
           \A j \in Cells \ {i} : pos'[j] = pos[j] /\ seq'[j] = seq[j],
           \A s \in Seqs, p \in Positions :
               seq_pos'[s][p] = seq_pos[s][p] +
                   Delta(pos[i] = p /\ s \in seq[i], pos'[i] = p /\ s \in seq'[i]),
           \A s \in Seqs :
               seq_used'[s] = seq_used[s] +
                   Delta(pos[i] # -1 /\ s \in seq[i], pos'[i] # -1 /\ s \in seq'[i])
    PROVE  SeqPosExact' /\ SeqUsedExact'
<1>1. ASSUME NEW s \in Seqs, NEW p \in Positions
      PROVE  seq_pos'[s][p] = Cardinality(HoldingAt(Cells, pos', seq', s, p))
  <2> DEFINE A == HoldingAt(Cells, pos, seq, s, p)
             B == HoldingAt(Cells, pos', seq', s, p)
  <2>1. A \in SUBSET Cells /\ B \in SUBSET Cells /\ A \ {i} = B \ {i}
    BY DEF HoldingAt
  <2>2. /\ i \in A <=> pos[i] = p /\ s \in seq[i]
        /\ i \in B <=> pos'[i] = p /\ s \in seq'[i]
    BY DEF HoldingAt
  <2>3. seq_pos[s][p] = Cardinality(A) /\ Cardinality(A) \in Nat
    BY <2>1, CellsFinite DEF SeqPosExact
  <2> HIDE DEF A, B
  <2>4. Cardinality(B) = Cardinality(A) + Delta(i \in A, i \in B)
    BY <2>1, <2>3, CountOneCell DEF Delta
  <2>5. seq_pos'[s][p] = seq_pos[s][p] + Delta(i \in A, i \in B)
    BY <2>2 DEF Delta
  <2> QED BY <2>3, <2>4, <2>5 DEF B
<1>2. ASSUME NEW s \in Seqs
      PROVE  seq_used'[s] = Cardinality(Holding(Cells, pos', seq', s))
  <2> DEFINE A == Holding(Cells, pos, seq, s)
             B == Holding(Cells, pos', seq', s)
  <2>1. A \in SUBSET Cells /\ B \in SUBSET Cells /\ A \ {i} = B \ {i}
    BY DEF Holding
  <2>2. /\ i \in A <=> pos[i] # -1 /\ s \in seq[i]
        /\ i \in B <=> pos'[i] # -1 /\ s \in seq'[i]
    BY DEF Holding
  <2>3. seq_used[s] = Cardinality(A) /\ Cardinality(A) \in Nat
    BY <2>1, CellsFinite DEF SeqUsedExact
  <2> HIDE DEF A, B
  <2>4. Cardinality(B) = Cardinality(A) + Delta(i \in A, i \in B)
    BY <2>1, <2>3, CountOneCell DEF Delta
  <2>5. seq_used'[s] = seq_used[s] + Delta(i \in A, i \in B)
    BY <2>2 DEF Delta
  <2> QED BY <2>3, <2>4, <2>5 DEF B
<1> QED BY <1>1, <1>2 DEF SeqPosExact, SeqUsedExact

(* seq_pos_rm(i) together with the emptying of cell i, the common tail of  *)
(* rm, seq_keep and a pos_add below zero.                                  *)
LEMMA EmptyStep ==
    ASSUME NEW i \in Cells, IInv, pos[i] # -1, seq_pos_rm(i), EmptyCell(i),
           UNCHANGED saved, has_shift' \in BOOLEAN, has_shift => has_shift'
    PROVE  IInv'
<1> USE DEF IInv, IndexExact
<1>1. TypeOK'
  <2>1. seq_pos' \in [Seqs -> [Positions -> Int]] /\ seq_used' \in [Seqs -> Int]
    BY DEF TypeOK, seq_pos_rm
  <2>2. /\ pos' \in [Cells -> Positions \cup {-1}] /\ seq' \in [Cells -> SUBSET Seqs]
        /\ shift' \in [Cells -> Int] /\ used' \subseteq Cells
    BY DEF TypeOK, EmptyCell
  <2> QED BY <2>1, <2>2 DEF TypeOK
<1>2. BlankWhenEmpty' /\ SavedBlank' /\ UsedExact'
  BY DEF TypeOK, BlankWhenEmpty, SavedBlank, UsedExact, EmptyCell
<1>3. ShiftFlagged'
  BY DEF TypeOK, ShiftFlagged, EmptyCell
<1>4. SeqPosExact' /\ SeqUsedExact'
  <2>1. pos'[i] = -1 /\ seq'[i] = {}
    BY DEF TypeOK, EmptyCell
  <2>2. \A j \in Cells \ {i} : pos'[j] = pos[j] /\ seq'[j] = seq[j]
    BY DEF TypeOK, EmptyCell
  <2>3. ASSUME NEW s \in Seqs, NEW p \in Positions
        PROVE  seq_pos'[s][p] = seq_pos[s][p] +
                   Delta(pos[i] = p /\ s \in seq[i], pos'[i] = p /\ s \in seq'[i])
    BY <2>1 DEF TypeOK, seq_pos_rm, Delta
  <2>4. ASSUME NEW s \in Seqs
        PROVE  seq_used'[s] = seq_used[s] +
                   Delta(pos[i] # -1 /\ s \in seq[i], pos'[i] # -1 /\ s \in seq'[i])
    BY <2>1 DEF TypeOK, seq_pos_rm, Delta
  <2> QED BY <2>2, <2>3, <2>4, IndexStep
<1> QED BY <1>1, <1>2, <1>3, <1>4

(* The absent copy has the type of a copy.                                 *)
NoCopyTyped ==
    /\ NoCopy.idxs \subseteq Cells
    /\ NoCopy.pos \in [NoCopy.idxs -> Positions \cup {-1}]
    /\ NoCopy.seq \in [NoCopy.idxs -> SUBSET Seqs]

(* The empty recovery copy has the type of a copy.                         *)
LEMMA NoCopyType == NoCopyTyped
<1>1. NoCopy.idxs = {} /\ NoCopy.pos = [i \in {} |-> -1] /\ NoCopy.seq = [i \in {} |-> {}]
  BY DEF NoCopy
<1> QED BY <1>1 DEF NoCopyTyped

-----------------------------------------------------------------------------
(* One lemma per operation.                                                *)

(* rm() keeps the inductive invariant.                                     *)
LEMMA RmStep == ASSUME IInv, NEW i \in Cells, Rm(i) PROVE IInv'
<1>1. has_shift' \in BOOLEAN /\ (has_shift => has_shift')
  BY DEF Rm, IInv, TypeOK
<1> QED BY <1>1, EmptyStep DEF Rm

(* seq_keep() keeps it, whether or not the cell is one of S.               *)
LEMMA SeqKeepStep ==
    ASSUME IInv, NEW i \in Cells, NEW S \in Seqs, SeqKeep(i, S)
    PROVE  IInv'
<1> USE DEF IInv, IndexExact
<1>1. CASE SeqKeepOther(i, S)
  <2>1. has_shift' \in BOOLEAN /\ (has_shift => has_shift') /\ pos[i] # -1
    BY <1>1 DEF SeqKeepOther, TypeOK, BlankWhenEmpty
  <2> QED BY <1>1, <2>1, EmptyStep DEF SeqKeepOther
<1>2. CASE SeqKeepMember(i, S)
  <2> USE <1>2 DEF SeqKeepMember
  <2>1. TypeOK'
    <3>1. seq_pos' \in [Seqs -> [Positions -> Int]] /\ seq_used' \in [Seqs -> Int]
      BY DEF TypeOK
    <3>2. seq' \in [Cells -> SUBSET Seqs]
      BY DEF TypeOK
    <3> QED BY <3>1, <3>2 DEF TypeOK
  <2>2. BlankWhenEmpty' /\ SavedBlank' /\ UsedExact' /\ ShiftFlagged'
    BY DEF TypeOK, BlankWhenEmpty, SavedBlank, UsedExact, ShiftFlagged
  <2>3. pos'[i] = pos[i] /\ seq'[i] = {S}
    BY DEF TypeOK
  <2>4. \A j \in Cells \ {i} : pos'[j] = pos[j] /\ seq'[j] = seq[j]
    BY DEF TypeOK
  <2>5. ASSUME NEW s \in Seqs, NEW p \in Positions
        PROVE  seq_pos'[s][p] = seq_pos[s][p] +
                   Delta(pos[i] = p /\ s \in seq[i], pos'[i] = p /\ s \in seq'[i])
    BY <2>3 DEF TypeOK, Delta
  <2>6. ASSUME NEW s \in Seqs
        PROVE  seq_used'[s] = seq_used[s] +
                   Delta(pos[i] # -1 /\ s \in seq[i], pos'[i] # -1 /\ s \in seq'[i])
    BY <2>3 DEF TypeOK, Delta
  <2>7. SeqPosExact' /\ SeqUsedExact'
    BY <2>4, <2>5, <2>6, IndexStep
  <2> QED BY <2>1, <2>2, <2>7
<1> QED BY <1>1, <1>2 DEF SeqKeep

(* seq_rm() keeps it, whether or not the cell becomes empty.               *)
LEMMA SeqRmStep ==
    ASSUME IInv, NEW i \in Cells, NEW S \in Seqs, SeqRm(i, S)
    PROVE  IInv'
<1> USE DEF IInv, IndexExact
<1>1. /\ seq_pos' = [seq_pos EXCEPT ![S][pos[i]] = @ - 1]
      /\ seq_used' = [seq_used EXCEPT ![S] = @ - 1]
      /\ pos[i] \in Positions /\ S \in seq[i]
      /\ has_shift' = has_shift /\ saved' = saved
  BY DEF SeqRm, seq_pos_dec, TypeOK
<1>2. /\ seq_pos' \in [Seqs -> [Positions -> Int]] /\ seq_used' \in [Seqs -> Int]
      /\ \A s \in Seqs, p \in Positions :
            seq_pos'[s][p] = IF s = S /\ p = pos[i] THEN seq_pos[s][p] - 1 ELSE seq_pos[s][p]
      /\ \A s \in Seqs : seq_used'[s] = IF s = S THEN seq_used[s] - 1 ELSE seq_used[s]
  BY <1>1 DEF TypeOK
<1>3. CASE seq[i] = {S}
  <2>1. EmptyCell(i)
    BY <1>3 DEF SeqRm
  <2>2. seq_pos_rm(i)
    <3>1. \A s \in Seqs : seq_pos'[s] =
              [p \in Positions |-> IF s \in seq[i] /\ p = pos[i]
                                   THEN seq_pos[s][p] - 1 ELSE seq_pos[s][p]]
      BY <1>2, <1>3
    <3>2. seq_used' = [s \in Seqs |->
              IF s \in seq[i] THEN seq_used[s] - 1 ELSE seq_used[s]]
      BY <1>2, <1>3
    <3>3. seq_pos' = [s \in Seqs |-> seq_pos'[s]]
      BY <1>2
    <3> QED BY <3>1, <3>2, <3>3 DEF seq_pos_rm
  <2>3. has_shift' \in BOOLEAN /\ (has_shift => has_shift') /\ pos[i] # -1
    BY <1>1 DEF TypeOK, Positions
  <2> QED BY <1>1, <2>1, <2>2, <2>3, EmptyStep
<1>4. CASE seq[i] # {S}
  <2>0. seq' = [seq EXCEPT ![i] = @ \ {S}] /\ UNCHANGED <<pos, shift, used>>
    BY <1>4 DEF SeqRm
  <2>1. TypeOK'
    BY <1>1, <1>2, <2>0 DEF TypeOK
  <2>2. BlankWhenEmpty' /\ SavedBlank' /\ UsedExact' /\ ShiftFlagged'
    BY <1>1, <2>0 DEF TypeOK, BlankWhenEmpty, SavedBlank, UsedExact, ShiftFlagged
  <2>3. pos'[i] = pos[i] /\ seq'[i] = seq[i] \ {S}
    BY <2>0 DEF TypeOK
  <2>4. \A j \in Cells \ {i} : pos'[j] = pos[j] /\ seq'[j] = seq[j]
    BY <2>0 DEF TypeOK
  <2>5. ASSUME NEW s \in Seqs, NEW p \in Positions
        PROVE  seq_pos'[s][p] = seq_pos[s][p] +
                   Delta(pos[i] = p /\ s \in seq[i], pos'[i] = p /\ s \in seq'[i])
    BY <1>1, <1>2, <2>3 DEF TypeOK, Delta
  <2>6. ASSUME NEW s \in Seqs
        PROVE  seq_used'[s] = seq_used[s] +
                   Delta(pos[i] # -1 /\ s \in seq[i], pos'[i] # -1 /\ s \in seq'[i])
    BY <1>1, <1>2, <2>3 DEF TypeOK, Delta, Positions
  <2>7. SeqPosExact' /\ SeqUsedExact'
    BY <2>4, <2>5, <2>6, IndexStep
  <2> QED BY <2>1, <2>2, <2>7
<1> QED BY <1>3, <1>4

(* seq_add() keeps it.                                                     *)
LEMMA SeqAddStep ==
    ASSUME IInv, NEW i \in Cells, NEW S \in Seqs, SeqAdd(i, S)
    PROVE  IInv'
<1> USE DEF IInv, IndexExact
<1>1. /\ seq_pos' = [seq_pos EXCEPT ![S][pos[i]] = @ + 1]
      /\ seq_used' = [seq_used EXCEPT ![S] = @ + 1]
      /\ pos[i] \in Positions /\ S \notin seq[i]
      /\ seq' = [seq EXCEPT ![i] = @ \cup {S}]
      /\ UNCHANGED <<pos, shift, has_shift, used, saved>>
  BY DEF SeqAdd, seq_pos_inc, TypeOK
<1>2. /\ seq_pos' \in [Seqs -> [Positions -> Int]] /\ seq_used' \in [Seqs -> Int]
      /\ \A s \in Seqs, p \in Positions :
            seq_pos'[s][p] = IF s = S /\ p = pos[i] THEN seq_pos[s][p] + 1 ELSE seq_pos[s][p]
      /\ \A s \in Seqs : seq_used'[s] = IF s = S THEN seq_used[s] + 1 ELSE seq_used[s]
  BY <1>1 DEF TypeOK
<1>3. TypeOK'
  BY <1>1, <1>2 DEF TypeOK
<1>4. BlankWhenEmpty' /\ SavedBlank' /\ UsedExact' /\ ShiftFlagged'
  BY <1>1 DEF TypeOK, BlankWhenEmpty, SavedBlank, UsedExact, ShiftFlagged, Positions
<1>5. pos'[i] = pos[i] /\ seq'[i] = seq[i] \cup {S} /\ pos[i] # -1
  BY <1>1 DEF TypeOK, Positions
<1>6. \A j \in Cells \ {i} : pos'[j] = pos[j] /\ seq'[j] = seq[j]
  BY <1>1 DEF TypeOK
<1>7. ASSUME NEW s \in Seqs, NEW p \in Positions
      PROVE  seq_pos'[s][p] = seq_pos[s][p] +
                 Delta(pos[i] = p /\ s \in seq[i], pos'[i] = p /\ s \in seq'[i])
  BY <1>1, <1>2, <1>5 DEF TypeOK, Delta
<1>8. ASSUME NEW s \in Seqs
      PROVE  seq_used'[s] = seq_used[s] +
                 Delta(pos[i] # -1 /\ s \in seq[i], pos'[i] # -1 /\ s \in seq'[i])
  BY <1>1, <1>2, <1>5 DEF TypeOK, Delta
<1>9. SeqPosExact' /\ SeqUsedExact'
  BY <1>6, <1>7, <1>8, IndexStep
<1> QED BY <1>3, <1>4, <1>9

(* pos_set() keeps it: an empty cell has no sequence to count.             *)
LEMMA PosSetStep ==
    ASSUME IInv, NEW i \in Cells, NEW q \in Positions, PosSet(i, q)
    PROVE  IInv'
<1> USE DEF IInv, IndexExact
<1>1. /\ pos' = [pos EXCEPT ![i] = q] /\ used' = used \cup {i}
      /\ pos[i] = -1 /\ seq[i] = {} /\ q # -1
      /\ UNCHANGED <<seq, shift, has_shift, seq_pos, seq_used, saved>>
  BY DEF PosSet, Positions
<1>2. TypeOK'
  BY <1>1 DEF TypeOK
<1>3. BlankWhenEmpty' /\ SavedBlank' /\ UsedExact' /\ ShiftFlagged'
  BY <1>1 DEF TypeOK, BlankWhenEmpty, SavedBlank, UsedExact, ShiftFlagged
<1>4. \A j \in Cells \ {i} : pos'[j] = pos[j] /\ seq'[j] = seq[j]
  BY <1>1 DEF TypeOK
<1>5. SeqPosExact' /\ SeqUsedExact'
  <2>1. \A s \in Seqs, p \in Positions :
            seq_pos'[s][p] = seq_pos[s][p] +
                Delta(pos[i] = p /\ s \in seq[i], pos'[i] = p /\ s \in seq'[i])
    BY <1>1 DEF TypeOK, Delta
  <2>2. \A s \in Seqs :
            seq_used'[s] = seq_used[s] +
                Delta(pos[i] # -1 /\ s \in seq[i], pos'[i] # -1 /\ s \in seq'[i])
    BY <1>1 DEF TypeOK, Delta
  <2> QED BY <1>4, <2>1, <2>2, IndexStep
<1> QED BY <1>2, <1>3, <1>5

(* A cell that moves to position q and stays alive, as in pos_add and      *)
(* pos_div; the accumulated shift may become anything because has_shift is *)
(* raised with it.                                                         *)
LEMMA MoveStep ==
    ASSUME IInv, NEW i \in Cells, NEW q \in Positions, NEW a \in Int,
           pos[i] # -1, seq_pos_move(i, q), pos' = [pos EXCEPT ![i] = q],
           shift' = [shift EXCEPT ![i] = a], has_shift' = TRUE,
           UNCHANGED <<seq, used, saved>>
    PROVE  IInv'
<1> USE DEF IInv, IndexExact
<1>1. /\ seq_pos' \in [Seqs -> [Positions -> Int]]
      /\ \A s \in Seqs, p \in Positions :
            seq_pos'[s][p] = IF s \in seq[i]
                             THEN seq_pos[s][p] - (IF p = pos[i] THEN 1 ELSE 0)
                                                + (IF p = q THEN 1 ELSE 0)
                             ELSE seq_pos[s][p]
      /\ seq_used' = seq_used
  BY DEF seq_pos_move, TypeOK
<1>2. q # -1
  BY DEF Positions
<1>3. TypeOK'
  BY <1>1 DEF TypeOK
<1>4. BlankWhenEmpty' /\ SavedBlank' /\ UsedExact' /\ ShiftFlagged'
  BY <1>2 DEF TypeOK, BlankWhenEmpty, SavedBlank, UsedExact, ShiftFlagged
<1>5. pos'[i] = q /\ seq'[i] = seq[i]
  BY DEF TypeOK
<1>6. \A j \in Cells \ {i} : pos'[j] = pos[j] /\ seq'[j] = seq[j]
  BY DEF TypeOK
<1>7. SeqPosExact' /\ SeqUsedExact'
  <2>1. ASSUME NEW s \in Seqs, NEW p \in Positions
        PROVE  seq_pos'[s][p] = seq_pos[s][p] +
                   Delta(pos[i] = p /\ s \in seq[i], pos'[i] = p /\ s \in seq'[i])
    BY <1>1, <1>5 DEF TypeOK, Delta
  <2>2. ASSUME NEW s \in Seqs
        PROVE  seq_used'[s] = seq_used[s] +
                   Delta(pos[i] # -1 /\ s \in seq[i], pos'[i] # -1 /\ s \in seq'[i])
    BY <1>1, <1>2, <1>5 DEF TypeOK, Delta
  <2> QED BY <1>6, <2>1, <2>2, IndexStep
<1> QED BY <1>3, <1>4, <1>7

(* pos_add() keeps it, above and below zero.                               *)
LEMMA PosAddStep ==
    ASSUME IInv, NEW i \in Cells, NEW d \in -MaxShift .. MaxShift, PosAdd(i, d)
    PROVE  IInv'
<1>1. pos[i] \in Positions /\ pos[i] # -1 /\ d \in Int /\ shift[i] \in Int
  BY CellsAssumption DEF IInv, TypeOK, PosAdd
<1>2. CASE pos[i] + d >= 0
  <2>1. pos[i] + d \in Positions /\ shift[i] + d \in Int
    BY <1>1, <1>2, CellsAssumption DEF PosAdd, Positions
  <2>2. /\ seq_pos_move(i, pos[i] + d)
        /\ pos' = [pos EXCEPT ![i] = pos[i] + d]
        /\ shift' = [shift EXCEPT ![i] = shift[i] + d]
        /\ has_shift' = TRUE /\ UNCHANGED <<seq, used, saved>>
    BY <1>1, <1>2 DEF PosAdd, Positions
  <2> QED BY <1>1, <2>1, <2>2, MoveStep
<1>3. CASE pos[i] + d < 0
  <2>1. seq_pos_rm(i) /\ EmptyCell(i) /\ has_shift' = TRUE /\ UNCHANGED saved
    BY <1>1, <1>3 DEF PosAdd, Positions
  <2> QED BY <1>1, <2>1, EmptyStep
<1> QED BY <1>1, <1>2, <1>3 DEF Positions

(* pos_div() keeps it: the quotient is still a position.                   *)
LEMMA PosDivStep ==
    ASSUME IInv, NEW i \in Cells, NEW d \in Divisors, PosDiv(i, d)
    PROVE  IInv'
<1>1. pos[i] \in Positions /\ pos[i] # -1 /\ d \in Nat /\ d > 0 /\ shift[i] \in Int
  BY CellsAssumption DEF IInv, TypeOK, PosDiv
<1>2. pos[i] \div d \in Positions
  BY <1>1, CellsAssumption DEF Positions
<1>3. shift[i] + (pos[i] - (pos[i] \div d)) \in Int
  BY <1>1, <1>2 DEF Positions
<1> QED BY <1>1, <1>2, <1>3, MoveStep DEF PosDiv

(* set() over any set of cells: the counters lose what the replaced cells  *)
(* held and gain what the copy holds.                                      *)
LEMMA SetStep == ASSUME IInv, Set PROVE IInv'
<1> DEFINE I == saved.idxs
<1> USE DEF IInv, IndexExact
<1>1. /\ I \in SUBSET Cells
      /\ pos' = [i \in Cells |-> IF i \in I THEN saved.pos[i] ELSE pos[i]]
      /\ seq' = [i \in Cells |-> IF i \in I THEN saved.seq[i] ELSE seq[i]]
      /\ used' = (used \cup {i \in I : saved.pos[i] # -1}) \ (I \ {i \in I : saved.pos[i] # -1})
      /\ saved' = NoCopy /\ UNCHANGED <<shift, has_shift>>
      /\ \A i \in I : shift[i] = 0
  BY DEF Set, TypeOK
<1>2. /\ \A i \in I : pos'[i] = saved.pos[i] /\ seq'[i] = saved.seq[i]
      /\ \A i \in Cells \ I : pos'[i] = pos[i] /\ seq'[i] = seq[i]
  BY <1>1
<1>3. pos' \in [Cells -> Positions \cup {-1}] /\ seq' \in [Cells -> SUBSET Seqs]
  BY <1>1 DEF TypeOK
<1>4. ASSUME NEW s \in Seqs, NEW p \in Positions
      PROVE  /\ Cardinality(HoldingAt(I, pos, seq, s, p)) \in Nat
             /\ Cardinality(HoldingAt(I, saved.pos, saved.seq, s, p)) \in Nat
             /\ Cardinality(HoldingAt(Cells, pos', seq', s, p)) =
                  (Cardinality(HoldingAt(Cells, pos, seq, s, p))
                    - Cardinality(HoldingAt(I, pos, seq, s, p)))
                    + Cardinality(HoldingAt(I, saved.pos, saved.seq, s, p))
  <2> DEFINE A == HoldingAt(Cells, pos, seq, s, p)
             B == HoldingAt(Cells, pos', seq', s, p)
  <2>1. A \in SUBSET Cells /\ B \in SUBSET Cells
    BY DEF HoldingAt
  <2>2. A \ I = B \ I
    BY <1>2 DEF HoldingAt
  <2>3. /\ A \cap I = HoldingAt(I, pos, seq, s, p)
        /\ B \cap I = HoldingAt(I, saved.pos, saved.seq, s, p)
    BY <1>1, <1>2 DEF HoldingAt
  <2> HIDE DEF A, B, I
  <2>4. /\ Cardinality(A) \in Nat /\ Cardinality(A \cap I) \in Nat
        /\ Cardinality(A \ I) = Cardinality(A) - Cardinality(A \cap I)
    BY <2>1, CountOutside
  <2>5. /\ Cardinality(B) \in Nat /\ Cardinality(B \cap I) \in Nat
        /\ Cardinality(B \ I) = Cardinality(B) - Cardinality(B \cap I)
    BY <2>1, CountOutside
  <2>6. Cardinality(B) = (Cardinality(A) - Cardinality(A \cap I)) + Cardinality(B \cap I)
    BY <2>2, <2>4, <2>5
  <2> QED BY <2>3, <2>4, <2>5, <2>6 DEF A, B
<1>5. ASSUME NEW s \in Seqs
      PROVE  /\ Cardinality(Holding(I, pos, seq, s)) \in Nat
             /\ Cardinality(Holding(I, saved.pos, saved.seq, s)) \in Nat
             /\ Cardinality(Holding(Cells, pos', seq', s)) =
                  (Cardinality(Holding(Cells, pos, seq, s))
                    - Cardinality(Holding(I, pos, seq, s)))
                    + Cardinality(Holding(I, saved.pos, saved.seq, s))
  <2> DEFINE A == Holding(Cells, pos, seq, s)
             B == Holding(Cells, pos', seq', s)
  <2>1. A \in SUBSET Cells /\ B \in SUBSET Cells
    BY DEF Holding
  <2>2. A \ I = B \ I
    BY <1>2 DEF Holding
  <2>3. /\ A \cap I = Holding(I, pos, seq, s)
        /\ B \cap I = Holding(I, saved.pos, saved.seq, s)
    BY <1>1, <1>2 DEF Holding
  <2> HIDE DEF A, B, I
  <2>4. /\ Cardinality(A) \in Nat /\ Cardinality(A \cap I) \in Nat
        /\ Cardinality(A \ I) = Cardinality(A) - Cardinality(A \cap I)
    BY <2>1, CountOutside
  <2>5. /\ Cardinality(B) \in Nat /\ Cardinality(B \cap I) \in Nat
        /\ Cardinality(B \ I) = Cardinality(B) - Cardinality(B \cap I)
    BY <2>1, CountOutside
  <2>6. Cardinality(B) = (Cardinality(A) - Cardinality(A \cap I)) + Cardinality(B \cap I)
    BY <2>2, <2>4, <2>5
  <2> QED BY <2>3, <2>4, <2>5, <2>6 DEF A, B
<1>6. seq_pos' = [s \in Seqs |-> [p \in Positions |->
                     (seq_pos[s][p] - Cardinality(HoldingAt(I, pos, seq, s, p)))
                       + Cardinality(HoldingAt(I, saved.pos, saved.seq, s, p))]]
  BY DEF Set
<1>7. seq_used' = [s \in Seqs |->
                     (seq_used[s] - Cardinality(Holding(I, pos, seq, s)))
                       + Cardinality(Holding(I, saved.pos, saved.seq, s))]
  BY DEF Set
<1> HIDE DEF I
<1>8. TypeOK'
  <2>1. seq_pos' \in [Seqs -> [Positions -> Int]]
    <3>1. \A s \in Seqs, p \in Positions : seq_pos[s][p] \in Int
      BY DEF TypeOK
    <3> QED BY <1>4, <1>6, <3>1
  <2>2. seq_used' \in [Seqs -> Int]
    <3>1. \A s \in Seqs : seq_used[s] \in Int
      BY DEF TypeOK
    <3> QED BY <1>5, <1>7, <3>1
  <2>3. /\ saved'.idxs \subseteq Cells
        /\ saved'.pos \in [saved'.idxs -> Positions \cup {-1}]
        /\ saved'.seq \in [saved'.idxs -> SUBSET Seqs]
    BY <1>1, NoCopyType DEF NoCopyTyped
  <2>4. used' \subseteq Cells
    BY <1>1 DEF TypeOK
  <2> QED BY <1>1, <1>3, <2>1, <2>2, <2>3, <2>4 DEF TypeOK
<1>9. BlankWhenEmpty' /\ UsedExact'
  BY <1>1, <1>2, <1>3 DEF TypeOK, BlankWhenEmpty, SavedBlank, UsedExact, I
<1>10. SavedBlank' /\ ShiftFlagged'
  BY <1>1 DEF NoCopy, SavedBlank, ShiftFlagged
<1>11. SeqPosExact'
  BY <1>4, <1>6 DEF SeqPosExact
<1>12. SeqUsedExact'
  BY <1>5, <1>7 DEF SeqUsedExact
<1> QED BY <1>8, <1>9, <1>10, <1>11, <1>12

(* The cells of an empty cache hold nothing.                               *)
LEMMA InitInv == Init => IInv
<1> SUFFICES ASSUME Init PROVE IInv
  OBVIOUS
<1>1. TypeOK
  <2>1. saved = NoCopy /\ has_shift \in BOOLEAN /\ used \subseteq Cells
    BY Zenon DEF Init
  <2>2. /\ pos \in [Cells -> Positions \cup {-1}] /\ seq \in [Cells -> SUBSET Seqs]
        /\ shift \in [Cells -> Int]
        /\ seq_pos \in [Seqs -> [Positions -> Int]] /\ seq_used \in [Seqs -> Int]
    BY DEF Init
  <2> QED BY <2>1, <2>2, NoCopyType, Zenon DEF TypeOK, NoCopyTyped
<1>2. BlankWhenEmpty /\ SavedBlank /\ ShiftFlagged /\ UsedExact
  BY DEF Init, NoCopy, BlankWhenEmpty, SavedBlank, ShiftFlagged, UsedExact
<1>3. \A s \in Seqs, p \in Positions : HoldingAt(Cells, pos, seq, s, p) = {}
  BY DEF Init, HoldingAt
<1>4. \A s \in Seqs : Holding(Cells, pos, seq, s) = {}
  BY DEF Init, Holding
<1>5. SeqPosExact /\ SeqUsedExact
  BY <1>3, <1>4, FS_EmptySet DEF Init, SeqPosExact, SeqUsedExact
<1> QED BY <1>1, <1>2, <1>5 DEF IInv, IndexExact

(* reset() keeps it.                                                       *)
LEMMA ResetStep == ASSUME IInv, Reset PROVE IInv'
<1>1. TypeOK'
  <2>1. saved' = NoCopy /\ has_shift' \in BOOLEAN /\ used' \subseteq Cells
    BY Zenon DEF Reset
  <2>2. /\ pos' \in [Cells -> Positions \cup {-1}] /\ seq' \in [Cells -> SUBSET Seqs]
        /\ shift' \in [Cells -> Int]
        /\ seq_pos' \in [Seqs -> [Positions -> Int]] /\ seq_used' \in [Seqs -> Int]
    BY DEF Reset
  <2> QED BY <2>1, <2>2, NoCopyType, Zenon DEF TypeOK, NoCopyTyped
<1>2. BlankWhenEmpty' /\ SavedBlank' /\ ShiftFlagged' /\ UsedExact'
  BY DEF Reset, NoCopy, BlankWhenEmpty, SavedBlank, ShiftFlagged, UsedExact
<1>3. \A s \in Seqs, p \in Positions : HoldingAt(Cells, pos', seq', s, p) = {}
  BY DEF Reset, HoldingAt
<1>4. \A s \in Seqs : Holding(Cells, pos', seq', s) = {}
  BY DEF Reset, Holding
<1>5. SeqPosExact' /\ SeqUsedExact'
  BY <1>3, <1>4, FS_EmptySet DEF Reset, SeqPosExact, SeqUsedExact
<1> QED BY <1>1, <1>2, <1>5 DEF IInv, IndexExact

(* reset_shift() keeps it.                                                 *)
LEMMA ResetShiftStep == ASSUME IInv, ResetShift PROVE IInv'
<1>1. /\ shift' = [i \in Cells |-> 0] /\ has_shift' = FALSE
      /\ UNCHANGED <<pos, seq, used, seq_pos, seq_used, saved>>
  BY DEF ResetShift
<1>2. TypeOK'
  <2>1. has_shift' \in BOOLEAN
    BY <1>1, Zenon
  <2>2. shift' \in [Cells -> Int]
    BY <1>1
  <2> QED BY <1>1, <2>1, <2>2, Zenon DEF IInv, TypeOK
<1>3. BlankWhenEmpty' /\ SavedBlank' /\ ShiftFlagged'
  BY <1>1 DEF IInv, BlankWhenEmpty, SavedBlank, ShiftFlagged
<1>4. IndexExact'
  BY <1>1 DEF IInv, IndexExact, UsedExact, SeqPosExact, SeqUsedExact
<1> QED BY <1>2, <1>3, <1>4 DEF IInv

(* cp() keeps it: what is copied out of typed, blank-when-empty cells is   *)
(* so too.                                                                 *)
LEMMA CpStep == ASSUME IInv, NEW J \in SUBSET Cells, Cp(J) PROVE IInv'
<1>1. /\ saved'.idxs = J
      /\ saved'.pos = [i \in J |-> pos[i]] /\ saved'.seq = [i \in J |-> seq[i]]
      /\ UNCHANGED <<pos, seq, shift, has_shift, used, seq_pos, seq_used>>
  BY DEF Cp, perCell, indices
<1>2. TypeOK'
  BY <1>1 DEF IInv, TypeOK
<1>3. SavedBlank' /\ BlankWhenEmpty' /\ ShiftFlagged'
  BY <1>1 DEF IInv, SavedBlank, BlankWhenEmpty, ShiftFlagged
<1>4. IndexExact'
  BY <1>1 DEF IInv, IndexExact, UsedExact, SeqPosExact, SeqUsedExact
<1> QED BY <1>2, <1>3, <1>4 DEF IInv

(* Every operation of llama_kv_cells keeps the inductive invariant.        *)
LEMMA InvStep == IInv /\ [Next]_vars => IInv'
<1> SUFFICES ASSUME IInv, [Next]_vars PROVE IInv'
  OBVIOUS
<1>1. CASE Reset
  BY <1>1, ResetStep
<1>2. CASE ResetShift
  BY <1>2, ResetShiftStep
<1>3. ASSUME NEW J \in SUBSET Cells, Cp(J) PROVE IInv'
  BY <1>3, CpStep
<1>4. CASE Set
  BY <1>4, SetStep
<1>5. ASSUME NEW i \in Cells, CellOp(i) PROVE IInv'
  BY <1>5, RmStep, SeqRmStep, SeqKeepStep, SeqAddStep, PosSetStep, PosAddStep,
     PosDivStep DEF CellOp, CellEdit
<1>6. CASE UNCHANGED vars
  BY <1>6 DEF vars, IInv, TypeOK, BlankWhenEmpty, SavedBlank, ShiftFlagged,
     IndexExact, UsedExact, SeqPosExact, SeqUsedExact
<1> QED BY <1>1, <1>2, <1>3, <1>4, <1>5, <1>6 DEF Next

-----------------------------------------------------------------------------
(* The strengthened invariant holds throughout.                            *)
THEOREM CellsInvariant == Spec => []IInv
  BY InitInv, InvStep, PTL DEF Spec

(* Every variable keeps its type.                                          *)
THEOREM CellsTypeCorrect == Spec => []TypeOK
<1>1. IInv => TypeOK
  BY DEF IInv
<1> QED BY <1>1, CellsInvariant, PTL

(* used, seq_pos and seq_used always equal what a scan of the cells gives, *)
(* so get_used, seq_size and the range queries can be trusted without one. *)
THEOREM CellsIndexExact == Spec => []IndexExact
<1>1. IInv => IndexExact
  BY DEF IInv
<1> QED BY <1>1, CellsInvariant, PTL

(* No operation leaves a sequence or a shift behind in an empty cell, so   *)
(* the next pos_set() starts from a blank one.                             *)
THEOREM CellsBlankWhenEmpty == Spec => []BlankWhenEmpty
<1>1. IInv => BlankWhenEmpty
  BY DEF IInv
<1> QED BY <1>1, CellsInvariant, PTL

(* No pending shift goes unflagged, so update() always builds the K-shift  *)
(* graph when one is due.                                                  *)
THEOREM CellsShiftFlagged == Spec => []ShiftFlagged
<1>1. IInv => ShiftFlagged
  BY DEF IInv
<1> QED BY <1>1, CellsInvariant, PTL

-----------------------------------------------------------------------------
(***************************************************************************)
(* The K-shift.  But for cells moved by pos_div it is right, for any       *)
(* number of cells, sequences and positions: an invariant relates the      *)
(* rotation of a row to the position and the pending shift of its cell,    *)
(* inside and outside of the dry run of prepare().                         *)
(***************************************************************************)

(* Outside of the copy a row is a pending shift away from its position;    *)
(* inside it the row is where the copy says, whatever the dry run has made *)
(* of the cell.                                                            *)
RowInv ==
    /\ kpos \in [Cells -> Int]
    /\ \A i \in Cells \ saved.idxs :
          pos[i] # -1 /\ i \notin divided => kpos[i] + shift[i] = pos[i]
    /\ \A i \in saved.idxs :
          /\ shift[i] = 0
          /\ saved.pos[i] # -1 /\ i \notin divided => kpos[i] = saved.pos[i]

-----------------------------------------------------------------------------
(* Every step of the rows is a step of the cells.                          *)
LEMMA CellsStep == IInv /\ [KNext]_kvars => [Next]_vars
<1> SUFFICES ASSUME IInv, [KNext]_kvars PROVE [Next]_vars
  OBVIOUS
<1>1. CASE KShift
  BY <1>1 DEF KShift, Next
<1>2. CASE Edit
  BY <1>2 DEF Edit, Next, CellOp
<1>6. CASE Divide
  BY <1>6 DEF Divide, Next, CellOp
<1>3. CASE DryEdit
  <2>1. saved.idxs \subseteq Cells
    BY DEF IInv, TypeOK
  <2> QED BY <1>3, <2>1 DEF DryEdit, Next, CellOp, CellEdit
<1>4. CASE Restore
  BY <1>4 DEF Restore, Next
<1>5. CASE UNCHANGED kvars
  BY <1>5 DEF kvars
<1> QED BY <1>1, <1>2, <1>3, <1>4, <1>5, <1>6 DEF KNext

(* What an operation on cell i does to positions and shifts.               *)
MovesOnly(i) ==
    /\ \A j \in Cells \ {i} : pos'[j] = pos[j] /\ shift'[j] = shift[j]
    /\ \/ pos'[i] = -1 /\ shift'[i] = 0
       \/ pos'[i] - shift'[i] = pos[i] - shift[i] /\ (pos[i] = -1 => shift'[i] = 0)
       \/ pos[i] = -1 /\ shift'[i] = shift[i]
    /\ saved' = saved

(* Emptying a cell, in whichever operation, moves only it.                 *)
LEMMA EmptyMoves ==
    ASSUME IInv, NEW i \in Cells, EmptyCell(i), saved' = saved
    PROVE  MovesOnly(i) /\ pos'[i] = -1 /\ shift'[i] = 0
  BY DEF IInv, TypeOK, EmptyCell, MovesOnly

(* Operations that do not touch positions and shifts move nothing.         *)
LEMMA StillMoves ==
    ASSUME IInv, NEW i \in Cells, UNCHANGED <<pos, shift, saved>>
    PROVE  MovesOnly(i) /\ pos'[i] = pos[i] /\ shift'[i] = shift[i]
<1>1. pos[i] \in Int /\ shift[i] \in Int
  BY CellsAssumption DEF IInv, TypeOK, Positions
<1> QED BY <1>1 DEF IInv, BlankWhenEmpty, MovesOnly

(* The operations of a dry run: they never leave a shift in a cell.        *)
LEMMA DryMoves ==
    ASSUME IInv, NEW i \in Cells,
           \/ Rm(i)
           \/ \E p \in Positions : PosSet(i, p)
           \/ \E S \in Seqs : SeqAdd(i, S) \/ SeqRm(i, S)
    PROVE  MovesOnly(i) /\ (shift[i] = 0 => shift'[i] = 0)
<1>1. CASE Rm(i)
  BY <1>1, EmptyMoves DEF Rm
<1>2. ASSUME NEW p \in Positions, PosSet(i, p)
      PROVE  MovesOnly(i) /\ (shift[i] = 0 => shift'[i] = 0)
  BY <1>2 DEF PosSet, MovesOnly, IInv, TypeOK
<1>3. ASSUME NEW S \in Seqs, SeqAdd(i, S)
      PROVE  MovesOnly(i) /\ (shift[i] = 0 => shift'[i] = 0)
  BY <1>3, StillMoves DEF SeqAdd
<1>4. ASSUME NEW S \in Seqs, SeqRm(i, S)
      PROVE  MovesOnly(i) /\ (shift[i] = 0 => shift'[i] = 0)
  BY <1>4, StillMoves, EmptyMoves DEF SeqRm
<1> QED BY <1>1, <1>2, <1>3, <1>4

(* Every operation on a cell, pos_div excepted.                            *)
LEMMA OpMoves ==
    ASSUME IInv, NEW i \in Cells, CellEdit(i)
    PROVE  MovesOnly(i)
<1>1. CASE \/ Rm(i)
           \/ \E p \in Positions : PosSet(i, p)
           \/ \E S \in Seqs : SeqAdd(i, S) \/ SeqRm(i, S)
  BY <1>1, DryMoves
<1>2. ASSUME NEW S \in Seqs, SeqKeep(i, S) PROVE MovesOnly(i)
  BY <1>2, StillMoves, EmptyMoves DEF SeqKeep, SeqKeepMember, SeqKeepOther
<1>3. ASSUME NEW d \in -MaxShift .. MaxShift, PosAdd(i, d) PROVE MovesOnly(i)
  <2>1. CASE pos[i] + d < 0
    BY <1>3, <2>1, EmptyMoves, CellsAssumption DEF PosAdd, IInv, TypeOK, Positions
  <2>2. CASE pos[i] + d >= 0
    <3>1. /\ pos' = [pos EXCEPT ![i] = @ + d] /\ shift' = [shift EXCEPT ![i] = @ + d]
          /\ saved' = saved /\ pos[i] # -1
      BY <1>3, <2>2, CellsAssumption DEF PosAdd, IInv, TypeOK, Positions
    <3>2. pos \in [Cells -> Int] /\ shift \in [Cells -> Int] /\ d \in Int
      BY CellsAssumption DEF IInv, TypeOK, Positions
    <3> QED BY <3>1, <3>2 DEF MovesOnly
  <2>3. pos[i] \in Int /\ d \in Int
    BY CellsAssumption DEF IInv, TypeOK, Positions
  <2> QED BY <2>1, <2>2, <2>3
<1> QED BY <1>1, <1>2, <1>3 DEF CellEdit

-----------------------------------------------------------------------------
(* The rows keep the invariant when the cells are edited.                  *)
LEMMA EditRows ==
    ASSUME IInv, IInv', RowInv, Edit
    PROVE  RowInv'
<1>1. saved.idxs = {}
  BY DEF Edit, DryRun
<1>2. /\ kpos' = [j \in Cells |-> IF pos[j] = -1 \/ pos'[j] = -1 THEN pos'[j] ELSE kpos[j]]
      /\ pos \in [Cells -> Int] /\ pos' \in [Cells -> Int]
      /\ shift \in [Cells -> Int] /\ shift' \in [Cells -> Int]
      /\ divided' = {j \in divided : pos[j] # -1 /\ pos'[j] # -1}
  BY CellsAssumption DEF Edit, RowFollowsCell, IInv, TypeOK, Positions
<1>3. kpos' \in [Cells -> Int]
  BY <1>2 DEF RowInv
<1>4. CASE Reset
  <2>1. pos' = [j \in Cells |-> -1] /\ saved'.idxs = {}
    BY <1>4 DEF Reset, NoCopy
  <2> QED BY <2>1, <1>3 DEF RowInv
<1>5. ASSUME NEW J \in SUBSET Cells, Cp(J) PROVE RowInv'
  <2>1. /\ saved'.idxs = J /\ saved'.pos = [j \in J |-> pos[j]]
        /\ pos' = pos /\ shift' = shift /\ \A j \in J : shift[j] = 0
    BY <1>5 DEF Cp, perCell
  <2>2. \A j \in Cells : pos[j] # -1 /\ j \notin divided' =>
                          kpos'[j] = kpos[j] /\ kpos[j] + shift[j] = pos[j]
    BY <1>1, <1>2, <2>1 DEF RowInv
  <2>3. \A j \in J : saved'.pos[j] # -1 /\ j \notin divided' => kpos'[j] = saved'.pos[j]
    BY <1>2, <2>1, <2>2 DEF RowInv
  <2> QED BY <1>3, <2>1, <2>2, <2>3 DEF RowInv
<1>6. ASSUME NEW i \in Cells, CellEdit(i) PROVE RowInv'
  <2>1. MovesOnly(i)
    BY <1>6, OpMoves
  <2>2. \A j \in Cells : pos'[j] # -1 /\ j \notin divided' => kpos'[j] + shift'[j] = pos'[j]
    <3>1. \A j \in Cells \ {i} :
            pos'[j] # -1 /\ j \notin divided' => kpos'[j] + shift'[j] = pos'[j]
      BY <1>1, <1>2, <2>1 DEF RowInv, MovesOnly
    <3>2. pos'[i] # -1 /\ pos[i] = -1 => kpos'[i] + shift'[i] = pos'[i]
      BY <1>2, <2>1 DEF MovesOnly, IInv, BlankWhenEmpty
    <3>3. pos'[i] # -1 /\ pos[i] # -1 /\ i \notin divided' => kpos'[i] + shift'[i] = pos'[i]
      BY <1>1, <1>2, <2>1 DEF RowInv, MovesOnly
    <3> QED BY <3>1, <3>2, <3>3
  <2> QED BY <1>1, <1>3, <2>1, <2>2 DEF RowInv, MovesOnly
<1> QED BY <1>4, <1>5, <1>6 DEF Edit

(* pos_div moves one cell, which is then left out.                         *)
LEMMA DivideRows ==
    ASSUME IInv, RowInv, Divide
    PROVE  RowInv'
<1>1. PICK i \in Cells, d \in Divisors : PosDiv(i, d) /\ divided' = divided \cup {i}
  BY DEF Divide
<1>2. saved.idxs = {} /\ saved' = saved /\ kpos' = kpos
  BY <1>1 DEF Divide, DryRun, PosDiv
<1>3. \A j \in Cells \ {i} : pos'[j] = pos[j] /\ shift'[j] = shift[j]
  BY <1>1 DEF PosDiv, IInv, TypeOK
<1> QED BY <1>1, <1>2, <1>3 DEF RowInv

(* The rows keep the invariant in a dry run, which writes none of them.    *)
LEMMA DryRows ==
    ASSUME IInv, IInv', RowInv, DryEdit
    PROVE  RowInv'
<1>1. PICK i \in Cells :
        /\ \/ Rm(i)
           \/ \E p \in Positions : PosSet(i, p)
           \/ \E S \in Seqs : SeqAdd(i, S) \/ SeqRm(i, S)
        /\ i \in saved.idxs \/ \E S \in Seqs : SeqRm(i, S)
  BY DEF DryEdit, IInv, TypeOK
<1>2. MovesOnly(i) /\ (shift[i] = 0 => shift'[i] = 0)
  BY <1>1, DryMoves
<1>3. kpos' = kpos /\ saved' = saved /\ divided' = divided
  BY <1>2 DEF DryEdit, MovesOnly
<1>4. CASE i \in saved.idxs
  BY <1>2, <1>3, <1>4 DEF RowInv, MovesOnly, IInv, TypeOK
<1>5. CASE i \notin saved.idxs
  <2>1. PICK S \in Seqs : SeqRm(i, S)
    BY <1>1, <1>5
  <2>2. pos'[i] = -1 \/ (pos'[i] = pos[i] /\ shift'[i] = shift[i])
    BY <2>1, EmptyMoves DEF SeqRm
  <2>3. \A j \in Cells \ saved.idxs :
          pos'[j] # -1 /\ j \notin divided => kpos[j] + shift'[j] = pos'[j]
    <3>1. kpos[i] + shift[i] = pos[i] \/ pos[i] = -1 \/ i \in divided
      BY <1>5 DEF RowInv
    <3>2. \A j \in Cells \ saved.idxs :
            j # i /\ pos'[j] # -1 /\ j \notin divided => kpos[j] + shift'[j] = pos'[j]
      BY <1>2 DEF RowInv, MovesOnly
    <3> QED BY <2>2, <3>1, <3>2
  <2>4. \A j \in saved.idxs : shift'[j] = 0
    BY <1>2, <1>5 DEF RowInv, MovesOnly, IInv, TypeOK
  <2> QED BY <1>3, <2>3, <2>4 DEF RowInv
<1> QED BY <1>4, <1>5

(* set() finds the rows of the copied cells where they were.               *)
LEMMA RestoreRows ==
    ASSUME IInv, RowInv, Restore
    PROVE  RowInv'
<1>1. /\ pos' = [i \in Cells |-> IF i \in saved.idxs THEN saved.pos[i] ELSE pos[i]]
      /\ saved'.idxs = {} /\ shift' = shift /\ kpos' = kpos /\ divided' = divided
  BY DEF Restore, Set, NoCopy
<1>2. saved.idxs \subseteq Cells
  BY DEF IInv, TypeOK
<1> QED BY <1>1, <1>2 DEF RowInv

(* The K-shift graph rotates every row by what its cell has accumulated.   *)
LEMMA KShiftRows ==
    ASSUME IInv, RowInv, KShift
    PROVE  RowInv'
<1>1. /\ kpos' = [i \in Cells |-> IF pos[i] = -1 THEN -1 ELSE kpos[i] + shift[i]]
      /\ shift' = [i \in Cells |-> 0] /\ pos' = pos /\ saved' = saved /\ saved.idxs = {}
      /\ divided' = divided
  BY DEF KShift, ResetShift, DryRun
<1>2. kpos \in [Cells -> Int] /\ shift \in [Cells -> Int] /\ pos \in [Cells -> Int]
  BY CellsAssumption DEF RowInv, IInv, TypeOK, Positions
<1> QED BY <1>1, <1>2 DEF RowInv

-----------------------------------------------------------------------------
(* The two invariants together are inductive.                              *)
LEMMA RowStep ==
    IInv /\ RowInv /\ [KNext]_kvars => IInv' /\ RowInv'
<1> SUFFICES ASSUME IInv, RowInv, [KNext]_kvars PROVE IInv' /\ RowInv'
  OBVIOUS
<1>1. IInv'
  BY CellsStep, InvStep
<1>2. CASE UNCHANGED kvars
  BY <1>2, <1>1 DEF kvars, vars, RowInv
<1> QED BY <1>1, <1>2, KShiftRows, EditRows, DivideRows, DryRows, RestoreRows DEF KNext

(* After every K-shift of update(), whatever pos_add, removals, refills    *)
(* and dry runs came before it, each K row whose cell pos_div has not      *)
(* moved is rotated to the position the cell claims.                       *)
THEOREM RowsAtPositions == KSpec => []KRowAtPosition
<1>1. KInit => IInv /\ RowInv
  <2>1. KInit => IInv
    BY InitInv DEF KInit
  <2>2. KInit => RowInv
    BY DEF KInit, Init, RowInv, NoCopy
  <2> QED BY <2>1, <2>2
<1>2. IInv /\ RowInv => KRowAtPosition
  <2> SUFFICES ASSUME IInv, RowInv, ~has_shift, ~DryRun, NEW i \in Cells \ divided, pos[i] # -1
               PROVE  kpos[i] = pos[i]
    BY DEF KRowAtPosition
  <2>1. shift[i] = 0 /\ saved.idxs = {}
    BY DEF IInv, ShiftFlagged, DryRun
  <2>2. kpos[i] + shift[i] = pos[i] /\ kpos[i] \in Int
    BY <2>1 DEF RowInv
  <2> QED BY <2>1, <2>2
<1>3. IInv /\ RowInv /\ [KNext]_kvars => IInv' /\ RowInv'
  BY RowStep
<1> QED BY <1>1, <1>2, <1>3, PTL DEF KSpec
=============================================================================
