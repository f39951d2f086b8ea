--------------------------- MODULE KvPlaceProofs ---------------------------
(***************************************************************************)
(* The invariants of KvPlace hold for every number of sequences, window,   *)
(* cache and batch size, and for both values of kv_unified.                *)
(*                                                                         *)
(* The dry run. The recovery stack holds, per ubatch, a copy of the cells  *)
(* that the ubatch overwrites; it is unwound from its top. What a cell     *)
(* becomes in the end is therefore the copy in the lowest level that has   *)
(* one, or what the cell holds now if no level has. DryRunInv says of that *)
(* value, at every moment of the dry run and of the unwinding, that it is  *)
(* what the cell held when the batch came, for all sequences but the hurt  *)
(* ones. How a batch is split and which cells find_slot takes plays no     *)
(* part.                                                                   *)
(*                                                                         *)
(* The types. TypeInv adds what a split does to the tokens: the ubatches   *)
(* of the stack and of the plan take the tokens of a sequence in order and *)
(* without a hole, from the next position on (InOrder), and each takes as  *)
(* many different cells as it has tokens (IsLevel).                        *)
(*                                                                         *)
(* The cells. CacheInv says that the cells, or during a dry run those that *)
(* it will put back, hold each sequence's window and no hole (Sound), and  *)
(* that no ubatch of the plan overwrites a position that a token of it or  *)
(* of a later one still attends to (SafeTokens, SafeCells). find_slot      *)
(* looks at the cells of the dry run while apply_ubatch works on those of  *)
(* the real run; TriedIn .. TriedSingles say how the two are related.      *)
(*                                                                         *)
(* A failure. FailInv: when find_slot finds no slot, two sequences share a *)
(* cell that no level of the stack has a copy of. This needs a cache that  *)
(* the windows fit into beside a ubatch (RoomForWindows).                  *)
(***************************************************************************)
EXTENDS KvPlace, QueueLemmas

(* A cell has a position and a set of sequences.                           *)
IsCell(x) == x = [pos |-> x.pos, seqs |-> x.seqs]

IsCells(k) == /\ k = [st \in Streams |-> k[st]]
              /\ \A st \in Streams : /\ k[st] = [c \in Cells |-> k[st][c]]
                                     /\ \A c \in Cells : IsCell(k[st][c])

IsSequence(q) == Len(q) \in Nat /\ q = [i \in 1 .. Len(q) |-> q[i]]

(* Cell x holds what cell y does, but for some of the sequences of H.      *)
Agree(x, y, H) == /\ x.seqs \subseteq y.seqs /\ y.seqs \ x.seqs \subseteq H
                  /\ x.seqs # {} => x.pos = y.pos

(* Level i of the recovery stack has a copy of cell c of stream st.        *)
Covers(i, st, c) == st \in DOMAIN stack[i].ub /\ c \in DOMAIN stack[i].old[st]

Copies == \A i \in 1 .. Len(stack), st \in Streams, c \in Cells :
              Covers(i, st, c) => IsCell(stack[i].old[st][c])

(* Unwinding the stack would put back what the cells held before.          *)
WouldUndo ==
    before # <<>> => \A st \in Streams, c \in Cells :
        /\ (\A i \in 1 .. Len(stack) : ~Covers(i, st, c))
               => Agree(cells[st][c], before[st][c], hurt)
        /\ \A i \in 1 .. Len(stack) :
               Covers(i, st, c) /\ (\A j \in 1 .. i - 1 : ~Covers(j, st, c))
                   => Agree(stack[i].old[st][c], before[st][c], hurt)

Phases == /\ pc \notin {"prepare", "failed"} => stack = <<>>
          /\ pc = "compute" => before = <<>>

DryRunInv == /\ unified \in BOOLEAN /\ IsCells(cells) /\ IsSequence(stack)
             /\ Copies /\ WouldUndo /\ Phases

-----------------------------------------------------------------------------
(* unified is fixed at the start, so the streams and cells are.            *)
LEMMA Frame == unified' = unified => Streams' = Streams /\ Cells' = Cells
BY DEF Streams, Cells, NCells

(* More hurt sequences never break an agreement.                           *)
LEMMA AgreeMore ==
    ASSUME NEW x, NEW y, NEW H, NEW H2, H \subseteq H2, Agree(x, y, H)
    PROVE  Agree(x, y, H2)
BY DEF Agree

(* Nor does a cell that loses only hurt sequences.                         *)
LEMMA AgreeLess ==
    ASSUME NEW x, NEW y, NEW z, NEW H, NEW H2, H \subseteq H2, Agree(x, y, H),
           z.seqs \subseteq x.seqs, x.seqs \ z.seqs \subseteq H2,
           z.seqs # {} => z.pos = x.pos
    PROVE  Agree(z, y, H2)
BY DEF Agree

(* A cell agrees with itself.                                              *)
LEMMA AgreeSelf == ASSUME NEW x, NEW H PROVE Agree(x, x, H)
BY DEF Agree

(* Placing tokens leaves the cells that are not in idxs alone.             *)
LEMMA PlacedCells ==
    ASSUME NEW k, NEW toks, NEW idxs, \A c \in Cells : IsCell(k[c])
    PROVE  \A c \in Cells : /\ IsCell(Placed(k, toks, idxs)[c])
                            /\ c \notin Range(idxs) => Placed(k, toks, idxs)[c] = k[c]
<1> SUFFICES ASSUME NEW c \in Cells
             PROVE  /\ IsCell(Placed(k, toks, idxs)[c])
                    /\ c \notin Range(idxs) => Placed(k, toks, idxs)[c] = k[c]
  OBVIOUS
<1>1. CASE \E i \in DOMAIN idxs : idxs[i] = c
  <2> DEFINE t == toks[CHOOSE i \in DOMAIN idxs : idxs[i] = c]
  <2>1. Placed(k, toks, idxs)[c] = [pos |-> t[2], seqs |-> {t[1]}]
    BY <1>1 DEF Placed
  <2>2. c \in Range(idxs)
    BY <1>1 DEF Range
  <2> QED BY <2>1, <2>2 DEF IsCell
<1>2. CASE ~(\E i \in DOMAIN idxs : idxs[i] = c)
  BY <1>2 DEF Placed
<1> QED BY <1>1, <1>2

(* The purge takes sequences out of a cell and changes nothing else in it. *)
LEMMA PurgedCells ==
    ASSUME NEW k, NEW old, NEW idxs, \A c \in Cells : IsCell(k[c])
    PROVE  \A c \in Cells :
               /\ IsCell(Purged(k, old, idxs)[c])
               /\ Purged(k, old, idxs)[c].seqs \subseteq k[c].seqs
               /\ Purged(k, old, idxs)[c].seqs # {} => Purged(k, old, idxs)[c].pos = k[c].pos
<1> SUFFICES ASSUME NEW c \in Cells
             PROVE  /\ IsCell(Purged(k, old, idxs)[c])
                    /\ Purged(k, old, idxs)[c].seqs \subseteq k[c].seqs
                    /\ Purged(k, old, idxs)[c].seqs # {}
                          => Purged(k, old, idxs)[c].pos = k[c].pos
  OBVIOUS
<1> DEFINE gone == {s \in k[c].seqs : k[c].pos <= seq_pos_max_rm(old, idxs, s)}
<1>1. Purged(k, old, idxs)[c] = IF k[c].seqs # {} /\ gone = k[c].seqs THEN Empty
                                ELSE [k[c] EXCEPT !.seqs = @ \ gone]
  BY DEF Purged
<1> HIDE DEF gone
<1>2. [k[c] EXCEPT !.seqs = @ \ gone] = [pos |-> k[c].pos, seqs |-> k[c].seqs \ gone]
  <2>1. PICK p, q : k[c] = [pos |-> p, seqs |-> q]
    BY DEF IsCell
  <2>2. [[pos |-> p, seqs |-> q] EXCEPT !.seqs = @ \ gone] = [pos |-> p, seqs |-> q \ gone]
    OBVIOUS
  <2> QED BY <2>1, <2>2
<1>3. CASE k[c].seqs # {} /\ gone = k[c].seqs
  BY <1>1, <1>3 DEF Empty, IsCell
<1>4. CASE ~(k[c].seqs # {} /\ gone = k[c].seqs)
  BY <1>1, <1>2, <1>4 DEF IsCell
<1> QED BY <1>3, <1>4

(* apply_ubatch keeps the cells cells; outside the slots a cell only loses *)
(* sequences.                                                              *)
LEMMA ApplyCells ==
    ASSUME NEW ub, NEW idxs, IsCells(cells), apply_ubatch(ub, idxs), unified' = unified
    PROVE  /\ IsCells(cells)'
           /\ \A st \in Streams, c \in Cells :
                 ~(st \in DOMAIN ub /\ c \in Range(idxs[st])) =>
                    /\ cells'[st][c].seqs \subseteq cells[st][c].seqs
                    /\ cells'[st][c].seqs # {} => cells'[st][c].pos = cells[st][c].pos
                    /\ st \notin DOMAIN ub => cells'[st][c] = cells[st][c]
<1>1. /\ cells' = [st \in Streams |-> cells'[st]]
      /\ \A st \in Streams : cells'[st] =
            IF st \notin DOMAIN ub THEN cells[st]
            ELSE Purged(Placed(cells[st], ub[st], idxs[st]), cells[st], idxs[st])
  BY DEF apply_ubatch
<1>2. ASSUME NEW st \in Streams
      PROVE  /\ cells'[st] = [c \in Cells |-> cells'[st][c]]
             /\ \A c \in Cells :
                   /\ IsCell(cells'[st][c])
                   /\ ~(st \in DOMAIN ub /\ c \in Range(idxs[st])) =>
                        /\ cells'[st][c].seqs \subseteq cells[st][c].seqs
                        /\ cells'[st][c].seqs # {} => cells'[st][c].pos = cells[st][c].pos
                        /\ st \notin DOMAIN ub => cells'[st][c] = cells[st][c]
  <2>1. cells[st] = [c \in Cells |-> cells[st][c]] /\ \A c \in Cells : IsCell(cells[st][c])
    BY DEF IsCells
  <2>2. CASE st \notin DOMAIN ub
    BY <1>1, <2>1, <2>2
  <2>3. CASE st \in DOMAIN ub
    <3>1. PICK k : k = Placed(cells[st], ub[st], idxs[st])
      OBVIOUS
    <3>2. cells'[st] = Purged(k, cells[st], idxs[st])
      BY <1>1, <2>3, <3>1
    <3>3. \A c \in Cells : IsCell(k[c]) /\ (c \notin Range(idxs[st]) => k[c] = cells[st][c])
      BY <2>1, <3>1, PlacedCells
    <3>4. cells'[st] = [c \in Cells |-> cells'[st][c]]
      BY <3>2 DEF Purged
    <3>5. \A c \in Cells :
            /\ IsCell(cells'[st][c]) /\ cells'[st][c].seqs \subseteq k[c].seqs
            /\ cells'[st][c].seqs # {} => cells'[st][c].pos = k[c].pos
      BY <3>2, <3>3, PurgedCells
    <3> QED BY <2>3, <3>3, <3>4, <3>5
  <2> QED BY <2>2, <2>3
<1>3. Streams' = Streams /\ Cells' = Cells
  BY Frame
<1>4. IsCells(cells)'
  BY <1>1, <1>2, <1>3 DEF IsCells, IsCell
<1> QED BY <1>2, <1>4

-----------------------------------------------------------------------------
(* A level is pushed onto the recovery stack ...                           *)
LEMMA Pushed ==
    ASSUME NEW q, NEW e, IsSequence(q)
    PROVE  /\ IsSequence(Append(q, e)) /\ Len(Append(q, e)) = Len(q) + 1
           /\ \A i \in 1 .. Len(q) : Append(q, e)[i] = q[i]
           /\ Append(q, e)[Len(q) + 1] = e
<1> DEFINE S == {q[i] : i \in 1 .. Len(q)} \cup {e}
<1>1. q \in Seq(S) /\ e \in S
  <2>1. PICK n \in Nat : n = Len(q)
    BY DEF IsSequence
  <2>2. q = [i \in 1 .. n |-> q[i]] /\ \A i \in 1 .. n : q[i] \in S
    BY <2>1 DEF IsSequence
  <2>3. q \in [1 .. n -> S]
    BY <2>2
  <2> QED BY <2>1, <2>3
<1> HIDE DEF S
<1>2. /\ Append(q, e) \in Seq(S) /\ Len(Append(q, e)) = Len(q) + 1
      /\ \A i \in 1 .. Len(q) : Append(q, e)[i] = q[i]
      /\ Append(q, e)[Len(q) + 1] = e
  BY <1>1, AppendProperties
<1>3. IsSequence(Append(q, e))
  <2>1. PICK r : r = Append(q, e)
    OBVIOUS
  <2>2. r \in Seq(S)
    BY <1>2, <2>1
  <2>3. IsSequence(r)
    BY <2>2 DEF IsSequence
  <2> QED BY <2>1, <2>3
<1> QED BY <1>2, <1>3

(* ... and popped from it.                                                 *)
LEMMA Popped ==
    ASSUME NEW q, IsSequence(q), q # <<>>
    PROVE  /\ Len(q) \in Nat \ {0}
           /\ IsSequence(Front(q)) /\ Len(Front(q)) = Len(q) - 1
           /\ \A i \in 1 .. Len(q) - 1 : Front(q)[i] = q[i]
           /\ Last(q) = q[Len(q)]
           /\ Len(q) = 1 => Front(q) = <<>>
<1> DEFINE S == {q[i] : i \in 1 .. Len(q)}
<1>1. q \in Seq(S)
  <2>1. PICK n \in Nat : n = Len(q)
    BY DEF IsSequence
  <2>2. q = [i \in 1 .. n |-> q[i]] /\ \A i \in 1 .. n : q[i] \in S
    BY <2>1 DEF IsSequence
  <2>3. q \in [1 .. n -> S]
    BY <2>2
  <2> QED BY <2>1, <2>3
<1> HIDE DEF S
<1>2. Len(q) \in Nat \ {0}
  BY <1>1
<1>3. /\ Front(q) \in Seq(S) /\ Len(Front(q)) = Len(q) - 1
      /\ \A i \in 1 .. Len(q) - 1 : Front(q)[i] = q[i]
  <2>1. \A i \in 1 .. Len(q) - 1 : q[i] \in S
    BY <1>1
  <2>2. /\ SubSeq(q, 1, Len(q) - 1) \in Seq(S)
        /\ Len(SubSeq(q, 1, Len(q) - 1)) =
              IF 1 <= Len(q) - 1 THEN (Len(q) - 1) - 1 + 1 ELSE 0
        /\ \A i \in 1 .. (Len(q) - 1) - 1 + 1 : SubSeq(q, 1, Len(q) - 1)[i] = q[1 + i - 1]
    BY <1>1, <1>2, <2>1, SubSeqProperties
  <2>3. PICK r : r = SubSeq(q, 1, Len(q) - 1) /\ r = Front(q)
    BY DEF Front
  <2>4. PICK n \in Nat \ {0} : n = Len(q)
    BY <1>2
  <2>5. /\ r \in Seq(S) /\ Len(r) = IF 1 <= n - 1 THEN (n - 1) - 1 + 1 ELSE 0
        /\ \A i \in 1 .. (n - 1) - 1 + 1 : r[i] = q[1 + i - 1]
    BY <2>2, <2>3, <2>4
  <2>6. Len(r) = n - 1 /\ \A i \in 1 .. n - 1 : r[i] = q[i]
    BY <2>5
  <2> QED BY <2>3, <2>4, <2>5, <2>6
<1>4. Len(q) = 1 => Front(q) = <<>>
  BY <1>2, <1>3
<1>5. IsSequence(Front(q))
  BY <1>3 DEF IsSequence
<1> QED BY <1>2, <1>3, <1>4, <1>5 DEF Last

(* A step that leaves the cells, the stack and the history alone.          *)
LEMMA DryRunSame ==
    ASSUME DryRunInv, UNCHANGED <<unified, cells, stack, before, hurt>>, Phases'
    PROVE  DryRunInv'
<1>1. Streams' = Streams /\ Cells' = Cells
  BY Frame
<1>2. \A i, st, c : Covers(i, st, c)' = Covers(i, st, c)
  BY DEF Covers
<1>3. IsCells(cells)' /\ IsSequence(stack)'
  BY <1>1 DEF DryRunInv, IsCells, IsSequence
<1>4. Copies'
  BY <1>1, <1>2 DEF DryRunInv, Copies
<1>5. WouldUndo'
  BY <1>1, <1>2 DEF DryRunInv, WouldUndo
<1> QED BY <1>3, <1>4, <1>5 DEF DryRunInv

(* A step outside of a dry run that forgets what was before.               *)
LEMMA DryRunForgets ==
    ASSUME DryRunInv, unified' = unified, IsCells(cells)', stack = <<>>, stack' = stack,
           before' = <<>>, pc' \notin {"prepare", "failed"}
    PROVE  DryRunInv'
<1>1. Copies'
  BY DEF Copies
<1>2. WouldUndo' /\ Phases'
  BY DEF WouldUndo, Phases
<1> QED BY <1>1, <1>2 DEF DryRunInv, IsSequence

(* The batch comes.                                                        *)
LEMMA DecodeStep ==
    ASSUME DryRunInv, NEW b, Decode(b)
    PROVE  DryRunInv'
<1> USE DEF Decode
<1>1. Streams' = Streams /\ Cells' = Cells /\ stack = <<>>
  BY Frame DEF DryRunInv, Phases
<1>2. IsCells(cells)' /\ IsSequence(stack)' /\ Copies' /\ Phases'
  BY <1>1 DEF DryRunInv, IsCells, IsSequence, Copies, Phases
<1>3. WouldUndo'
  BY <1>1, AgreeSelf DEF WouldUndo
<1> QED BY <1>2, <1>3 DEF DryRunInv

(* A ubatch is tried out: what it overwrites was copied, what it purges    *)
(* elsewhere makes its sequence hurt.                                      *)
LEMMA PrepareStep ==
    ASSUME DryRunInv, Prepare
    PROVE  DryRunInv'
<1>1. PICK ub, idxs, e :
        /\ e = [ub |-> ub, idxs |-> idxs, heads |-> heads,
                old |-> [st \in DOMAIN ub |-> [c \in Range(idxs[st]) |-> cells[st][c]]]]
        /\ stack' = Append(stack, e) /\ apply_ubatch(ub, idxs)
        /\ hurt' = hurt \cup Bereft(ub, idxs)
  BY Zenon DEF Prepare
<1>2. unified' = unified /\ pc' = pc /\ before' = before /\ pc = "prepare"
  BY DEF Prepare
<1>3. Streams' = Streams /\ Cells' = Cells
  BY <1>2, Frame
<1>4. /\ IsCells(cells)'
      /\ \A st \in Streams, c \in Cells :
            ~(st \in DOMAIN ub /\ c \in Range(idxs[st])) =>
               /\ cells'[st][c].seqs \subseteq cells[st][c].seqs
               /\ cells'[st][c].seqs # {} => cells'[st][c].pos = cells[st][c].pos
               /\ st \notin DOMAIN ub => cells'[st][c] = cells[st][c]
  BY <1>1, <1>2, ApplyCells DEF DryRunInv
<1>5. PICK n \in Nat : n = Len(stack)
  BY DEF DryRunInv, IsSequence
<1>6. /\ IsSequence(stack') /\ Len(stack') = n + 1
      /\ \A i \in 1 .. n : stack'[i] = stack[i]
      /\ stack'[n + 1] = e
  BY <1>1, <1>5, Pushed DEF DryRunInv
<1>7. \A i \in 1 .. n : \A st, c : Covers(i, st, c)' <=> Covers(i, st, c)
  BY <1>6 DEF Covers
<1>8. \A st, c : Covers(n + 1, st, c)' <=> st \in DOMAIN ub /\ c \in Range(idxs[st])
  BY <1>1, <1>6 DEF Covers
<1>9. \A st \in DOMAIN ub : \A c \in Range(idxs[st]) : stack'[n + 1].old[st][c] = cells[st][c]
  BY <1>1, <1>6
<1>10. Copies'
  <2> SUFFICES ASSUME NEW i \in 1 .. n + 1, NEW st \in Streams, NEW c \in Cells,
                      Covers(i, st, c)'
               PROVE  IsCell(stack'[i].old[st][c])
    BY <1>3, <1>6 DEF Copies, IsCell
  <2>1. CASE i \in 1 .. n
    BY <1>5, <1>6, <1>7, <2>1 DEF DryRunInv, Copies
  <2>2. CASE i = n + 1
    BY <1>8, <1>9, <2>2 DEF DryRunInv, IsCells
  <2> QED BY <2>1, <2>2
<1>11. WouldUndo'
  <2> SUFFICES ASSUME before # <<>>, NEW st \in Streams, NEW c \in Cells
               PROVE  /\ (\A i \in 1 .. n + 1 : ~Covers(i, st, c)')
                            => Agree(cells'[st][c], before[st][c], hurt')
                      /\ \A i \in 1 .. n + 1 :
                            Covers(i, st, c)' /\ (\A j \in 1 .. i - 1 : ~Covers(j, st, c)')
                              => Agree(stack'[i].old[st][c], before[st][c], hurt')
    BY <1>2, <1>3, <1>6 DEF WouldUndo, Agree
  <2>1. hurt \subseteq hurt'
    BY <1>1
  <2>2. /\ (\A i \in 1 .. n : ~Covers(i, st, c)) => Agree(cells[st][c], before[st][c], hurt)
        /\ \A i \in 1 .. n : Covers(i, st, c) /\ (\A j \in 1 .. i - 1 : ~Covers(j, st, c))
              => Agree(stack[i].old[st][c], before[st][c], hurt)
    BY <1>5 DEF DryRunInv, WouldUndo
  <2>3. ASSUME \A i \in 1 .. n + 1 : ~Covers(i, st, c)'
        PROVE  Agree(cells'[st][c], before[st][c], hurt')
    <3>1. Agree(cells[st][c], before[st][c], hurt)
      BY <1>7, <2>2, <2>3
    <3>2. ~(st \in DOMAIN ub /\ c \in Range(idxs[st]))
      BY <1>8, <2>3
    <3>3. /\ cells'[st][c].seqs \subseteq cells[st][c].seqs
          /\ cells'[st][c].seqs # {} => cells'[st][c].pos = cells[st][c].pos
          /\ st \notin DOMAIN ub => cells'[st][c] = cells[st][c]
      BY <1>4, <3>2
    <3>4. cells[st][c].seqs \ cells'[st][c].seqs \subseteq hurt'
      <4>1. CASE st \notin DOMAIN ub
        BY <3>3, <4>1
      <4>2. CASE st \in DOMAIN ub
        <5>1. c \in Cells \ Range(idxs[st])
          BY <3>2, <4>2
        <5>2. cells[st][c].seqs \ cells'[st][c].seqs \subseteq Bereft(ub, idxs)
          BY <4>2, <5>1 DEF Bereft
        <5> QED BY <1>1, <5>2
      <4> QED BY <4>1, <4>2
    <3> QED BY <2>1, <3>1, <3>3, <3>4, AgreeLess
  <2>4. ASSUME NEW i \in 1 .. n + 1,
               Covers(i, st, c)', \A j \in 1 .. i - 1 : ~Covers(j, st, c)'
        PROVE  Agree(stack'[i].old[st][c], before[st][c], hurt')
    <3>1. CASE i \in 1 .. n
      <4>1. Covers(i, st, c) /\ \A j \in 1 .. i - 1 : ~Covers(j, st, c)
        BY <1>7, <2>4, <3>1
      <4>2. Agree(stack[i].old[st][c], before[st][c], hurt) /\ stack'[i] = stack[i]
        BY <1>6, <2>2, <3>1, <4>1
      <4> QED BY <2>1, <4>2, AgreeMore
    <3>2. CASE i = n + 1
      <4>1. \A j \in 1 .. n : ~Covers(j, st, c)
        BY <1>7, <2>4, <3>2
      <4>2. Agree(cells[st][c], before[st][c], hurt)
        BY <2>2, <4>1
      <4>3. stack'[i].old[st][c] = cells[st][c]
        BY <1>8, <1>9, <2>4, <3>2
      <4> QED BY <2>1, <4>2, <4>3, AgreeMore
    <3> QED BY <3>1, <3>2
  <2> QED BY <2>3, <2>4
<1> QED BY <1>2, <1>4, <1>6, <1>10, <1>11 DEF DryRunInv, Phases, IsSequence

(* One level is put back: a cell that only the top has a copy of gets that *)
(* copy, and what other cells would become does not change.                *)
LEMMA PutBackStep ==
    ASSUME DryRunInv, PutBack, stack # <<>>, UNCHANGED <<unified, before, hurt>>
    PROVE  /\ IsCells(cells)' /\ IsSequence(stack)' /\ Copies' /\ WouldUndo'
           /\ Len(stack) = 1 => stack' = <<>>
<1>1. Streams' = Streams /\ Cells' = Cells
  BY Frame
<1>2. PICK n \in Nat \ {0} : n = Len(stack)
  BY Popped DEF DryRunInv
<1>3. PICK e : e = stack[n] /\ e = Top /\ e = Last(stack) /\ Others = Front(stack)
  BY <1>2, Popped DEF DryRunInv, Top, Others
<1>4. /\ IsSequence(stack') /\ Len(stack') = n - 1
      /\ \A i \in 1 .. n - 1 : stack'[i] = stack[i]
      /\ n = 1 => stack' = <<>>
  BY <1>2, <1>3, Popped DEF DryRunInv, PutBack
<1>5. \A i \in 1 .. n - 1 : \A st, c : Covers(i, st, c)' <=> Covers(i, st, c)
  BY <1>4 DEF Covers
<1>6. \A st, c : Covers(n, st, c) <=> st \in DOMAIN e.ub /\ c \in DOMAIN e.old[st]
  BY <1>3 DEF Covers
<1>7. /\ cells' = [st \in Streams |-> cells'[st]]
      /\ \A st \in Streams : cells'[st] =
            IF st \notin DOMAIN e.ub THEN cells[st]
            ELSE [c \in Cells |-> IF c \in DOMAIN e.old[st] THEN e.old[st][c] ELSE cells[st][c]]
  BY <1>3 DEF PutBack
<1>8. \A st \in Streams, c \in Cells :
         /\ Covers(n, st, c) => cells'[st][c] = stack[n].old[st][c]
         /\ ~Covers(n, st, c) => cells'[st][c] = cells[st][c]
  BY <1>3, <1>6, <1>7
<1>9. IsCells(cells)'
  <2>1. ASSUME NEW st \in Streams
        PROVE  cells'[st] = [c \in Cells |-> cells'[st][c]]
    BY <1>7 DEF DryRunInv, IsCells
  <2>2. ASSUME NEW st \in Streams, NEW c \in Cells
        PROVE  IsCell(cells'[st][c])
    <3>1. CASE Covers(n, st, c)
      <4>1. IsCell(stack[n].old[st][c])
        BY <1>2, <3>1 DEF DryRunInv, Copies
      <4> QED BY <1>8, <3>1, <4>1
    <3>2. CASE ~Covers(n, st, c)
      <4>1. IsCell(cells[st][c])
        BY DEF DryRunInv, IsCells
      <4> QED BY <1>8, <3>2, <4>1
    <3> QED BY <3>1, <3>2
  <2> QED BY <1>1, <1>7, <2>1, <2>2 DEF IsCells, IsCell
<1>10. Copies'
  <2> SUFFICES ASSUME NEW i \in 1 .. n - 1, NEW st \in Streams, NEW c \in Cells,
                      Covers(i, st, c)'
               PROVE  IsCell(stack'[i].old[st][c])
    BY <1>1, <1>4 DEF Copies, IsCell
  <2> QED BY <1>2, <1>4, <1>5 DEF DryRunInv, Copies
<1>11. WouldUndo'
  <2> SUFFICES ASSUME before # <<>>, NEW st \in Streams, NEW c \in Cells
               PROVE  /\ (\A i \in 1 .. n - 1 : ~Covers(i, st, c)')
                            => Agree(cells'[st][c], before[st][c], hurt)
                      /\ \A i \in 1 .. n - 1 :
                            Covers(i, st, c)' /\ (\A j \in 1 .. i - 1 : ~Covers(j, st, c)')
                              => Agree(stack'[i].old[st][c], before[st][c], hurt)
    BY <1>1, <1>4 DEF WouldUndo, Agree
  <2>1. /\ (\A i \in 1 .. n : ~Covers(i, st, c)) => Agree(cells[st][c], before[st][c], hurt)
        /\ \A i \in 1 .. n : Covers(i, st, c) /\ (\A j \in 1 .. i - 1 : ~Covers(j, st, c))
              => Agree(stack[i].old[st][c], before[st][c], hurt)
    BY <1>2 DEF DryRunInv, WouldUndo
  <2>2. ASSUME \A i \in 1 .. n - 1 : ~Covers(i, st, c)'
        PROVE  Agree(cells'[st][c], before[st][c], hurt)
    <3>1. \A i \in 1 .. n - 1 : ~Covers(i, st, c)
      BY <1>5, <2>2
    <3>2. CASE Covers(n, st, c)
      <4>1. Agree(stack[n].old[st][c], before[st][c], hurt)
        BY <2>1, <3>1, <3>2
      <4> QED BY <1>8, <3>2, <4>1
    <3>3. CASE ~Covers(n, st, c)
      <4>1. \A i \in 1 .. n : ~Covers(i, st, c)
        <5>1. \A i \in 1 .. n : i \in 1 .. n - 1 \/ i = n
          OBVIOUS
        <5> QED BY <3>1, <3>3, <5>1
      <4> QED BY <1>8, <2>1, <3>3, <4>1
    <3> QED BY <3>2, <3>3
  <2>3. ASSUME NEW i \in 1 .. n - 1,
               Covers(i, st, c)', \A j \in 1 .. i - 1 : ~Covers(j, st, c)'
        PROVE  Agree(stack'[i].old[st][c], before[st][c], hurt)
    <3>1. i \in 1 .. n /\ \A j \in 1 .. i - 1 : j \in 1 .. n - 1
      OBVIOUS
    <3>2. Covers(i, st, c) /\ \A j \in 1 .. i - 1 : ~Covers(j, st, c)
      BY <1>5, <2>3, <3>1
    <3> QED BY <1>4, <2>1, <3>1, <3>2
  <2> QED BY <2>2, <2>3
<1> QED BY <1>2, <1>4, <1>9, <1>10, <1>11 DEF IsSequence

(* seq_rm of a suffix leaves cells with a position and sequences.          *)
LEMMA RemoveSuffixCells ==
    ASSUME IsCells(cells), NEW S, RemoveSuffix(S), unified' = unified
    PROVE  IsCells(cells)'
<1>1. Streams' = Streams /\ Cells' = Cells
  BY Frame
<1>2. cells' = [st \in Streams |-> [c \in Cells |->
          LET gone == {s \in cells[st][c].seqs : s \in S /\ cells[st][c].pos >= decoded'[s]}
          IN  IF cells[st][c] # Empty /\ gone = cells[st][c].seqs THEN Empty
              ELSE [cells[st][c] EXCEPT !.seqs = @ \ gone]]]
  BY DEF RemoveSuffix
<1>3. ASSUME NEW st \in Streams, NEW c \in Cells
      PROVE  IsCell(cells'[st][c])
  <2>1. PICK gone : cells'[st][c] =
              IF cells[st][c] # Empty /\ gone = cells[st][c].seqs THEN Empty
              ELSE [cells[st][c] EXCEPT !.seqs = @ \ gone]
    BY <1>2
  <2>0. IsCell(cells[st][c])
    BY DEF IsCells
  <2>2. PICK p, q : cells[st][c] = [pos |-> p, seqs |-> q]
    BY <2>0 DEF IsCell
  <2>3. [[pos |-> p, seqs |-> q] EXCEPT !.seqs = @ \ gone] = [pos |-> p, seqs |-> q \ gone]
    OBVIOUS
  <2>4. cells'[st][c] = Empty \/ cells'[st][c] = [pos |-> p, seqs |-> q \ gone]
    BY <2>1, <2>2, <2>3
  <2> QED BY <2>4 DEF IsCell, Empty
<1>4. /\ cells' = [st \in Streams |-> cells'[st]]
      /\ \A st \in Streams : cells'[st] = [c \in Cells |-> cells'[st][c]]
  BY <1>2
<1> QED BY <1>1, <1>3, <1>4 DEF IsCells, IsCell

(* So does the copy of a sequence.                                         *)
LEMMA CopyCells ==
    ASSUME IsCells(cells), unified \in BOOLEAN, NEW src \in Seqs, NEW dst \in Seqs,
           Copy(src, dst)
    PROVE  IsCells(cells)'
<1>1. Streams' = Streams /\ Cells' = Cells
  BY Frame DEF Copy
<1>2. PICK d, m : /\ d \in Streams /\ cells' = [cells EXCEPT ![d] = m]
                  /\ m = [c \in Cells |-> m[c]] /\ \A c \in Cells : IsCell(m[c])
  <2>1. CASE unified
    <3> DEFINE k == Without(cells[seq_to_stream(dst)], dst, Positions)
               m == [c \in Cells |-> IF src \in k[c].seqs
                                     THEN [k[c] EXCEPT !.seqs = @ \cup {dst}] ELSE k[c]]
    <3>1. seq_to_stream(dst) = 0 /\ 0 \in Streams
      BY <2>1 DEF seq_to_stream, Streams
    <3>2. cells' = [cells EXCEPT ![0] = m]
      BY <2>1 DEF Copy
    <3>3. \A c \in Cells : k[c] =
             IF dst \notin cells[0][c].seqs \/ cells[0][c].pos \notin Positions THEN cells[0][c]
             ELSE IF cells[0][c].seqs = {dst} THEN Empty
             ELSE [cells[0][c] EXCEPT !.seqs = @ \ {dst}]
      BY <3>1 DEF Without
    <3> HIDE DEF k
    <3>4. ASSUME NEW c \in Cells PROVE IsCell(m[c])
      <4>0. IsCell(cells[0][c])
        BY <3>1 DEF IsCells
      <4>1. PICK p, q : cells[0][c] = [pos |-> p, seqs |-> q]
        BY <4>0 DEF IsCell
      <4>2. [[pos |-> p, seqs |-> q] EXCEPT !.seqs = @ \ {dst}] = [pos |-> p, seqs |-> q \ {dst}]
        OBVIOUS
      <4>7. \/ k[c] = [pos |-> p, seqs |-> q] \/ k[c] = [pos |-> -1, seqs |-> {}]
            \/ k[c] = [pos |-> p, seqs |-> q \ {dst}]
        BY <3>3, <4>1, <4>2 DEF Empty
      <4>3. \E p2, q2 : k[c] = [pos |-> p2, seqs |-> q2]
        BY Zenon, <4>7
      <4>4. PICK p2, q2 : k[c] = [pos |-> p2, seqs |-> q2]
        BY <4>3
      <4>5. [[pos |-> p2, seqs |-> q2] EXCEPT !.seqs = @ \cup {dst}]
              = [pos |-> p2, seqs |-> q2 \cup {dst}]
        OBVIOUS
      <4>6. m[c] = k[c] \/ m[c] = [pos |-> p2, seqs |-> q2 \cup {dst}]
        BY <4>4, <4>5
      <4> QED BY <4>4, <4>6 DEF IsCell
    <3>5. m = [c \in Cells |-> m[c]]
      OBVIOUS
    <3> QED BY <3>1, <3>2, <3>4, <3>5
  <2>2. CASE ~unified
    <3> DEFINE m == [c \in Cells |-> IF src \in cells[src][c].seqs
                        THEN [pos |-> cells[src][c].pos, seqs |-> {dst}] ELSE Empty]
    <3>1. dst \in Streams
      BY <2>2 DEF Streams
    <3>2. cells' = [cells EXCEPT ![dst] = m]
      BY <2>2 DEF Copy
    <3>3. \A c \in Cells : IsCell(m[c])
      BY DEF IsCell, Empty
    <3> QED BY <3>1, <3>2, <3>3
  <2> QED BY <2>1, <2>2
<1>3. /\ cells' = [st \in Streams |-> cells'[st]]
      /\ \A st \in Streams : cells'[st] = IF st = d THEN m ELSE cells[st]
  BY <1>2 DEF IsCells
<1>4. \A st \in Streams : cells'[st] = [c \in Cells |-> cells'[st][c]]
  BY <1>2, <1>3 DEF IsCells
<1>5. \A st \in Streams, c \in Cells : IsCell(cells'[st][c])
  BY <1>2, <1>3 DEF IsCells
<1> QED BY <1>1, <1>3, <1>4, <1>5 DEF IsCells, IsCell

-----------------------------------------------------------------------------
(* Every step keeps the inductive invariant.                               *)
LEMMA DryRunNext ==
    ASSUME DryRunInv, [Next]_vars
    PROVE  DryRunInv'
<1>1. ASSUME NEW b \in Batches, Decode(b) PROVE DryRunInv'
  BY <1>1, DecodeStep
<1>2. CASE Prepare
  BY <1>2, PrepareStep
<1>3. CASE NoSlot
  <2>1. Phases'
    BY <1>3 DEF NoSlot, Phases, DryRunInv, batchVars
  <2> QED BY <1>3, <2>1, DryRunSame DEF NoSlot, batchVars
<1>4. CASE Undo
  <2>1. /\ IsCells(cells)' /\ IsSequence(stack)' /\ Copies' /\ WouldUndo'
        /\ Len(stack) = 1 => stack' = <<>>
    BY <1>4, PutBackStep DEF Undo
  <2>2. Phases'
    BY <1>4, <2>1 DEF Undo, Phases
  <2> QED BY <1>4, <2>1, <2>2 DEF Undo, DryRunInv
<1>5. CASE UndoFailed
  <2>1. /\ IsCells(cells)' /\ IsSequence(stack)' /\ Copies' /\ WouldUndo'
    BY <1>5, PutBackStep DEF UndoFailed
  <2>2. Phases'
    BY <1>5 DEF UndoFailed, Phases
  <2> QED BY <1>5, <2>1, <2>2 DEF UndoFailed, DryRunInv
<1>6. CASE SplitAgain
  <2>1. Phases'
    BY <1>6 DEF SplitAgain, Phases
  <2> QED BY <1>6, <2>1, DryRunSame DEF SplitAgain
<1>7. CASE GiveUp
  <2>1. Phases'
    BY <1>7 DEF GiveUp, Phases
  <2> QED BY <1>7, <2>1, DryRunSame DEF GiveUp
<1>8. CASE Apply
  <2>1. IsCells(cells)'
    BY <1>8, ApplyCells DEF Apply, DryRunInv
  <2> QED BY <1>8, <2>1, DryRunForgets DEF Apply, DryRunInv, Phases, batchVars
<1>9. CASE Computed
  <2>1. Phases'
    BY <1>9 DEF Computed, Phases, DryRunInv
  <2> QED BY <1>9, <2>1, DryRunSame DEF Computed
<1>10. CASE ComputeFails
  <2>1. IsCells(cells)'
    BY <1>10, RemoveSuffixCells DEF ComputeFails, DryRunInv
  <2> QED BY <1>10, <2>1, DryRunForgets DEF ComputeFails, DryRunInv, Phases
<1>11. ASSUME NEW s \in Seqs, NEW p0 \in Positions, Reuse(s, p0) PROVE DryRunInv'
  <2>1. IsCells(cells)'
    BY <1>11, RemoveSuffixCells DEF Reuse, DryRunInv
  <2> QED BY <1>11, <2>1, DryRunForgets DEF Reuse, DryRunInv, Phases, batchVars
<1>12. ASSUME NEW src \in Seqs, NEW dst \in Seqs, Copy(src, dst) PROVE DryRunInv'
  <2>1. IsCells(cells)'
    BY <1>12, CopyCells DEF DryRunInv
  <2> QED BY <1>12, <2>1, DryRunForgets DEF Copy, DryRunInv, Phases, batchVars
<1>13. CASE UNCHANGED vars
  <2>1. Phases'
    BY <1>13 DEF vars, Phases, DryRunInv
  <2> QED BY <1>13, <2>1, DryRunSame DEF vars
<1> QED BY <1>1, <1>2, <1>3, <1>4, <1>5, <1>6, <1>7, <1>8, <1>9, <1>10, <1>11, <1>12, <1>13
        DEF Next

(* It holds at the start.                                                  *)
LEMMA DryRunInit == Init => DryRunInv
<1> SUFFICES ASSUME Init PROVE DryRunInv
  OBVIOUS
<1>1. unified \in BOOLEAN /\ IsCells(cells)
  BY PlaceAssumption DEF Init, IsCells, IsCell, Empty
<1>2. IsSequence(stack) /\ Copies /\ WouldUndo /\ Phases
  BY DEF Init, IsSequence, Copies, WouldUndo, Phases
<1> QED BY <1>1, <1>2 DEF DryRunInv

(* What would be undone has been undone once the stack is empty.           *)
LEMMA DryRunImplies == DryRunInv => DryRunUndone
<1> SUFFICES ASSUME DryRunInv, JustTried, NEW st \in Streams, NEW c \in Cells
             PROVE  Agree(cells[st][c], before[st][c], hurt)
  BY DEF DryRunUndone, Agree
<1>1. stack = <<>> /\ before # <<>>
  BY DEF JustTried, DryRunInv, Phases
<1>2. \A i \in 1 .. Len(stack) : ~Covers(i, st, c)
  BY <1>1
<1> QED BY <1>1, <1>2 DEF DryRunInv, WouldUndo

(* The invariant of the dry run.                                           *)
THEOREM PlaceDryRunInvariant == Spec => []DryRunInv
<1>1. DryRunInv /\ [Next]_vars => DryRunInv'
  BY DryRunNext
<1> QED BY <1>1, DryRunInit, PTL DEF Spec

(* prepare() leaves every sequence that loses nothing to the dry run's     *)
(* purge in the cells, and at the positions, it was in: whether all        *)
(* ubatches fit or not, with either split and however many levels the      *)
(* recovery stack had.                                                     *)
THEOREM PlaceDryRunUndone == Spec => []DryRunUndone
BY PlaceDryRunInvariant, DryRunImplies, PTL

-----------------------------------------------------------------------------
(* Numbering and choosing.                                                 *)

(* The elements of a sequence at some of its indices are a subsequence.    *)
LEMMA ChosenProperties ==
    ASSUME NEW S, NEW q \in Seq(S), NEW I \in SUBSET (1 .. Len(q))
    PROVE  /\ Chosen(q, I) \in Seq(S)
           /\ IsFiniteSet(I) /\ Cardinality(I) \in Nat /\ Len(Chosen(q, I)) = Cardinality(I)
           /\ Range(Chosen(q, I)) = {q[i] : i \in I}
           /\ \A i \in 1 .. Cardinality(I) : \E a \in I : Chosen(q, I)[i] = q[a]
           /\ \A i, j \in 1 .. Cardinality(I) :
                 i < j => \E a, b \in I : a < b /\ Chosen(q, I)[i] = q[a] /\ Chosen(q, I)[j] = q[b]
<1>0. Len(q) \in Nat /\ \A i \in 1 .. Len(q) : q[i] \in S
  OBVIOUS
<1>1. IsFiniteSet(I) /\ I \in SUBSET Int
  <2>1. IsFiniteSet(1 .. Len(q))
    BY <1>0, FS_Interval
  <2>2. IsFiniteSet(I)
    BY <2>1, FS_Subset
  <2> QED BY <1>0, <2>2
<1>2. /\ Cardinality(I) \in Nat
      /\ \A i \in 1 .. Cardinality(I) : Nth(I, i) \in I
      /\ \A i, j \in 1 .. Cardinality(I) : i < j => Nth(I, i) < Nth(I, j)
      /\ \A n \in I : \E i \in 1 .. Cardinality(I) : n = Nth(I, i)
  BY <1>1, NthProperties
<1>3. PICK n \in Nat : n = Cardinality(I)
  BY <1>2
<1>4. PICK r : r = Chosen(q, I)
  OBVIOUS
<1>5. r = [i \in 1 .. n |-> q[Nth(I, i)]]
  BY <1>3, <1>4 DEF Chosen
<1>6. \A i \in 1 .. n : q[Nth(I, i)] \in S
  <2>1. \A i \in 1 .. n : Nth(I, i) \in 1 .. Len(q)
    BY <1>2, <1>3
  <2> QED BY <1>0, <2>1
<1>7. r \in Seq(S) /\ Len(r) = n
  <2>1. r \in [1 .. n -> S]
    BY <1>5, <1>6
  <2> QED BY <2>1
<1>8. Range(r) = {q[i] : i \in I}
  <2>1. Range(r) = {r[i] : i \in 1 .. n}
    BY <1>5 DEF Range
  <2>2. \A i \in 1 .. n : r[i] = q[Nth(I, i)]
    BY <1>5
  <2>3. \A i \in 1 .. n : r[i] \in {q[j] : j \in I}
    BY <1>2, <1>3, <2>2
  <2>4. \A j \in I : \E i \in 1 .. n : r[i] = q[j]
    BY <1>2, <1>3, <2>2
  <2> QED BY <2>1, <2>3, <2>4
<1>9. \A i \in 1 .. n : \E a \in I : r[i] = q[a]
  BY <1>2, <1>3, <1>5
<1>10. \A i, j \in 1 .. n : i < j => \E a, b \in I : a < b /\ r[i] = q[a] /\ r[j] = q[b]
  BY <1>2, <1>3, <1>5
<1> QED BY <1>1, <1>3, <1>4, <1>7, <1>8, <1>9, <1>10

-----------------------------------------------------------------------------
(* Splitting a batch into ubatches.                                        *)

Tokens == Seqs \X Positions

(* The tokens of a sequence come in the order of their positions.          *)
Ordered(q) == \A i, j \in 1 .. Len(q) : i < j /\ q[i][1] = q[j][1] => q[i][2] < q[j][2]

(* What is left of the batch while it is being split.                      *)
Splitting == /\ unified \in BOOLEAN /\ split \in {"simple", "equal"}
             /\ ~unified => split = "equal"
             /\ rest \in Seq(Tokens) /\ Ordered(rest) /\ rest # <<>>

(* The tokens q are distinct tokens of stream st that are left.            *)
IsShare(q, st) ==
    /\ q \in Seq(Tokens) /\ Len(q) \in 1 .. NUbatch
    /\ \A k \in 1 .. Len(q) : q[k] \in Range(rest) /\ seq_to_stream(q[k][1]) = st
    /\ \A k, l \in 1 .. Len(q) : k # l => q[k] # q[l]

(* A ubatch is a share for some of the streams, and of each sequence has   *)
(* the next tokens.                                                        *)
IsUbatch(ub) ==
    /\ DOMAIN ub \subseteq Streams
    /\ \A st \in DOMAIN ub : IsShare(ub[st], st)
    /\ \A t \in TokenSet(ub), u \in Range(rest) :
          u[1] = t[1] /\ u[2] < t[2] => u \in TokenSet(ub)

-----------------------------------------------------------------------------
(* Tokens have a sequence and a position, and there is one left.           *)
LEMMA RestTokens ==
    ASSUME Splitting
    PROVE  /\ Len(rest) \in Nat \ {0} /\ DOMAIN rest = 1 .. Len(rest)
           /\ Range(rest) = {rest[i] : i \in 1 .. Len(rest)}
           /\ \A i \in 1 .. Len(rest) : /\ rest[i] \in Tokens /\ rest[i] \in Range(rest)
                                        /\ rest[i][1] \in Seqs /\ rest[i][2] \in Positions
                                        /\ rest[i] = <<rest[i][1], rest[i][2]>>
<1>1. PICK n \in Nat : n = Len(rest) /\ rest \in [1 .. n -> Tokens]
  BY DEF Splitting
<1>2. n # 0
  BY <1>1 DEF Splitting
<1>3. Range(rest) = {rest[i] : i \in 1 .. n}
  BY <1>1 DEF Range
<1>4. \A i \in 1 .. n : rest[i] \in Tokens
  BY <1>1
<1> QED BY <1>1, <1>2, <1>3, <1>4 DEF Tokens

(* The tokens of a sequence that are left, in order.                       *)
LEMMA TokensOfProperties ==
    ASSUME Splitting, NEW s \in Seqs, \E i \in 1 .. Len(rest) : rest[i][1] = s
    PROVE  /\ TokensOf(s) \in Seq(Tokens) /\ Len(TokensOf(s)) \in Nat \ {0}
           /\ \A k \in 1 .. Len(TokensOf(s)) :
                 TokensOf(s)[k] \in Range(rest) /\ TokensOf(s)[k][1] = s
           /\ \A k, l \in 1 .. Len(TokensOf(s)) :
                 k < l => TokensOf(s)[k][2] < TokensOf(s)[l][2]
           /\ \A u \in Range(rest) : u[1] = s => \E k \in 1 .. Len(TokensOf(s)) : u = TokensOf(s)[k]
<1> DEFINE I == {i \in 1 .. Len(rest) : rest[i][1] = s}
<1>1. PICK q : q = TokensOf(s)
  OBVIOUS
<1>2. q = Chosen(rest, I)
  BY <1>1, RestTokens DEF TokensOf
<1>3. rest \in Seq(Tokens) /\ I \in SUBSET (1 .. Len(rest)) /\ I # {}
  BY DEF Splitting
<1>4. /\ q \in Seq(Tokens)
      /\ IsFiniteSet(I) /\ Cardinality(I) \in Nat /\ Len(q) = Cardinality(I)
      /\ Range(q) = {rest[i] : i \in I}
      /\ \A i \in 1 .. Cardinality(I) : \E a \in I : q[i] = rest[a]
      /\ \A i, j \in 1 .. Cardinality(I) :
            i < j => \E a, b \in I : a < b /\ q[i] = rest[a] /\ q[j] = rest[b]
  <2>1. PICK J \in SUBSET (1 .. Len(rest)) : J = I
    BY <1>3
  <2>2. /\ Chosen(rest, J) \in Seq(Tokens)
        /\ IsFiniteSet(J) /\ Cardinality(J) \in Nat /\ Len(Chosen(rest, J)) = Cardinality(J)
        /\ Range(Chosen(rest, J)) = {rest[i] : i \in J}
        /\ \A i \in 1 .. Cardinality(J) : \E a \in J : Chosen(rest, J)[i] = rest[a]
        /\ \A i, j \in 1 .. Cardinality(J) :
              i < j => \E a, b \in J : a < b /\ Chosen(rest, J)[i] = rest[a]
                                      /\ Chosen(rest, J)[j] = rest[b]
    BY <1>3, ChosenProperties
  <2> HIDE DEF I
  <2>3. Chosen(rest, J) = q
    BY <1>2, <2>1
  <2>4. /\ q \in Seq(Tokens)
        /\ IsFiniteSet(I) /\ Cardinality(I) \in Nat /\ Len(q) = Cardinality(I)
    BY <2>1, <2>2, <2>3
  <2>5. Range(q) = {rest[i] : i \in I}
    BY <2>1, <2>2, <2>3
  <2>6. \A i \in 1 .. Cardinality(I) : \E a \in I : q[i] = rest[a]
    BY <2>1, <2>2, <2>3
  <2>7. \A i, j \in 1 .. Cardinality(I) :
           i < j => \E a, b \in I : a < b /\ q[i] = rest[a] /\ q[j] = rest[b]
    BY <2>1, <2>2, <2>3
  <2> QED BY <2>4, <2>5, <2>6, <2>7
<1>5. Len(q) \in Nat \ {0}
  <2>1. Cardinality(I) # 0
    <3> HIDE DEF I
    <3> QED BY <1>3, <1>4, FS_EmptySet
  <2> QED BY <1>4, <2>1
<1>6. \A k \in 1 .. Len(q) : q[k] \in Range(rest) /\ q[k][1] = s
  <2> SUFFICES ASSUME NEW k \in 1 .. Len(q) PROVE q[k] \in Range(rest) /\ q[k][1] = s
    OBVIOUS
  <2>1. PICK a \in I : q[k] = rest[a]
    BY <1>4
  <2> QED BY <2>1, RestTokens
<1>7. \A k, l \in 1 .. Len(q) : k < l => q[k][2] < q[l][2]
  <2> SUFFICES ASSUME NEW k \in 1 .. Len(q), NEW l \in 1 .. Len(q), k < l
               PROVE  q[k][2] < q[l][2]
    OBVIOUS
  <2>1. PICK a \in I, b \in I : a < b /\ q[k] = rest[a] /\ q[l] = rest[b]
    BY <1>4
  <2>2. rest[a][1] = rest[b][1]
    OBVIOUS
  <2> QED BY <2>1, <2>2 DEF Splitting, Ordered
<1>8. \A u \in Range(rest) : u[1] = s => \E k \in 1 .. Len(q) : u = q[k]
  <2> SUFFICES ASSUME NEW u \in Range(rest), u[1] = s PROVE \E k \in 1 .. Len(q) : u = q[k]
    OBVIOUS
  <2>1. PICK a \in 1 .. Len(rest) : u = rest[a]
    BY RestTokens
  <2>2. u \in Range(q)
    BY <1>4, <2>1
  <2>3. DOMAIN q = 1 .. Len(q)
    BY <1>4
  <2> QED BY <2>2, <2>3 DEF Range
<1> QED BY <1>1, <1>4, <1>5, <1>6, <1>7, <1>8

(* The sequences of an equal split have tokens, and there is one.          *)
LEMMA SeqSetProperties ==
    ASSUME Splitting
    PROVE  /\ cur_seq_set \in SUBSET Seqs /\ cur_seq_set # {}
           /\ \A s \in cur_seq_set : \E i \in 1 .. Len(rest) : rest[i][1] = s
           /\ unified => \A i \in 1 .. Len(rest) : rest[i][1] \in cur_seq_set
           /\ IsFiniteSet(cur_seq_set) /\ Cardinality(cur_seq_set) \in 1 .. NSeq
<1>1. /\ cur_seq_set \in SUBSET Seqs /\ cur_seq_set # {}
      /\ \A s \in cur_seq_set : \E i \in 1 .. Len(rest) : rest[i][1] = s
      /\ unified => \A i \in 1 .. Len(rest) : rest[i][1] \in cur_seq_set
  <2>1. CASE unified
    <3>1. cur_seq_set = {t[1] : t \in Range(rest)}
      BY <2>1 DEF cur_seq_set
    <3>2. \A s \in cur_seq_set : s \in Seqs /\ \E i \in 1 .. Len(rest) : rest[i][1] = s
      BY <3>1, RestTokens
    <3>3. \A i \in 1 .. Len(rest) : rest[i][1] \in cur_seq_set
      BY <3>1, RestTokens
    <3>4. 1 \in 1 .. Len(rest)
      BY RestTokens
    <3> QED BY <2>1, <3>2, <3>3, <3>4
  <2>2. CASE ~unified
    <3> DEFINE first == rest[1][1]
               Leads(s) == \E at \in [first .. s -> DOMAIN rest] :
                              /\ \A r \in first .. s : rest[at[r]][1] = r
                              /\ \A r \in first + 1 .. s : at[r - 1] < at[r]
    <3>1. cur_seq_set = {s \in Seqs : s >= first /\ Leads(s)}
      BY <2>2 DEF cur_seq_set
    <3>2. first \in Seqs /\ first \in Int /\ 1 \in 1 .. Len(rest)
      BY RestTokens DEF Seqs
    <3>3. Leads(first)
      <4> DEFINE at == [r \in first .. first |-> 1]
      <4>1. at \in [first .. first -> DOMAIN rest]
        BY <3>2, RestTokens
      <4>2. \A r \in first .. first : rest[at[r]][1] = r
        BY <3>2
      <4>3. \A r \in first + 1 .. first : at[r - 1] < at[r]
        BY <3>2
      <4> QED BY <4>1, <4>2, <4>3
    <3>4. ASSUME NEW s \in Seqs, s >= first, Leads(s)
          PROVE  \E i \in 1 .. Len(rest) : rest[i][1] = s
      <4>1. PICK at \in [first .. s -> DOMAIN rest] : \A r \in first .. s : rest[at[r]][1] = r
        BY <3>4
      <4>2. s \in first .. s
        BY <3>2, <3>4 DEF Seqs
      <4>3. at[s] \in 1 .. Len(rest)
        BY <4>1, <4>2, RestTokens
      <4> QED BY <4>1, <4>2, <4>3
    <3>5. first \in cur_seq_set
      <4> HIDE DEF Leads
      <4> QED BY <3>1, <3>2, <3>3
    <3> HIDE DEF Leads
    <3> QED BY <2>2, <3>1, <3>4, <3>5
  <2> QED BY <2>1, <2>2 DEF Splitting
<1>2. IsFiniteSet(Seqs) /\ Cardinality(Seqs) = NSeq /\ NSeq \in Nat \ {0}
  <2>1. NSeq \in Nat \ {0} /\ NSeq - 1 \in Int /\ 0 \in Int /\ ~(0 > NSeq - 1)
    BY PlaceAssumption
  <2>2. IsFiniteSet(0 .. NSeq - 1) /\ Cardinality(0 .. NSeq - 1) = NSeq - 1 - 0 + 1
    BY <2>1, FS_Interval
  <2> QED BY <2>1, <2>2 DEF Seqs
<1>3. IsFiniteSet(cur_seq_set) /\ Cardinality(cur_seq_set) <= NSeq
  BY <1>1, <1>2, FS_Subset
<1>4. Cardinality(cur_seq_set) \in Nat /\ Cardinality(cur_seq_set) # 0
  BY <1>1, <1>3, FS_CardinalityType, FS_EmptySet
<1> QED BY <1>1, <1>2, <1>3, <1>4

(* Division with a variable divisor.                                       *)
LEMMA DivideBy ==
    ASSUME NEW n \in Nat \ {0}, NEW m \in Nat
    PROVE  /\ \A i \in 1 .. n * m :
                 (i - 1) \div n \in 0 .. m - 1 /\ i - ((i - 1) \div n) * n \in 1 .. n
           /\ \A k \in 0 .. m - 1, j \in 1 .. n :
                 k * n + j \in 1 .. n * m /\ (k * n + j - 1) \div n = k
<1>1. ASSUME NEW i \in 1 .. n * m
      PROVE  (i - 1) \div n \in 0 .. m - 1 /\ i - ((i - 1) \div n) * n \in 1 .. n
  OBVIOUS
<1>2. ASSUME NEW k \in 0 .. m - 1, NEW j \in 1 .. n
      PROVE  k * n + j \in 1 .. n * m
  OBVIOUS
<1>3. ASSUME NEW k \in 0 .. m - 1, NEW j \in 1 .. n
      PROVE  (k * n + j - 1) \div n = k
  OBVIOUS
<1> QED BY <1>1, <1>2, <1>3

(* Every sequence of an equal split has that many tokens, and together     *)
(* they are not too many.                                                  *)
LEMMA SeqTokensProperties ==
    ASSUME Splitting
    PROVE  /\ n_seq_tokens \in Nat \ {0}
           /\ \A s \in cur_seq_set : n_seq_tokens <= Len(TokensOf(s))
           /\ n_seq_tokens * Cardinality(cur_seq_set) <= NUbatch
           /\ n_seq_tokens <= NUbatch
<1> DEFINE U == cur_seq_set
           b == Cardinality(cur_seq_set)
           room == {NUbatch \div b} \cup {Len(TokensOf(s)) : s \in U}
<1>1. NUbatch \in Nat \ {0} /\ NSeq <= NUbatch /\ NSeq \in Nat
  BY PlaceAssumption
<1>2. b \in Nat \ {0} /\ b <= NUbatch
  BY <1>1, SeqSetProperties
<1>3. NUbatch \div b \in Nat \ {0} /\ \A n \in 0 .. NUbatch \div b : n * b <= NUbatch
  <2> HIDE DEF b
  <2> QED BY <1>1, <1>2
<1>4. \A s \in U : Len(TokensOf(s)) \in Nat \ {0}
  BY SeqSetProperties, TokensOfProperties
<1>5. room \in SUBSET (Nat \ {0}) /\ room # {} /\ NUbatch \div b \in room
  BY <1>3, <1>4
<1>6. PICK n \in room : \A k \in room : n <= k
  <2> HIDE DEF room
  <2>1. room \in SUBSET Nat
    BY <1>5
  <2>2. Min(room) \in room /\ \A k \in room : Min(room) <= k
    BY <1>5, <2>1, MinIsLeast
  <2> QED BY <2>2
<1>7. n_seq_tokens \in room /\ \A k \in room : n_seq_tokens <= k
  <2>1. n_seq_tokens = CHOOSE m \in room : \A k \in room : m <= k
    BY DEF n_seq_tokens
  <2> HIDE DEF room
  <2> QED BY <1>6, <2>1
<1>8. n_seq_tokens \in Nat \ {0} /\ n_seq_tokens <= NUbatch \div b
  <2> HIDE DEF room
  <2> QED BY <1>5, <1>7
<1>9. \A s \in U : n_seq_tokens <= Len(TokensOf(s))
  BY <1>7
<1>10. n_seq_tokens * b <= NUbatch
  <2> HIDE DEF b
  <2> QED BY <1>3, <1>8
<1>11. n_seq_tokens <= NUbatch
  <2> HIDE DEF b
  <2> QED BY <1>1, <1>2, <1>8, <1>10
<1> QED BY <1>8, <1>9, <1>10, <1>11

(* The first tokens are one of each sequence of the split.                 *)
LEMMA FirstTokensProperties ==
    ASSUME Splitting, unified
    PROVE  /\ Len(FirstTokens) = Cardinality(cur_seq_set)
           /\ \A k \in 1 .. Len(FirstTokens) : FirstTokens[k][1] \in cur_seq_set
           /\ \A k, l \in 1 .. Len(FirstTokens) : k # l => FirstTokens[k][1] # FirstTokens[l][1]
<1> DEFINE I == {i \in 1 .. Len(rest) : \A j \in 1 .. i - 1 : rest[j][1] # rest[i][1]}
<1>0. Len(rest) \in Nat
  BY RestTokens
<1>1. PICK F : F = FirstTokens
  OBVIOUS
<1>2. F = Chosen(rest, I)
  BY <1>1, RestTokens DEF FirstTokens
<1>3. PICK J \in SUBSET (1 .. Len(rest)) : J = I
  OBVIOUS
<1>4. /\ Chosen(rest, J) \in Seq(Tokens)
      /\ IsFiniteSet(J) /\ Cardinality(J) \in Nat /\ Len(Chosen(rest, J)) = Cardinality(J)
      /\ Range(Chosen(rest, J)) = {rest[i] : i \in J}
      /\ \A i \in 1 .. Cardinality(J) : \E a \in J : Chosen(rest, J)[i] = rest[a]
      /\ \A i, j \in 1 .. Cardinality(J) :
            i < j => \E a, b \in J : a < b /\ Chosen(rest, J)[i] = rest[a]
                                    /\ Chosen(rest, J)[j] = rest[b]
  BY ChosenProperties DEF Splitting
<1>5. PICK n \in Nat : n = Cardinality(J) /\ n = Len(F)
  BY <1>2, <1>3, <1>4
<1>6. /\ F \in Seq(Tokens) /\ Range(F) = {rest[i] : i \in J}
      /\ \A i \in 1 .. n : \E a \in J : F[i] = rest[a]
      /\ \A i, j \in 1 .. n : i < j => \E a, b \in J : a < b /\ F[i] = rest[a] /\ F[j] = rest[b]
  <2> HIDE DEF I
  <2> QED BY <1>2, <1>3, <1>4, <1>5
<1>7. \A k \in 1 .. n : F[k][1] \in cur_seq_set
  BY <1>6, SeqSetProperties
<1>8. \A k, l \in 1 .. n : k < l => F[k][1] # F[l][1]
  <2> SUFFICES ASSUME NEW k \in 1 .. n, NEW l \in 1 .. n, k < l PROVE F[k][1] # F[l][1]
    OBVIOUS
  <2>1. PICK a \in J, b \in J : a < b /\ F[k] = rest[a] /\ F[l] = rest[b]
    BY <1>6
  <2>2. a \in 1 .. b - 1
    BY <1>0, <2>1
  <2>3. rest[a][1] # rest[b][1]
    BY <1>3, <2>2
  <2> QED BY <2>1, <2>3
<1>9. \A k, l \in 1 .. n : k # l => F[k][1] # F[l][1]
  <2>1. \A k, l \in 1 .. n : k # l => k < l \/ l < k
    OBVIOUS
  <2> QED BY <1>8, <2>1
<1>10. ASSUME NEW s \in cur_seq_set
       PROVE  \E k \in 1 .. n : F[k][1] = s
  <2> DEFINE K == {i \in 1 .. Len(rest) : rest[i][1] = s}
  <2>1. K \in SUBSET Nat /\ K # {}
    BY <1>0, SeqSetProperties
  <2>2. PICK m \in K : \A q \in K : m <= q
    BY <2>1, MinIsLeast
  <2>3. \A j \in 1 .. m - 1 : j \in 1 .. Len(rest) /\ j \notin K
    BY <1>0, <2>2
  <2>4. m \in I
    BY <2>3
  <2>5. rest[m] \in Range(F)
    BY <1>3, <1>6, <2>4
  <2>6. DOMAIN F = 1 .. n
    BY <1>5, <1>6
  <2>7. PICK k \in 1 .. n : F[k] = rest[m]
    BY <2>5, <2>6 DEF Range
  <2> QED BY <2>7
<1>11. n = Cardinality(cur_seq_set)
  <2> DEFINE f == [k \in 1 .. n |-> F[k][1]]
  <2>1. f \in [1 .. n -> cur_seq_set]
    BY <1>7
  <2>2. f \in Injection(1 .. n, cur_seq_set)
    BY <1>9, <2>1 DEF Injection, IsInjective
  <2>3. f \in Surjection(1 .. n, cur_seq_set)
    BY <1>10, <2>1 DEF Surjection
  <2>4. ExistsBijection(1 .. n, cur_seq_set)
    BY <2>2, <2>3 DEF ExistsBijection, Bijection
  <2> QED BY <2>4, FS_CountingElements
<1> QED BY <1>1, <1>5, <1>7, <1>9, <1>11

(* The next tokens of the batch.                                           *)
LEMMA SplitSimple ==
    ASSUME Splitting, unified
    PROVE  IsUbatch(split_simple)
<1>1. PICK N \in Nat \ {0} : N = Len(rest)
  BY RestTokens
<1>2. NUbatch \in Nat \ {0}
  BY PlaceAssumption
<1>3. PICK m \in 1 .. N : m = (IF Len(rest) < NUbatch THEN Len(rest) ELSE NUbatch) /\ m <= NUbatch
  BY <1>1, <1>2
<1>4. PICK q : q = SubSeq(rest, 1, m)
  OBVIOUS
<1>5. split_simple = [st \in {0} |-> q]
  BY <1>3, <1>4 DEF split_simple
<1>6. q \in Seq(Tokens) /\ Len(q) = m /\ \A i \in 1 .. m : q[i] = rest[i]
  <2>1. rest \in Seq(Tokens) /\ 1 \in Int /\ m \in Int
    BY <1>1 DEF Splitting
  <2>2. \A i \in 1 .. m : rest[i] \in Tokens
    BY <1>1, RestTokens
  <2>3. /\ SubSeq(rest, 1, m) \in Seq(Tokens)
        /\ Len(SubSeq(rest, 1, m)) = IF 1 <= m THEN m - 1 + 1 ELSE 0
        /\ \A i \in 1 .. m - 1 + 1 : SubSeq(rest, 1, m)[i] = rest[1 + i - 1]
    BY <2>1, <2>2, SubSeqProperties
  <2> QED BY <1>1, <1>4, <2>3
<1>7. Streams = {0} /\ \A s : seq_to_stream(s) = 0
  BY DEF Streams, seq_to_stream
<1>8. DOMAIN split_simple = {0} /\ split_simple[0] = q
  BY <1>5
<1>9. TokenSet(split_simple) = {rest[i] : i \in 1 .. m}
  <2>1. DOMAIN q = 1 .. m
    BY <1>6
  <2>2. Range(q) = {rest[i] : i \in 1 .. m}
    BY <1>6, <2>1 DEF Range
  <2>3. TokenSet(split_simple) = Range(q)
    BY <1>8 DEF TokenSet
  <2> QED BY <2>2, <2>3
<1>10. IsShare(q, 0)
  <2>1. Len(q) \in 1 .. NUbatch
    BY <1>1, <1>2, <1>3, <1>6
  <2>2. \A k \in 1 .. Len(q) : q[k] \in Range(rest)
    BY <1>1, <1>6, RestTokens
  <2>3. \A k, l \in 1 .. Len(q) : k # l => q[k] # q[l]
    <3> SUFFICES ASSUME NEW k \in 1 .. m, NEW l \in 1 .. m, k < l PROVE rest[k] # rest[l]
      BY <1>6
    <3>1. k \in 1 .. N /\ l \in 1 .. N
      OBVIOUS
    <3>2. rest[k][1] = rest[l][1] => rest[k][2] < rest[l][2]
      BY <1>1, <3>1 DEF Splitting, Ordered
    <3>3. rest[k][2] \in Int
      BY <1>1, <3>1, RestTokens DEF Positions
    <3> QED BY <3>2, <3>3
  <2> QED BY <1>6, <1>7, <2>1, <2>2, <2>3 DEF IsShare
<1>11. ASSUME NEW t \in TokenSet(split_simple), NEW u \in Range(rest), u[1] = t[1], u[2] < t[2]
       PROVE  u \in TokenSet(split_simple)
  <2>1. PICK i \in 1 .. m : t = rest[i]
    BY <1>9
  <2>2. PICK j \in 1 .. N : u = rest[j]
    BY <1>1, RestTokens
  <2>3. i \in 1 .. N /\ rest[i][2] \in Int /\ rest[j][2] \in Int
    BY <1>1, RestTokens DEF Positions
  <2>4. i < j => rest[i][2] < rest[j][2]
    BY <1>1, <1>11, <2>1, <2>2, <2>3 DEF Splitting, Ordered
  <2>5. ~(i < j)
    BY <1>11, <2>1, <2>2, <2>3, <2>4
  <2>6. j \in 1 .. m
    BY <2>5
  <2> QED BY <1>9, <2>2, <2>6
<1> QED BY <1>7, <1>8, <1>10, <1>11 DEF IsUbatch

(* The next n tokens of sequence s, alone in its stream.                   *)
LEMMA NextTokens ==
    ASSUME Splitting, NEW s \in Seqs, \E i \in 1 .. Len(rest) : rest[i][1] = s,
           NEW n \in 1 .. Len(TokensOf(s)), n <= NUbatch, seq_to_stream(s) = s
    PROVE  /\ IsShare(SubSeq(TokensOf(s), 1, n), s)
           /\ \A t \in Range(SubSeq(TokensOf(s), 1, n)), u \in Range(rest) :
                 /\ t[1] = s
                 /\ u[1] = s /\ u[2] < t[2] => u \in Range(SubSeq(TokensOf(s), 1, n))
<1>1. PICK q : q = TokensOf(s)
  OBVIOUS
<1>2. PICK N \in Nat \ {0} : N = Len(q)
  BY <1>1, TokensOfProperties
<1>3. /\ q \in Seq(Tokens) /\ n \in 1 .. N
      /\ \A k \in 1 .. N : q[k] \in Range(rest) /\ q[k][1] = s
      /\ \A k, l \in 1 .. N : k < l => q[k][2] < q[l][2]
      /\ \A u \in Range(rest) : u[1] = s => \E k \in 1 .. N : u = q[k]
  <2>1. /\ TokensOf(s) \in Seq(Tokens)
        /\ \A k \in 1 .. Len(TokensOf(s)) :
              TokensOf(s)[k] \in Range(rest) /\ TokensOf(s)[k][1] = s
        /\ \A k, l \in 1 .. Len(TokensOf(s)) : k < l => TokensOf(s)[k][2] < TokensOf(s)[l][2]
        /\ \A u \in Range(rest) : u[1] = s =>
              \E k \in 1 .. Len(TokensOf(s)) : u = TokensOf(s)[k]
    BY TokensOfProperties
  <2> QED BY <1>1, <1>2, <2>1
<1>4. PICK r : r = SubSeq(q, 1, n)
  OBVIOUS
<1>5. r \in Seq(Tokens) /\ Len(r) = n /\ \A i \in 1 .. n : r[i] = q[i]
  <2>1. 1 \in Int /\ n \in Int
    BY <1>2, <1>3
  <2>2. \A i \in 1 .. n : q[i] \in Tokens
    BY <1>2, <1>3
  <2>3. /\ SubSeq(q, 1, n) \in Seq(Tokens)
        /\ Len(SubSeq(q, 1, n)) = IF 1 <= n THEN n - 1 + 1 ELSE 0
        /\ \A i \in 1 .. n - 1 + 1 : SubSeq(q, 1, n)[i] = q[1 + i - 1]
    BY <1>3, <2>1, <2>2, SubSeqProperties
  <2> QED BY <1>2, <1>3, <1>4, <2>3
<1>6. Range(r) = {q[i] : i \in 1 .. n}
  <2>1. DOMAIN r = 1 .. n
    BY <1>5
  <2> QED BY <1>5, <2>1 DEF Range
<1>7. \A k \in 1 .. N : q[k][2] \in Int
  BY <1>2, <1>3 DEF Tokens, Positions
<1>8. IsShare(r, s)
  <2>1. Len(r) \in 1 .. NUbatch
    <3>1. NUbatch \in Nat
      BY PlaceAssumption
    <3> QED BY <1>2, <1>3, <1>5, <3>1
  <2>2. \A k \in 1 .. n : k \in 1 .. N
    BY <1>3
  <2>3. \A k \in 1 .. n : r[k] \in Range(rest) /\ r[k][1] = s
    BY <1>3, <1>5, <2>2
  <2>4. \A k, l \in 1 .. n : k < l => r[k] # r[l]
    BY <1>3, <1>5, <1>7, <2>2
  <2>5. \A k, l \in 1 .. n : k # l => k < l \/ l < k
    BY <1>3
  <2>6. \A k, l \in 1 .. n : k # l => r[k] # r[l]
    BY <2>4, <2>5
  <2> QED BY <1>5, <2>1, <2>3, <2>6 DEF IsShare
<1>9. ASSUME NEW t \in Range(r), NEW u \in Range(rest)
      PROVE  t[1] = s /\ (u[1] = s /\ u[2] < t[2] => u \in Range(r))
  <2>1. PICK i \in 1 .. n : t = q[i]
    BY <1>6
  <2>2. i \in 1 .. N
    BY <1>3
  <2>3. ASSUME u[1] = s, u[2] < t[2] PROVE u \in Range(r)
    <3>1. PICK j \in 1 .. N : u = q[j]
      BY <1>3, <2>3
    <3>2. ~(i < j)
      BY <1>3, <1>7, <2>1, <2>2, <2>3, <3>1
    <3>3. j \in 1 .. n
      BY <1>3, <3>2
    <3> QED BY <1>6, <3>1, <3>3
  <2> QED BY <1>3, <2>1, <2>2, <2>3
<1> QED BY <1>1, <1>4, <1>8, <1>9

(* As many of each sequence, one stream each.                              *)
LEMMA SplitStreams ==
    ASSUME Splitting, ~unified
    PROVE  IsUbatch(split_equal)
<1> DEFINE n == n_seq_tokens
           ub == split_equal
<1>1. ub = [st \in cur_seq_set |-> SubSeq(TokensOf(st), 1, n)]
  BY DEF split_equal
<1>2. Streams = Seqs /\ \A s : seq_to_stream(s) = s
  BY DEF Streams, seq_to_stream
<1>3. ASSUME NEW s \in cur_seq_set
      PROVE  /\ IsShare(ub[s], s)
             /\ \A t \in Range(ub[s]), u \in Range(rest) :
                 /\ t[1] = s
                 /\ u[1] = s /\ u[2] < t[2] => u \in Range(ub[s])
  <2>1. s \in Seqs /\ \E i \in 1 .. Len(rest) : rest[i][1] = s
    BY SeqSetProperties
  <2>2. n \in 1 .. Len(TokensOf(s)) /\ n <= NUbatch
    BY <2>1, SeqTokensProperties, TokensOfProperties
  <2>3. ub[s] = SubSeq(TokensOf(s), 1, n)
    BY <1>1
  <2> HIDE DEF n, ub
  <2> QED BY <1>2, <2>1, <2>2, <2>3, NextTokens
<1>4. DOMAIN ub = cur_seq_set /\ cur_seq_set \subseteq Streams
  BY <1>1, <1>2, SeqSetProperties
<1>5. ASSUME NEW t \in TokenSet(ub), NEW u \in Range(rest), u[1] = t[1], u[2] < t[2]
      PROVE  u \in TokenSet(ub)
  <2>1. PICK s \in cur_seq_set : t \in Range(ub[s])
    BY <1>4 DEF TokenSet
  <2>2. u \in Range(ub[s])
    <3> HIDE DEF ub
    <3> QED BY <1>3, <1>5, <2>1
  <2> QED BY <1>4, <2>1, <2>2 DEF TokenSet
<1> HIDE DEF ub
<1>6. IsUbatch(ub)
  BY <1>3, <1>4, <1>5 DEF IsUbatch
<1> QED BY <1>6 DEF ub

(* As many of each sequence, one sequence after the other.                 *)
LEMMA SplitUnified ==
    ASSUME Splitting, unified
    PROVE  IsUbatch(split_equal)
<1>1. PICK n \in Nat \ {0} : n = n_seq_tokens
  BY SeqTokensProperties
<1>2. PICK m \in Nat \ {0} : m = Len(FirstTokens) /\ m = Cardinality(cur_seq_set)
  BY FirstTokensProperties, SeqSetProperties
<1> DEFINE Of(k) == FirstTokens[k + 1][1]
           q == [i \in 1 .. n * m |-> TokensOf(Of((i - 1) \div n))[i - ((i - 1) \div n) * n]]
<1>3. split_equal = [st \in {0} |-> q]
  BY <1>1, <1>2 DEF split_equal
<1>4. \A k \in 0 .. m - 1 : Of(k) \in cur_seq_set
  BY <1>2, FirstTokensProperties
<1>5. \A k, l \in 0 .. m - 1 : k # l => Of(k) # Of(l)
  BY <1>2, FirstTokensProperties
<1> HIDE DEF Of
<1>6. ASSUME NEW k \in 0 .. m - 1
      PROVE  /\ Of(k) \in Seqs /\ Len(TokensOf(Of(k))) \in Nat /\ n <= Len(TokensOf(Of(k)))
             /\ \A j \in 1 .. Len(TokensOf(Of(k))) :
                   /\ TokensOf(Of(k))[j] \in Range(rest) /\ TokensOf(Of(k))[j][1] = Of(k)
             /\ \A j, l \in 1 .. Len(TokensOf(Of(k))) :
                   j < l => TokensOf(Of(k))[j][2] < TokensOf(Of(k))[l][2]
             /\ \A u \in Range(rest) : u[1] = Of(k) =>
                   \E j \in 1 .. Len(TokensOf(Of(k))) : u = TokensOf(Of(k))[j]
  <2>1. PICK s \in Seqs : s = Of(k) /\ s \in cur_seq_set
    BY <1>4, SeqSetProperties
  <2>2. \E i \in 1 .. Len(rest) : rest[i][1] = s
    BY <2>1, SeqSetProperties
  <2>3. n <= Len(TokensOf(s))
    BY <1>1, <2>1, SeqTokensProperties
  <2> QED BY <2>1, <2>2, <2>3, TokensOfProperties
<1>7. ASSUME NEW i \in 1 .. n * m
      PROVE  \E k \in 0 .. m - 1, j \in 1 .. n :
                i = k * n + j /\ q[i] = TokensOf(Of(k))[j]
  <2>1. PICK k \in 0 .. m - 1 : k = (i - 1) \div n
    BY DivideBy
  <2>2. PICK j \in 1 .. n : j = i - k * n
    BY <2>1, DivideBy
  <2>3. i = k * n + j
    BY <2>2
  <2> QED BY <2>1, <2>2, <2>3
<1>8. ASSUME NEW k \in 0 .. m - 1, NEW j \in 1 .. n
      PROVE  k * n + j \in 1 .. n * m /\ q[k * n + j] = TokensOf(Of(k))[j]
  <2>1. PICK i \in 1 .. n * m : i = k * n + j /\ (i - 1) \div n = k
    BY DivideBy
  <2>2. i - k * n = j
    BY <2>1
  <2> QED BY <2>1, <2>2
<1>9. n * m \in Nat /\ n * m >= 1 /\ n * m <= NUbatch
  BY <1>1, <1>2, SeqTokensProperties
<1>10. PICK N \in Nat : N = n * m
  BY <1>9
<1> HIDE DEF q
<1>11. q \in Seq(Tokens) /\ Len(q) = N /\ DOMAIN q = 1 .. N
  <2>1. ASSUME NEW i \in 1 .. N PROVE q[i] \in Tokens
    <3>1. PICK k \in 0 .. m - 1, j \in 1 .. n : q[i] = TokensOf(Of(k))[j]
      BY <1>7, <1>10
    <3>2. q[i] \in Range(rest)
      BY <1>6, <3>1
    <3> QED BY <3>2, RestTokens
  <2>2. q = [i \in 1 .. N |-> q[i]]
    BY <1>10 DEF q
  <2>3. q \in [1 .. N -> Tokens]
    BY <2>1, <2>2
  <2> QED BY <2>3
<1>12. Streams = {0} /\ \A s : seq_to_stream(s) = 0
  BY DEF Streams, seq_to_stream
<1>13. DOMAIN split_equal = {0} /\ split_equal[0] = q
  BY <1>3
<1>14. TokenSet(split_equal) = {q[i] : i \in 1 .. N}
  BY <1>11, <1>13 DEF TokenSet, Range
<1>15. IsShare(q, 0)
  <2>1. Len(q) \in 1 .. NUbatch
    <3>1. NUbatch \in Nat
      BY PlaceAssumption
    <3> QED BY <1>9, <1>10, <1>11, <3>1
  <2>2. ASSUME NEW i \in 1 .. N PROVE q[i] \in Range(rest)
    <3>1. PICK k \in 0 .. m - 1, j \in 1 .. n : q[i] = TokensOf(Of(k))[j]
      BY <1>7, <1>10
    <3> QED BY <1>6, <3>1
  <2>3. ASSUME NEW a \in 1 .. N, NEW b \in 1 .. N, a # b PROVE q[a] # q[b]
    <3>1. PICK k \in 0 .. m - 1, j \in 1 .. n : a = k * n + j /\ q[a] = TokensOf(Of(k))[j]
      BY <1>7, <1>10
    <3>2. PICK l \in 0 .. m - 1, i \in 1 .. n : b = l * n + i /\ q[b] = TokensOf(Of(l))[i]
      BY <1>7, <1>10
    <3>3. q[a][1] = Of(k) /\ q[b][1] = Of(l)
      BY <1>6, <3>1, <3>2
    <3>4. CASE k # l
      BY <1>5, <3>3, <3>4
    <3>5. CASE k = l
      <4>1. j # i /\ j \in 1 .. Len(TokensOf(Of(k))) /\ i \in 1 .. Len(TokensOf(Of(k)))
        BY <1>6, <2>3, <3>1, <3>2, <3>5
      <4>2. j < i \/ i < j
        BY <4>1
      <4>3. q[a][2] < q[b][2] \/ q[b][2] < q[a][2]
        BY <1>6, <3>1, <3>2, <3>5, <4>1, <4>2
      <4>4. q[a][2] \in Int /\ q[b][2] \in Int
        BY <1>11 DEF Tokens, Positions
      <4> QED BY <4>3, <4>4
    <3> QED BY <3>4, <3>5
  <2> QED BY <1>11, <1>12, <2>1, <2>2, <2>3 DEF IsShare
<1>16. ASSUME NEW t \in TokenSet(split_equal), NEW u \in Range(rest), u[1] = t[1], u[2] < t[2]
       PROVE  u \in TokenSet(split_equal)
  <2>1. PICK a \in 1 .. N : t = q[a]
    BY <1>14
  <2>2. PICK k \in 0 .. m - 1, j \in 1 .. n : t = TokensOf(Of(k))[j]
    BY <1>7, <1>10, <2>1
  <2>3. j \in 1 .. Len(TokensOf(Of(k))) /\ t[1] = Of(k)
    BY <1>6, <2>2
  <2>4. PICK i \in 1 .. Len(TokensOf(Of(k))) : u = TokensOf(Of(k))[i]
    BY <1>6, <1>16, <2>3
  <2>5. t[2] \in Int /\ u[2] \in Int
    <3>1. t \in Range(rest)
      BY <1>6, <2>2, <2>3
    <3> QED BY <1>16, <3>1, RestTokens DEF Positions
  <2>6. ~(j < i) /\ ~(j = i)
    BY <1>6, <1>16, <2>2, <2>3, <2>4, <2>5
  <2>7. i \in 1 .. n
    BY <1>6, <2>6
  <2> QED BY <1>8, <1>10, <1>14, <2>4, <2>7
<1> QED BY <1>12, <1>13, <1>15, <1>16 DEF IsUbatch

(* However the batch is split.                                             *)
LEMMA NextUbatch == ASSUME Splitting PROVE IsUbatch(next_ubatch)
<1>1. CASE split = "simple"
  <2>1. unified /\ next_ubatch = split_simple
    BY <1>1 DEF Splitting, next_ubatch
  <2> QED BY <2>1, SplitSimple
<1>2. CASE split = "equal"
  <2>1. next_ubatch = split_equal
    BY <1>2 DEF next_ubatch
  <2> QED BY <2>1, SplitStreams, SplitUnified
<1> QED BY <1>1, <1>2 DEF Splitting

-----------------------------------------------------------------------------
(* find_slot.                                                              *)

(* Tokens and the cells of a slot for them, per stream.                    *)
IsLevel(ub, ix) ==
    /\ DOMAIN ub \subseteq Streams /\ DOMAIN ix = DOMAIN ub
    /\ \A st \in DOMAIN ub :
         /\ ub[st] \in Seq(Tokens) /\ ix[st] \in Seq(Cells)
         /\ Len(ub[st]) \in Nat \ {0} /\ Len(ix[st]) = Len(ub[st])
         /\ \A k \in 1 .. Len(ub[st]) : seq_to_stream(ub[st][k][1]) = st
         /\ \A k, l \in 1 .. Len(ub[st]) :
               k # l => ub[st][k] # ub[st][l] /\ ix[st][k] # ix[st][l]

(* There are cells.                                                        *)
LEMMA CellsType == NCells \in Nat \ {0} /\ Cells \subseteq Nat /\ IsFiniteSet(Cells)
<1>1. PICK a \in Nat : a = NSwa * (IF unified THEN NSeq ELSE 1)
  <2>1. NSwa \in Nat /\ NSeq \in Nat
    BY PlaceAssumption
  <2>2. NSwa * NSeq \in Nat /\ NSwa * 1 \in Nat
    BY <2>1
  <2> QED BY <2>2
<1>2. NCells = IF SizeBase < a + NUbatch THEN SizeBase ELSE a + NUbatch
  BY <1>1 DEF NCells
<1>3. NCells \in Nat \ {0}
  BY <1>2, PlaceAssumption
<1>4. IsFiniteSet(0 .. NCells - 1)
  BY <1>3, FS_Interval
<1> QED BY <1>3, <1>4 DEF Cells

(* The search tests every cell once.                                       *)
LEMMA SearchProperties ==
    ASSUME NEW h \in 0 .. NCells
    PROVE  /\ SearchOrder(h) \in Seq(Cells) /\ Len(SearchOrder(h)) = NCells
           /\ DOMAIN SearchOrder(h) = 1 .. NCells
           /\ \A i, j \in 1 .. NCells : i # j => SearchOrder(h)[i] # SearchOrder(h)[j]
           /\ \A c \in Cells : \E i \in 1 .. NCells : SearchOrder(h)[i] = c
<1>1. PICK n \in Nat \ {0} : n = NCells
  BY CellsType
<1>2. PICK q : q = SearchOrder(h)
  OBVIOUS
<1>3. q = [i \in 1 .. n |-> IF h + i <= n THEN h + i - 1 ELSE h + i - 1 - n]
  BY <1>1, <1>2 DEF SearchOrder
<1>4. \A i \in 1 .. n : q[i] \in 0 .. n - 1
  BY <1>1, <1>3
<1>5. q \in Seq(Cells) /\ Len(q) = n /\ DOMAIN q = 1 .. n
  <2>1. q \in [1 .. n -> Cells]
    BY <1>1, <1>3, <1>4 DEF Cells
  <2> QED BY <2>1
<1>6. \A i, j \in 1 .. n : i # j => q[i] # q[j]
  BY <1>1, <1>3
<1>7. ASSUME NEW c \in 0 .. n - 1
      PROVE  \E i \in 1 .. n : q[i] = c
  <2>1. CASE c < h
    <3>1. c - h + 1 + n \in 1 .. n /\ q[c - h + 1 + n] = c
      BY <1>1, <1>3, <2>1
    <3> QED BY <3>1
  <2>2. CASE ~(c < h)
    <3>1. c - h + 1 \in 1 .. n /\ q[c - h + 1] = c
      BY <1>1, <1>3, <2>2
    <3> QED BY <3>1
  <2> QED BY <2>1, <2>2
<1> QED BY <1>1, <1>2, <1>5, <1>6, <1>7 DEF Cells

(* The usable cells, each once.                                            *)
LEMMA UsableProperties ==
    ASSUME NEW st, NEW n, heads[st] \in 0 .. NCells
    PROVE  /\ Usable(st, n) \in Seq(Cells)
           /\ \A k \in 1 .. Len(Usable(st, n)) : can_use(cells[st], Usable(st, n)[k])
           /\ \A k, l \in 1 .. Len(Usable(st, n)) : k # l => Usable(st, n)[k] # Usable(st, n)[l]
           /\ Len(Usable(st, n)) = Cardinality({c \in Cells : can_use(cells[st], c)})
<1>1. PICK h \in 0 .. NCells : h = head_cur(cells[st], heads[st], n)
  BY CellsType DEF head_cur
<1>2. PICK N, q : N \in Nat /\ N = NCells /\ q = SearchOrder(h)
  BY CellsType
<1>3. /\ q \in Seq(Cells) /\ Len(q) = N /\ DOMAIN q = 1 .. N
      /\ \A i, j \in 1 .. N : i # j => q[i] # q[j]
      /\ \A c \in Cells : \E i \in 1 .. N : q[i] = c
  <2>1. /\ SearchOrder(h) \in Seq(Cells) /\ Len(SearchOrder(h)) = NCells
        /\ DOMAIN SearchOrder(h) = 1 .. NCells
        /\ \A i, j \in 1 .. NCells : i # j => SearchOrder(h)[i] # SearchOrder(h)[j]
        /\ \A c \in Cells : \E i \in 1 .. NCells : SearchOrder(h)[i] = c
    BY SearchProperties
  <2> QED BY <1>2, <2>1
<1> DEFINE C == {c \in Cells : can_use(cells[st], c)}
           I == {i \in 1 .. N : can_use(cells[st], q[i])}
<1>4. PICK u : u = Usable(st, n)
  OBVIOUS
<1>5. u = Chosen(q, I)
  BY <1>1, <1>2, <1>3, <1>4 DEF Usable
<1>6. \A i \in I : i \in 1 .. N /\ q[i] \in C
  BY <1>3
<1>7. \A c \in C : \E i \in I : q[i] = c
  BY <1>3
<1>8. PICK J \in SUBSET (1 .. Len(q)) : J = I
  BY <1>3
<1> HIDE DEF I, C
<1>9. /\ Chosen(q, J) \in Seq(Cells)
      /\ IsFiniteSet(J) /\ Cardinality(J) \in Nat /\ Len(Chosen(q, J)) = Cardinality(J)
      /\ Range(Chosen(q, J)) = {q[i] : i \in J}
      /\ \A i \in 1 .. Cardinality(J) : \E a \in J : Chosen(q, J)[i] = q[a]
      /\ \A i, j \in 1 .. Cardinality(J) :
            i < j => \E a, b \in J : a < b /\ Chosen(q, J)[i] = q[a] /\ Chosen(q, J)[j] = q[b]
  <2>1. q \in Seq(Cells)
    BY <1>3
  <2> QED BY ONLY <2>1, ChosenProperties
<1>10. PICK m \in Nat : m = Cardinality(I) /\ m = Len(u)
  BY <1>5, <1>8, <1>9
<1>11. /\ u \in Seq(Cells)
       /\ \A i \in 1 .. m : \E a \in I : u[i] = q[a]
       /\ \A i, j \in 1 .. m : i < j => \E a, b \in I : a < b /\ u[i] = q[a] /\ u[j] = q[b]
  BY <1>5, <1>8, <1>9, <1>10
<1>12. \A k \in 1 .. m : can_use(cells[st], u[k])
  BY <1>11 DEF I
<1>13. \A k, l \in 1 .. m : k # l => u[k] # u[l]
  <2> SUFFICES ASSUME NEW k \in 1 .. m, NEW l \in 1 .. m, k < l PROVE u[k] # u[l]
    <3>1. \A k, l \in 1 .. m : k # l => k < l \/ l < k
      OBVIOUS
    <3> QED BY <3>1
  <2>1. PICK a \in I, b \in I : a < b /\ u[k] = q[a] /\ u[l] = q[b]
    BY <1>11
  <2>2. a # b /\ a \in 1 .. N /\ b \in 1 .. N
    BY <1>6, <2>1
  <2> QED BY <1>3, <2>1, <2>2
<1>14. Cardinality(C) = m
  <2> DEFINE f == [i \in I |-> q[i]]
  <2>1. f \in [I -> C]
    BY <1>6
  <2>2. f \in Injection(I, C)
    BY <1>3, <1>6, <2>1 DEF Injection, IsInjective
  <2>3. f \in Surjection(I, C)
    BY <1>7, <2>1 DEF Surjection
  <2>4. ExistsBijection(I, C)
    BY <2>2, <2>3 DEF ExistsBijection, Bijection
  <2>5. IsFiniteSet(I)
    BY <1>8, <1>9
  <2> QED BY <1>10, <2>4, <2>5, FS_Bijection
<1> QED BY <1>4, <1>10, <1>11, <1>12, <1>13, <1>14 DEF C

(* A slot has a usable cell of the stream for every token.                 *)
LEMMA SlotFound ==
    ASSUME NEW ub, IsUbatch(ub), Fits(ub), \A st \in Streams : heads[st] \in 0 .. NCells
    PROVE  /\ IsLevel(ub, find_slot(ub))
           /\ \A st \in DOMAIN ub : \A c \in Range(find_slot(ub)[st]) :
                 c \in Cells /\ can_use(cells[st], c)
<1>1. PICK ix : ix = find_slot(ub)
  OBVIOUS
<1>2. DOMAIN ub \subseteq Streams /\ DOMAIN ix = DOMAIN ub
  BY <1>1 DEF IsUbatch, find_slot
<1>3. ASSUME NEW st \in DOMAIN ub
      PROVE  /\ ub[st] \in Seq(Tokens) /\ ix[st] \in Seq(Cells)
             /\ Len(ub[st]) \in Nat \ {0} /\ Len(ix[st]) = Len(ub[st])
             /\ \A k \in 1 .. Len(ub[st]) : seq_to_stream(ub[st][k][1]) = st
             /\ \A k, l \in 1 .. Len(ub[st]) :
                   k # l => ub[st][k] # ub[st][l] /\ ix[st][k] # ix[st][l]
             /\ \A c \in Range(ix[st]) : c \in Cells /\ can_use(cells[st], c)
  <2>1. IsShare(ub[st], st) /\ heads[st] \in 0 .. NCells
    BY <1>2 DEF IsUbatch
  <2>2. PICK n \in Nat \ {0} : n = Len(ub[st])
    BY <2>1, PlaceAssumption DEF IsShare
  <2>3. PICK u : u = Usable(st, n)
    OBVIOUS
  <2>4. /\ u \in Seq(Cells) /\ Len(u) \in Nat
        /\ \A k \in 1 .. Len(u) : can_use(cells[st], u[k])
        /\ \A k, l \in 1 .. Len(u) : k # l => u[k] # u[l]
    <3>1. /\ Usable(st, n) \in Seq(Cells)
          /\ \A k \in 1 .. Len(Usable(st, n)) : can_use(cells[st], Usable(st, n)[k])
          /\ \A k, l \in 1 .. Len(Usable(st, n)) : k # l => Usable(st, n)[k] # Usable(st, n)[l]
      BY <2>1, UsableProperties
    <3>2. u \in Seq(Cells)
      BY <2>3, <3>1
    <3> QED BY <2>3, <3>1, <3>2
  <2>5. Len(u) >= n
    BY <2>2, <2>3 DEF Fits
  <2>6. PICK r : r = SubSeq(u, 1, n) /\ r = ix[st]
    BY <1>1, <2>2, <2>3 DEF find_slot
  <2>7. r \in Seq(Cells) /\ Len(r) = n /\ \A i \in 1 .. n : r[i] = u[i]
    <3>1. \A i \in 1 .. n : u[i] \in Cells
      BY <2>4, <2>5
    <3>2. /\ SubSeq(u, 1, n) \in Seq(Cells)
          /\ Len(SubSeq(u, 1, n)) = IF 1 <= n THEN n - 1 + 1 ELSE 0
          /\ \A i \in 1 .. n - 1 + 1 : SubSeq(u, 1, n)[i] = u[1 + i - 1]
      BY <2>4, <3>1, SubSeqProperties
    <3> QED BY <2>6, <3>2
  <2>8. \A i \in 1 .. n : i \in 1 .. Len(u)
    BY <2>4, <2>5
  <2>9. \A k, l \in 1 .. n : k # l => r[k] # r[l]
    BY <2>4, <2>7, <2>8
  <2>10. \A c \in Range(r) : c \in Cells /\ can_use(cells[st], c)
    <3>1. DOMAIN r = 1 .. n
      BY <2>7
    <3>2. \A k \in 1 .. n : r[k] \in Cells
      BY <2>7
    <3> QED BY <2>4, <2>7, <2>8, <3>1, <3>2 DEF Range
  <2> QED BY <2>1, <2>2, <2>6, <2>7, <2>9, <2>10 DEF IsShare
<1>4. IsLevel(ub, ix)
  BY <1>2, <1>3 DEF IsLevel
<1> QED BY <1>1, <1>3, <1>4

(* If there is none, a stream has fewer usable cells than tokens.          *)
LEMMA SlotMissing ==
    ASSUME NEW ub, IsUbatch(ub), ~Fits(ub), \A st \in Streams : heads[st] \in 0 .. NCells
    PROVE  \E st \in DOMAIN ub :
              Cardinality({c \in Cells : can_use(cells[st], c)}) < NUbatch
<1>1. PICK st \in DOMAIN ub : ~(Len(Usable(st, Len(ub[st]))) >= Len(ub[st]))
  BY DEF Fits
<1>2. heads[st] \in 0 .. NCells /\ Len(ub[st]) \in 1 .. NUbatch /\ NUbatch \in Nat
  BY PlaceAssumption DEF IsUbatch, IsShare
<1>3. PICK u : u = Usable(st, Len(ub[st]))
  OBVIOUS
<1>4. u \in Seq(Cells) /\ Len(u) = Cardinality({c \in Cells : can_use(cells[st], c)})
  BY <1>2, <1>3, UsableProperties
<1>5. Len(u) \in Nat
  BY <1>4
<1>6. Len(u) < NUbatch
  BY <1>1, <1>2, <1>3, <1>5
<1> QED BY <1>4, <1>6

-----------------------------------------------------------------------------
(* apply_ubatch.                                                           *)

(* A cell has a position and sequences, or neither.                        *)
GoodCell(x) == /\ x \in [pos : Positions \cup {-1}, seqs : SUBSET Seqs]
               /\ x.pos = -1 <=> x.seqs = {}

(* What remains of cell x when it keeps the sequences S.                   *)
Left(x, S) == IF S = {} THEN Empty ELSE [pos |-> x.pos, seqs |-> S]

(* Cell x holds part of what y holds.                                      *)
Less(x, y) == x.seqs \subseteq y.seqs /\ (x.seqs # {} => x.pos = y.pos)

(* A cell that nobody shares.                                              *)
Single(x) == \A r, s \in x.seqs : r = s

(* The greatest element of a bounded set of integers.                      *)
LEMMA Greatest ==
    ASSUME NEW P \in SUBSET Int, P # {}, NEW b \in Int, \A p \in P : p <= b
    PROVE  \E m \in P : \A p \in P : m >= p
<1>1. PICK K : K = {b - p : p \in P}
  OBVIOUS
<1>2. ASSUME NEW k \in K PROVE k \in Nat
  <2>1. PICK p \in P : k = b - p
    BY <1>1, <1>2
  <2>2. p \in Int /\ p <= b
    OBVIOUS
  <2> QED BY <2>1, <2>2
<1>3. K \in SUBSET Nat
  BY <1>2
<1>4. K # {}
  BY <1>1
<1>5. PICK k \in K : \A q \in K : k <= q
  BY <1>3, <1>4, MinIsLeast
<1>6. PICK m \in P : k = b - m
  BY <1>1
<1>7. ASSUME NEW p \in P PROVE m >= p
  <2>1. k <= b - p
    BY <1>1, <1>5
  <2>2. p \in Int /\ m \in Int
    OBVIOUS
  <2> QED BY <1>6, <2>1, <2>2
<1> QED BY <1>6, <1>7

(* An empty cell is Empty.                                                 *)
LEMMA GoodEmpty ==
    ASSUME NEW x, GoodCell(x)
    PROVE  /\ x = Empty <=> x.seqs = {}
           /\ x.pos \in Int /\ (x.seqs # {} => x.pos \in Positions) /\ x.seqs \subseteq Seqs
           /\ x = [pos |-> x.pos, seqs |-> x.seqs]
  BY DEF GoodCell, Empty, Positions

(* A cell that lost sequences is a cell.                                   *)
LEMMA GoodLeft ==
    ASSUME NEW x, GoodCell(x), NEW S \in SUBSET x.seqs
    PROVE  /\ GoodCell(Left(x, S)) /\ Left(x, S).seqs = S
           /\ S # {} => Left(x, S).pos = x.pos
           /\ S = x.seqs => Left(x, S) = x
           /\ Less(Left(x, S), x)
<1>1. x = [pos |-> x.pos, seqs |-> x.seqs] /\ x.seqs \in SUBSET Seqs /\ -1 \notin Positions
  BY DEF GoodCell, Positions
<1>2. CASE S = {}
  BY <1>1, <1>2 DEF GoodCell, Left, Empty, Less
<1>3. CASE S # {}
  BY <1>1, <1>3 DEF GoodCell, Left, Empty, Less
<1> QED BY <1>2, <1>3

(* Taking sequences out of a cell, as the code does.                       *)
LEMMA TakeOut ==
    ASSUME NEW x, GoodCell(x), NEW gone
    PROVE  [x EXCEPT !.seqs = @ \ gone] = [pos |-> x.pos, seqs |-> x.seqs \ gone]
<1>1. PICK p, q : x = [pos |-> p, seqs |-> q]
  BY DEF GoodCell
<1>2. [[pos |-> p, seqs |-> q] EXCEPT !.seqs = @ \ gone] = [pos |-> p, seqs |-> q \ gone]
  OBVIOUS
<1> QED BY <1>1, <1>2

-----------------------------------------------------------------------------
(* The last overwritten position of a sequence.                            *)
LEMMA LastOverwritten ==
    ASSUME NEW k, NEW ix, NEW s, \A c \in Range(ix) : GoodCell(k[c])
    PROVE  /\ seq_pos_max_rm(k, ix, s) \in Int
           /\ \A c \in Range(ix) : k[c].seqs = {s} => k[c].pos <= seq_pos_max_rm(k, ix, s)
           /\ \/ seq_pos_max_rm(k, ix, s) = -1
              \/ \E c \in Range(ix) : k[c].seqs = {s} /\ k[c].pos = seq_pos_max_rm(k, ix, s)
<1> DEFINE P == {k[c].pos : c \in {d \in Range(ix) : k[d].seqs = {s}}} \cup {-1}
<1>1. \A p \in P : p \in Positions \cup {-1}
  BY DEF GoodCell
<1>2. MaxLen \in Nat
  BY PlaceAssumption
<1>3. P \in SUBSET Int /\ P # {} /\ \A p \in P : p <= MaxLen
  BY <1>1, <1>2 DEF Positions
<1>4. \E m \in P : \A p \in P : m >= p
  <2>1. PICK Q : Q = P
    OBVIOUS
  <2>2. PICK b \in Int : b = MaxLen
    BY <1>2
  <2>3. Q \in SUBSET Int /\ Q # {} /\ \A p \in Q : p <= b
    BY <1>3, <2>1, <2>2
  <2>4. \E m \in Q : \A p \in Q : m >= p
    BY ONLY <2>2, <2>3, Greatest
  <2> QED BY <2>1, <2>4
<1>5. PICK r : r = seq_pos_max_rm(k, ix, s)
  OBVIOUS
<1>6. r \in P /\ \A p \in P : r >= p
  <2>1. r = CHOOSE m \in P : \A p \in P : m >= p
    BY <1>5 DEF seq_pos_max_rm
  <2> HIDE DEF P
  <2> QED BY <1>4, <2>1
<1>7. r \in Int
  BY <1>3, <1>6
<1>8. \A c \in Range(ix) : k[c].seqs = {s} => k[c].pos <= r
  <2> SUFFICES ASSUME NEW c \in Range(ix), k[c].seqs = {s} PROVE k[c].pos <= r
    OBVIOUS
  <2>1. k[c].pos \in P
    OBVIOUS
  <2>2. k[c].pos \in Int
    BY <1>3, <2>1
  <2> HIDE DEF P
  <2> QED BY <1>6, <1>7, <2>1, <2>2
<1>9. r = -1 \/ \E c \in Range(ix) : k[c].seqs = {s} /\ k[c].pos = r
  BY <1>6
<1> QED BY <1>5, <1>7, <1>8, <1>9

(* The last position of a sequence in the cells of a stream.               *)
LEMMA LastPosition ==
    ASSUME NEW k, \A c \in Cells : GoodCell(k[c]), NEW s, NEW d \in Cells, s \in k[d].seqs
    PROVE  /\ seq_pos_max(k, s) \in Int
           /\ \A c \in Cells : s \in k[c].seqs => k[c].pos <= seq_pos_max(k, s)
           /\ \E c \in Cells : s \in k[c].seqs /\ k[c].pos = seq_pos_max(k, s)
<1> DEFINE P == PosOf(k, s)
<1>1. \A p \in P : p \in Positions \cup {-1}
  BY DEF GoodCell, PosOf
<1>2. MaxLen \in Nat
  BY PlaceAssumption
<1>3. P \in SUBSET Int /\ P # {} /\ \A p \in P : p <= MaxLen
  <2>1. k[d].pos \in P
    BY DEF PosOf
  <2> HIDE DEF P
  <2> QED BY <1>1, <1>2, <2>1 DEF Positions
<1>4. \E m \in P : \A p \in P : m >= p
  <2>1. PICK Q : Q = P
    OBVIOUS
  <2>2. PICK b \in Int : b = MaxLen
    BY <1>2
  <2>3. Q \in SUBSET Int /\ Q # {} /\ \A p \in Q : p <= b
    BY <1>3, <2>1, <2>2
  <2>4. \E m \in Q : \A p \in Q : m >= p
    BY ONLY <2>2, <2>3, Greatest
  <2> QED BY <2>1, <2>4
<1>5. PICK r : r = seq_pos_max(k, s)
  OBVIOUS
<1>6. r \in P /\ \A p \in P : r >= p
  <2>1. r = CHOOSE m \in P : \A p \in P : m >= p
    BY <1>3, <1>5 DEF seq_pos_max
  <2> HIDE DEF P
  <2> QED BY <1>4, <2>1
<1>7. r \in Int
  BY <1>3, <1>6
<1>8. \A c \in Cells : s \in k[c].seqs => k[c].pos <= r
  <2> SUFFICES ASSUME NEW c \in Cells, s \in k[c].seqs PROVE k[c].pos <= r
    OBVIOUS
  <2>1. k[c].pos \in P
    BY DEF PosOf
  <2>2. k[c].pos \in Int
    BY <1>3, <2>1
  <2> HIDE DEF P
  <2> QED BY <1>6, <1>7, <2>1, <2>2
<1>9. \E c \in Cells : s \in k[c].seqs /\ k[c].pos = r
  BY <1>6 DEF PosOf
<1> QED BY <1>5, <1>7, <1>8, <1>9

-----------------------------------------------------------------------------
(* The cells of an applied ubatch: a cell of its slot holds its token, or  *)
(* nothing if the purge took that too; the purge takes out of the others   *)
(* what is not after the last overwritten position.                        *)
LEMMA AppliedCells ==
    ASSUME NEW ub, NEW ix, IsLevel(ub, ix), apply_ubatch(ub, ix),
           \A st \in Streams, c \in Cells : GoodCell(cells[st][c]),
           NEW st \in DOMAIN ub, NEW c \in Cells
    PROVE  /\ GoodCell(cells'[st][c])
           /\ \A k \in 1 .. Len(ub[st]) : ix[st][k] = c =>
                 /\ cells'[st][c].seqs \subseteq {ub[st][k][1]}
                 /\ cells'[st][c].seqs # {} => cells'[st][c].pos = ub[st][k][2]
                 /\ ub[st][k][2] > seq_pos_max_rm(cells[st], ix[st], ub[st][k][1]) =>
                       cells'[st][c] = [pos |-> ub[st][k][2], seqs |-> {ub[st][k][1]}]
           /\ c \notin Range(ix[st]) =>
                 /\ Less(cells'[st][c], cells[st][c])
                 /\ \A s : s \in cells'[st][c].seqs <=>
                       /\ s \in cells[st][c].seqs
                       /\ cells[st][c].pos > seq_pos_max_rm(cells[st], ix[st], s)
<1>1. PICK n \in Nat \ {0} : n = Len(ub[st]) /\ n = Len(ix[st])
  BY DEF IsLevel
<1>2. /\ st \in Streams /\ DOMAIN ix[st] = 1 .. n
      /\ \A k \in 1 .. n : ub[st][k] \in Tokens /\ ix[st][k] \in Cells
      /\ \A k, l \in 1 .. n : k # l => ix[st][k] # ix[st][l]
  BY <1>1 DEF IsLevel
<1> DEFINE P == Placed(cells[st], ub[st], ix[st])
           rm(s) == seq_pos_max_rm(cells[st], ix[st], s)
<1>3. \A s : rm(s) \in Int
  <2>1. \A d \in Range(ix[st]) : GoodCell(cells[st][d])
    BY <1>2 DEF Range
  <2> QED BY <2>1, LastOverwritten
<1>4. PICK x : x = P[c]
  OBVIOUS
<1>5. \A k \in 1 .. n : ix[st][k] = c => x = [pos |-> ub[st][k][2], seqs |-> {ub[st][k][1]}]
  <2> SUFFICES ASSUME NEW k \in 1 .. n, ix[st][k] = c
               PROVE  x = [pos |-> ub[st][k][2], seqs |-> {ub[st][k][1]}]
    OBVIOUS
  <2>1. \E i \in DOMAIN ix[st] : ix[st][i] = c
    BY <1>2
  <2>2. (CHOOSE i \in DOMAIN ix[st] : ix[st][i] = c) = k
    BY <1>2
  <2> QED BY <1>4, <2>1, <2>2 DEF Placed
<1>6. c \notin Range(ix[st]) => x = cells[st][c]
  BY <1>2, <1>4 DEF Placed, Range
<1>7. GoodCell(x)
  <2>1. CASE c \in Range(ix[st])
    <3>1. PICK k \in 1 .. n : ix[st][k] = c
      BY <1>2, <2>1 DEF Range
    <3>2. ub[st][k][1] \in Seqs /\ ub[st][k][2] \in Positions
      BY <1>2, <3>1 DEF Tokens
    <3>3. x = [pos |-> ub[st][k][2], seqs |-> {ub[st][k][1]}]
      BY <1>5, <3>1
    <3> QED BY <3>2, <3>3 DEF GoodCell, Positions
  <2>2. CASE c \notin Range(ix[st])
    BY <1>2, <1>6, <2>2
  <2> QED BY <2>1, <2>2
<1> DEFINE gone == {s \in x.seqs : x.pos <= rm(s)}
           S == {s \in x.seqs : x.pos > rm(s)}
<1>8. cells'[st][c] = IF x.seqs # {} /\ gone = x.seqs THEN Empty
                      ELSE [x EXCEPT !.seqs = @ \ gone]
  <2>1. cells'[st] = Purged(P, cells[st], ix[st])
    BY <1>2 DEF apply_ubatch
  <2> QED BY <1>4, <2>1 DEF Purged
<1>9. x.pos \in Int
  BY <1>7, GoodEmpty
<1>10. x.seqs \ gone = S
  BY <1>3, <1>9
<1>11. [x EXCEPT !.seqs = @ \ gone] = [pos |-> x.pos, seqs |-> S]
  <2> HIDE DEF gone, S
  <2> QED BY <1>7, <1>10, TakeOut
<1>12. cells'[st][c] = Left(x, S)
  <2> HIDE DEF gone, S
  <2>1. CASE S = {}
    <3>1. x.seqs = {} => x = Empty
      BY <1>7, GoodEmpty
    <3>2. gone \subseteq x.seqs
      BY DEF gone
    <3> QED BY <1>8, <1>10, <1>11, <2>1, <3>1, <3>2 DEF Left, Empty
  <2>2. CASE S # {}
    <3>1. gone # x.seqs
      BY <1>10, <2>2
    <3> QED BY <1>8, <1>11, <2>2, <3>1 DEF Left
  <2> QED BY <2>1, <2>2
<1>13. S \in SUBSET x.seqs
  OBVIOUS
<1>14. /\ GoodCell(Left(x, S)) /\ Left(x, S).seqs = S /\ (S # {} => Left(x, S).pos = x.pos)
       /\ (S = x.seqs => Left(x, S) = x) /\ Less(Left(x, S), x)
  <2> HIDE DEF S
  <2> QED BY <1>7, <1>13, GoodLeft
<1>15. ASSUME NEW k \in 1 .. n, ix[st][k] = c
       PROVE  /\ cells'[st][c].seqs \subseteq {ub[st][k][1]}
              /\ cells'[st][c].seqs # {} => cells'[st][c].pos = ub[st][k][2]
              /\ ub[st][k][2] > rm(ub[st][k][1]) =>
                    cells'[st][c] = [pos |-> ub[st][k][2], seqs |-> {ub[st][k][1]}]
  <2>1. x = [pos |-> ub[st][k][2], seqs |-> {ub[st][k][1]}]
    BY <1>5, <1>15
  <2>2. x.seqs = {ub[st][k][1]} /\ x.pos = ub[st][k][2]
    BY <2>1
  <2>3. ub[st][k][2] > rm(ub[st][k][1]) => S = x.seqs
    BY <2>2
  <2> HIDE DEF S, rm
  <2> QED BY <1>12, <1>13, <1>14, <2>1, <2>2, <2>3
<1>16. ASSUME c \notin Range(ix[st])
       PROVE  /\ Less(cells'[st][c], cells[st][c])
              /\ \A s : s \in cells'[st][c].seqs <=> s \in cells[st][c].seqs /\ cells[st][c].pos > rm(s)
  <2>1. x = cells[st][c]
    BY <1>6, <1>16
  <2>2. \A s : s \in S <=> s \in x.seqs /\ x.pos > rm(s)
    OBVIOUS
  <2> HIDE DEF S, rm
  <2> QED BY <1>12, <1>14, <2>1, <2>2
<1> QED BY <1>1, <1>12, <1>14, <1>15, <1>16

(* Ubatch ub puts token p of sequence s in cell c of stream st.            *)
Puts(ub, ix, st, c, s, p) ==
    st \in DOMAIN ub /\ \E k \in 1 .. Len(ub[st]) : ix[st][k] = c /\ ub[st][k] = <<s, p>>

(* It takes the cell.                                                      *)
Takes(ub, ix, st, c) == st \in DOMAIN ub /\ c \in Range(ix[st])

(* A slot in terms of these: every token has one cell of its stream and    *)
(* every cell taken has one token.                                         *)
LEMMA SlotRelation ==
    ASSUME NEW ub, NEW ix, IsLevel(ub, ix)
    PROVE  /\ \A st, c, s, p : Puts(ub, ix, st, c, s, p) =>
                 /\ Takes(ub, ix, st, c) /\ <<s, p>> \in TokenSet(ub) /\ st \in Streams
                 /\ c \in Cells /\ s \in Seqs /\ p \in Positions /\ seq_to_stream(s) = st
           /\ \A st, c : Takes(ub, ix, st, c) =>
                 st \in Streams /\ c \in Cells /\ \E s \in Seqs, p \in Positions : Puts(ub, ix, st, c, s, p)
           /\ \A s, p : <<s, p>> \in TokenSet(ub) =>
                 \E c \in Cells : Puts(ub, ix, seq_to_stream(s), c, s, p)
           /\ \A st, c, s, p, r, q : Puts(ub, ix, st, c, s, p) /\ Puts(ub, ix, st, c, r, q) =>
                 s = r /\ p = q
           /\ \A st, c, d, s, p : Puts(ub, ix, st, c, s, p) /\ Puts(ub, ix, st, d, s, p) => c = d
           /\ \A t \in TokenSet(ub) : t \in Tokens /\ t = <<t[1], t[2]>>
<1>1. ASSUME NEW st \in DOMAIN ub
      PROVE  /\ st \in Streams /\ st \in DOMAIN ix /\ Len(ub[st]) \in Nat /\ DOMAIN ix[st] = 1 .. Len(ub[st])
             /\ DOMAIN ub[st] = 1 .. Len(ub[st])
             /\ \A k \in 1 .. Len(ub[st]) : /\ ub[st][k] \in Tokens /\ ix[st][k] \in Cells
                                            /\ seq_to_stream(ub[st][k][1]) = st
                                            /\ ub[st][k] = <<ub[st][k][1], ub[st][k][2]>>
             /\ \A k, l \in 1 .. Len(ub[st]) : k # l => ub[st][k] # ub[st][l] /\ ix[st][k] # ix[st][l]
  <2>1. /\ st \in Streams /\ DOMAIN ix = DOMAIN ub /\ ub[st] \in Seq(Tokens) /\ ix[st] \in Seq(Cells)
        /\ Len(ub[st]) \in Nat \ {0} /\ Len(ix[st]) = Len(ub[st])
        /\ \A k \in 1 .. Len(ub[st]) : seq_to_stream(ub[st][k][1]) = st
        /\ \A k, l \in 1 .. Len(ub[st]) : k # l => ub[st][k] # ub[st][l] /\ ix[st][k] # ix[st][l]
    BY <1>1 DEF IsLevel
  <2>2. /\ DOMAIN ix[st] = 1 .. Len(ub[st]) /\ DOMAIN ub[st] = 1 .. Len(ub[st])
        /\ \A k \in 1 .. Len(ub[st]) : ub[st][k] \in Tokens /\ ix[st][k] \in Cells
    BY <2>1
  <2>3. \A t \in Tokens : t = <<t[1], t[2]>>
    BY DEF Tokens
  <2> QED BY <1>1, <2>1, <2>2, <2>3
<1>2. \A t : t \in TokenSet(ub) <=> \E st \in DOMAIN ub : \E k \in 1 .. Len(ub[st]) : t = ub[st][k]
  <2>1. ASSUME NEW t, t \in TokenSet(ub)
        PROVE  \E st \in DOMAIN ub : \E k \in 1 .. Len(ub[st]) : t = ub[st][k]
    <3>1. PICK st \in DOMAIN ub : t \in Range(ub[st])
      BY <2>1 DEF TokenSet
    <3>2. \E k \in DOMAIN ub[st] : t = ub[st][k]
      BY <3>1 DEF Range
    <3>3. DOMAIN ub[st] = 1 .. Len(ub[st])
      BY <1>1
    <3> QED BY <3>2, <3>3
  <2>2. ASSUME NEW st \in DOMAIN ub, NEW k \in 1 .. Len(ub[st])
        PROVE  ub[st][k] \in TokenSet(ub)
    <3>1. DOMAIN ub[st] = 1 .. Len(ub[st])
      BY <1>1
    <3>2. ub[st][k] \in Range(ub[st])
      BY <3>1 DEF Range
    <3> QED BY <3>2 DEF TokenSet
  <2> QED BY <2>1, <2>2
<1>3. ASSUME NEW t \in TokenSet(ub) PROVE t \in Tokens /\ t = <<t[1], t[2]>>
  <2>1. PICK st \in DOMAIN ub : \E k \in 1 .. Len(ub[st]) : t = ub[st][k]
    BY <1>2
  <2>2. PICK k \in 1 .. Len(ub[st]) : t = ub[st][k]
    BY <2>1
  <2> QED BY <1>1, <2>2
<1>4. \A s, p : <<s, p>> \in Tokens => s \in Seqs /\ p \in Positions
  BY DEF Tokens
<1>5. \A s, p : <<s, p>>[1] = s /\ <<s, p>>[2] = p
  OBVIOUS
<1>6. ASSUME NEW st, NEW c, NEW s, NEW p, Puts(ub, ix, st, c, s, p)
      PROVE  /\ Takes(ub, ix, st, c) /\ <<s, p>> \in TokenSet(ub) /\ st \in Streams
             /\ c \in Cells /\ s \in Seqs /\ p \in Positions /\ seq_to_stream(s) = st
  <2>1. st \in DOMAIN ub
    BY <1>6 DEF Puts
  <2>2. PICK k \in 1 .. Len(ub[st]) : ix[st][k] = c /\ ub[st][k] = <<s, p>>
    BY <1>6 DEF Puts
  <2>3. c \in Range(ix[st])
    BY <1>1, <2>1, <2>2 DEF Range
  <2>4. <<s, p>> \in TokenSet(ub)
    BY <1>2, <2>1, <2>2
  <2>5. seq_to_stream(ub[st][k][1]) = st /\ ub[st][k][1] = s
    BY <1>1, <1>5, <2>1, <2>2
  <2>6. s \in Seqs /\ p \in Positions
    BY <1>1, <1>4, <2>1, <2>2
  <2> QED BY <1>1, <2>1, <2>2, <2>3, <2>4, <2>5, <2>6 DEF Takes
<1>7. ASSUME NEW st, NEW c, Takes(ub, ix, st, c)
      PROVE  st \in Streams /\ c \in Cells /\ \E s \in Seqs, p \in Positions : Puts(ub, ix, st, c, s, p)
  <2>1. st \in DOMAIN ub /\ c \in Range(ix[st])
    BY <1>7 DEF Takes
  <2>2. PICK k \in 1 .. Len(ub[st]) : ix[st][k] = c
    BY <1>1, <2>1 DEF Range
  <2>3. PICK s, p : ub[st][k] = <<s, p>>
    BY <1>1, <2>1, <2>2
  <2>4. Puts(ub, ix, st, c, s, p)
    BY <2>1, <2>2, <2>3 DEF Puts
  <2> QED BY <1>6, <2>4
<1>8. ASSUME NEW s, NEW p, <<s, p>> \in TokenSet(ub)
      PROVE  \E c \in Cells : Puts(ub, ix, seq_to_stream(s), c, s, p)
  <2>1. PICK st \in DOMAIN ub : \E k \in 1 .. Len(ub[st]) : <<s, p>> = ub[st][k]
    BY <1>2, <1>8
  <2>2. PICK k \in 1 .. Len(ub[st]) : <<s, p>> = ub[st][k]
    BY <2>1
  <2>3. Puts(ub, ix, st, ix[st][k], s, p)
    BY <2>2 DEF Puts
  <2> QED BY <1>6, <2>3
<1>9. ASSUME NEW st, NEW c, NEW s, NEW p, NEW r, NEW q,
             Puts(ub, ix, st, c, s, p), Puts(ub, ix, st, c, r, q)
      PROVE  s = r /\ p = q
  <2>1. st \in DOMAIN ub
    BY <1>9 DEF Puts
  <2>2. PICK k \in 1 .. Len(ub[st]) : ix[st][k] = c /\ ub[st][k] = <<s, p>>
    BY <1>9 DEF Puts
  <2>3. PICK l \in 1 .. Len(ub[st]) : ix[st][l] = c /\ ub[st][l] = <<r, q>>
    BY <1>9 DEF Puts
  <2>4. k = l
    BY <1>1, <2>1, <2>2, <2>3
  <2> QED BY <2>2, <2>3, <2>4
<1>10. ASSUME NEW st, NEW c, NEW d, NEW s, NEW p,
              Puts(ub, ix, st, c, s, p), Puts(ub, ix, st, d, s, p)
       PROVE  c = d
  <2>1. st \in DOMAIN ub
    BY <1>10 DEF Puts
  <2>2. PICK k \in 1 .. Len(ub[st]) : ix[st][k] = c /\ ub[st][k] = <<s, p>>
    BY <1>10 DEF Puts
  <2>3. PICK l \in 1 .. Len(ub[st]) : ix[st][l] = d /\ ub[st][l] = <<s, p>>
    BY <1>10 DEF Puts
  <2>4. k = l
    BY <1>1, <2>1, <2>2, <2>3
  <2> QED BY <2>2, <2>3, <2>4
<1> QED BY <1>3, <1>6, <1>7, <1>8, <1>9, <1>10

(* The cells after apply_ubatch.  Position p of sequence s is behind what  *)
(* the ubatch overwrites of s if it is after all of it.                    *)
Behind(ub, ix, st, s, p) ==
    \A d \in Cells : Takes(ub, ix, st, d) /\ cells[st][d].seqs = {s} => cells[st][d].pos < p

(* A token stays in its cell if it is behind; so does what is in the other *)
(* cells.                                                                  *)
LEMMA Applied ==
    ASSUME NEW ub, NEW ix, IsLevel(ub, ix), apply_ubatch(ub, ix),
           \A st \in Streams, c \in Cells : GoodCell(cells[st][c]),
           NEW st \in Streams, NEW c \in Cells
    PROVE  /\ GoodCell(cells'[st][c])
           /\ \A s, p : Puts(ub, ix, st, c, s, p) =>
                 /\ cells'[st][c].seqs \subseteq {s}
                 /\ cells'[st][c].seqs # {} => cells'[st][c].pos = p
                 /\ Behind(ub, ix, st, s, p) => cells'[st][c] = [pos |-> p, seqs |-> {s}]
           /\ ~Takes(ub, ix, st, c) =>
                 /\ Less(cells'[st][c], cells[st][c])
                 /\ \A s \in cells[st][c].seqs :
                       s \in cells'[st][c].seqs <=> Behind(ub, ix, st, s, cells[st][c].pos)
           /\ st \notin DOMAIN ub => cells'[st] = cells[st]
<1>1. CASE st \notin DOMAIN ub
  <2>1. cells'[st] = cells[st]
    BY <1>1 DEF apply_ubatch
  <2>2. \A d : ~Takes(ub, ix, st, d)
    BY <1>1 DEF Takes
  <2>3. \A s, p : ~Puts(ub, ix, st, c, s, p)
    BY <1>1 DEF Puts
  <2> QED BY <2>1, <2>2, <2>3 DEF Less, Behind
<1>2. CASE st \in DOMAIN ub
  <2>1. Range(ix[st]) \subseteq Cells /\ \A d : Takes(ub, ix, st, d) <=> d \in Range(ix[st])
    <3>1. \A d : Takes(ub, ix, st, d) <=> d \in Range(ix[st])
      BY <1>2 DEF Takes
    <3> QED BY <3>1, SlotRelation
  <2>2. \A d \in Range(ix[st]) : GoodCell(cells[st][d])
    BY <2>1
  <2>3. ASSUME NEW s, NEW p, p \in Positions
        PROVE  Behind(ub, ix, st, s, p) <=> p > seq_pos_max_rm(cells[st], ix[st], s)
    <3>1. PICK r \in Int : r = seq_pos_max_rm(cells[st], ix[st], s)
      BY <2>2, LastOverwritten
    <3>2. /\ \A d \in Range(ix[st]) : cells[st][d].seqs = {s} => cells[st][d].pos <= r
          /\ \/ r = -1
             \/ \E d \in Range(ix[st]) : cells[st][d].seqs = {s} /\ cells[st][d].pos = r
      BY <2>2, <3>1, LastOverwritten
    <3>3. \A d \in Range(ix[st]) : cells[st][d].pos \in Int
      BY <2>2, GoodEmpty
    <3>4. p \in Nat
      BY <2>3, PlaceAssumption DEF Positions
    <3>5. Behind(ub, ix, st, s, p) <=>
            \A d \in Range(ix[st]) : cells[st][d].seqs = {s} => cells[st][d].pos < p
      BY <2>1 DEF Behind
    <3>6. ASSUME \A d \in Range(ix[st]) : cells[st][d].seqs = {s} => cells[st][d].pos < p
          PROVE  p > r
      BY <3>2, <3>3, <3>4, <3>6
    <3>7. ASSUME p > r, NEW d \in Range(ix[st]), cells[st][d].seqs = {s}
          PROVE  cells[st][d].pos < p
      BY <3>1, <3>2, <3>3, <3>4, <3>7
    <3> QED BY <3>1, <3>5, <3>6, <3>7
  <2>4. /\ GoodCell(cells'[st][c])
        /\ \A k \in 1 .. Len(ub[st]) : ix[st][k] = c =>
              /\ cells'[st][c].seqs \subseteq {ub[st][k][1]}
              /\ cells'[st][c].seqs # {} => cells'[st][c].pos = ub[st][k][2]
              /\ ub[st][k][2] > seq_pos_max_rm(cells[st], ix[st], ub[st][k][1]) =>
                    cells'[st][c] = [pos |-> ub[st][k][2], seqs |-> {ub[st][k][1]}]
        /\ c \notin Range(ix[st]) =>
              /\ Less(cells'[st][c], cells[st][c])
              /\ \A s : s \in cells'[st][c].seqs <=>
                    /\ s \in cells[st][c].seqs
                    /\ cells[st][c].pos > seq_pos_max_rm(cells[st], ix[st], s)
    BY <1>2, AppliedCells
  <2>5. ASSUME NEW s, NEW p, Puts(ub, ix, st, c, s, p)
        PROVE  /\ cells'[st][c].seqs \subseteq {s}
               /\ cells'[st][c].seqs # {} => cells'[st][c].pos = p
               /\ Behind(ub, ix, st, s, p) => cells'[st][c] = [pos |-> p, seqs |-> {s}]
    <3>1. PICK k \in 1 .. Len(ub[st]) : ix[st][k] = c /\ ub[st][k] = <<s, p>>
      BY <2>5 DEF Puts
    <3>2. ub[st][k][1] = s /\ ub[st][k][2] = p
      BY <3>1
    <3>3. p \in Positions
      BY <2>5, SlotRelation
    <3> QED BY <2>3, <2>4, <3>1, <3>2, <3>3
  <2>6. ASSUME ~Takes(ub, ix, st, c), NEW s \in cells[st][c].seqs
        PROVE  s \in cells'[st][c].seqs <=> Behind(ub, ix, st, s, cells[st][c].pos)
    <3>1. cells[st][c].pos \in Positions
      BY <2>6, GoodEmpty
    <3> QED BY <2>1, <2>3, <2>4, <2>6, <3>1
  <2> QED BY <1>2, <2>1, <2>4, <2>5, <2>6
<1> QED BY <1>1, <1>2

-----------------------------------------------------------------------------
(***************************************************************************)
(* The ubatches of a batch are on the recovery stack while they are tried  *)
(* out, and in the plan from then on; the level that leaves the top of the *)
(* stack becomes the first of the plan.  Ub(i) and Slot(i) number them in  *)
(* the order in which they are computed.                                   *)
(***************************************************************************)
Levels == Len(stack) + Len(plan)
Ub(i) == IF i <= Len(stack) THEN stack[i].ub ELSE plan[i - Len(stack)].ub
Slot(i) == IF i <= Len(stack) THEN stack[i].idxs ELSE plan[i - Len(stack)].idxs

InDry == pc \in {"prepare", "failed"}

(* Token p of sequence s is in ubatch i; it is still to be computed.       *)
InLevel(i, s, p) == <<s, p>> \in TokenSet(Ub(i))
IsTodo(s, p) == \/ \E i \in 1 .. Levels : InLevel(i, s, p)
                \/ pc = "prepare" /\ <<s, p>> \in Range(rest)

(* The recovery stack.                                                     *)
StackType ==
    \A i \in 1 .. Len(stack) :
        /\ stack[i].heads \in [Streams -> 0 .. NCells]
        /\ IsLevel(stack[i].ub, stack[i].idxs)
        /\ \A st \in DOMAIN stack[i].ub :
              /\ DOMAIN stack[i].old[st] = Range(stack[i].idxs[st])
              /\ \A c \in Range(stack[i].idxs[st]) : GoodCell(stack[i].old[st][c])

PlanType == IsSequence(plan) /\ \A i \in 1 .. Len(plan) : IsLevel(plan[i].ub, plan[i].idxs)

CellsGood == \A st \in Streams, c \in Cells : GoodCell(cells[st][c])
BeforeGood == InDry => IsCells(before) /\ \A st \in Streams, c \in Cells : GoodCell(before[st][c])

(* What a decode has at which point.                                       *)
Control ==
    /\ ~InDry => stack = <<>> /\ rest = <<>>
    /\ pc \in {"idle", "failed"} \/ rest # <<>> => plan = <<>>
    /\ pc \in {"apply", "compute"} => plan # <<>>
    /\ pc = "failed" => rest # <<>>
    /\ InDry => before # <<>> /\ (~unified => split = "equal")

(* The tokens of the batch, and those that are left.                       *)
FromNext(T) ==
    \A s \in Seqs, p \in Positions : <<s, p>> \in T =>
        p >= decoded[s] /\ \A q \in decoded[s] .. p : <<s, q>> \in T

BatchType ==
    /\ InDry => batch \in Seq(Tokens) /\ batch # <<>> /\ Ordered(batch) /\ FromNext(Range(batch))
    /\ rest \in Seq(Tokens) /\ Ordered(rest)

(* A sequence's tokens are in the ubatches in their order, and continue    *)
(* from the next position without a hole.                                  *)
InOrder ==
    /\ \A i, j \in 1 .. Levels : i < j =>
          \A s, p, q : InLevel(i, s, p) /\ InLevel(j, s, q) => p < q
    /\ pc = "prepare" => \A i \in 1 .. Levels :
          \A s, p, q : InLevel(i, s, p) /\ <<s, q>> \in Range(rest) => p < q
    /\ pc # "failed" => \A s \in Seqs, p \in Positions : IsTodo(s, p) =>
          p >= decoded[s] /\ \A q \in decoded[s] .. p : IsTodo(s, q)

ScalarType ==
    /\ heads \in [Streams -> 0 .. NCells]
    /\ pc \in {"idle", "prepare", "failed", "apply", "compute"}
    /\ split \in {"simple", "equal"}
    /\ decoded \in [Seqs -> 0 .. MaxLen] /\ hurt \subseteq Seqs

TypeInv == /\ ScalarType /\ CellsGood /\ BeforeGood /\ StackType /\ PlanType
           /\ Control /\ BatchType /\ InOrder

-----------------------------------------------------------------------------
(* The parts of the type invariant.                                        *)
LEMMA TypeInvIs == DryRunInv /\ TypeInv => TypeOK
<1> SUFFICES ASSUME DryRunInv, TypeInv PROVE TypeOK
  OBVIOUS
<1>1. cells \in [Streams -> [Cells -> [pos : Positions \cup {-1}, seqs : SUBSET Seqs]]]
  <2>1. /\ DOMAIN cells = Streams
        /\ \A st \in Streams : cells[st] = [c \in Cells |-> cells[st][c]]
    BY DEF DryRunInv, IsCells
  <2>2. cells = [st \in Streams |-> cells[st]]
    BY <2>1 DEF DryRunInv, IsCells
  <2>3. ASSUME NEW st \in Streams
        PROVE cells[st] \in [Cells -> [pos : Positions \cup {-1}, seqs : SUBSET Seqs]]
    <3>1. \A c \in Cells : cells[st][c] \in [pos : Positions \cup {-1}, seqs : SUBSET Seqs]
      BY DEF TypeInv, CellsGood, GoodCell
    <3> QED BY <2>1, <3>1
  <2> QED BY <2>2, <2>3
<1>2. \A st \in Streams, c \in Cells : cells[st][c].pos = -1 <=> cells[st][c].seqs = {}
  BY DEF TypeInv, CellsGood, GoodCell
<1> QED BY <1>1, <1>2 DEF TypeOK, TypeInv, ScalarType, DryRunInv

-----------------------------------------------------------------------------
(* The ubatches as levels.                                                 *)

(* A level goes to the front of the plan.                                  *)
LEMMA PushedFront ==
    ASSUME NEW q, NEW e, IsSequence(q)
    PROVE  /\ IsSequence(<<e>> \o q) /\ Len(<<e>> \o q) = Len(q) + 1
           /\ (<<e>> \o q)[1] = e
           /\ \A i \in 1 .. Len(q) : (<<e>> \o q)[i + 1] = q[i]
<1> DEFINE S == {q[i] : i \in 1 .. Len(q)} \cup {e}
<1>1. PICK n \in Nat : n = Len(q) /\ q = [i \in 1 .. n |-> q[i]]
  BY DEF IsSequence
<1>2. q \in Seq(S)
  <2>1. \A i \in 1 .. n : q[i] \in S
    BY <1>1
  <2> HIDE DEF S
  <2>2. [i \in 1 .. n |-> q[i]] \in Seq(S)
    BY <2>1, IsASeq
  <2> QED BY <1>1, <2>2
<1>3. e \in S
  OBVIOUS
<1> HIDE DEF S
<1>4. <<e>> \in Seq(S) /\ Len(<<e>>) = 1 /\ <<e>>[1] = e
  BY <1>3
<1>5. PICK r : r = <<e>> \o q
  OBVIOUS
<1>6. r \in Seq(S) /\ Len(r) = n + 1
  BY <1>1, <1>2, <1>4, <1>5, ConcatProperties
<1>7. r[1] = e /\ \A i \in 1 .. n : r[i + 1] = q[i]
  <2>1. \A i \in 1 .. n + 1 : r[i] = IF i <= 1 THEN <<e>>[i] ELSE q[i - 1]
    BY <1>1, <1>2, <1>4, <1>5, ConcatProperties
  <2> QED BY <1>4, <2>1
<1>8. r = [i \in 1 .. Len(r) |-> r[i]]
  BY <1>6
<1> QED BY <1>1, <1>5, <1>6, <1>7, <1>8 DEF IsSequence

(* The first level of the plan goes.                                       *)
LEMMA PoppedFront ==
    ASSUME NEW q, IsSequence(q), q # <<>>
    PROVE  /\ Len(q) \in Nat \ {0}
           /\ IsSequence(Tail(q)) /\ Len(Tail(q)) = Len(q) - 1
           /\ \A i \in 1 .. Len(q) - 1 : Tail(q)[i] = q[i + 1]
           /\ Len(q) = 1 => Tail(q) = <<>>
<1> DEFINE S == {q[i] : i \in 1 .. Len(q)}
<1>1. PICK n \in Nat : n = Len(q) /\ q = [i \in 1 .. n |-> q[i]]
  BY DEF IsSequence
<1>2. q \in Seq(S)
  <2>1. \A i \in 1 .. n : q[i] \in S
    BY <1>1
  <2> HIDE DEF S
  <2>2. [i \in 1 .. n |-> q[i]] \in Seq(S)
    BY <2>1, IsASeq
  <2> QED BY <1>1, <2>2
<1> HIDE DEF S
<1>3. n # 0
  BY <1>1, <1>2
<1>4. PICK r : r = Tail(q)
  OBVIOUS
<1>5. r \in Seq(S) /\ Len(r) = n - 1 /\ \A i \in 1 .. n - 1 : r[i] = q[i + 1]
  BY <1>1, <1>2, <1>3, <1>4
<1>6. r = [i \in 1 .. Len(r) |-> r[i]] /\ (n = 1 => r = <<>>)
  BY <1>5
<1> QED BY <1>1, <1>3, <1>4, <1>5, <1>6 DEF IsSequence

-----------------------------------------------------------------------------
(* unified is fixed, so what a slot may be is.                             *)
LEMMA FrameLevel ==
    ASSUME unified' = unified
    PROVE  /\ Streams' = Streams /\ Cells' = Cells /\ NCells' = NCells
           /\ \A s : seq_to_stream(s)' = seq_to_stream(s)
           /\ \A ub, ix : IsLevel(ub, ix)' <=> IsLevel(ub, ix)
<1>1. Streams' = Streams /\ Cells' = Cells /\ NCells' = NCells
  BY DEF Streams, Cells, NCells
<1>2. \A s : seq_to_stream(s)' = seq_to_stream(s)
  BY DEF seq_to_stream
<1> QED BY <1>1, <1>2 DEF IsLevel

(* All ubatches have a slot.                                               *)
LEMMA LevelsGood ==
    ASSUME IsSequence(stack), StackType, PlanType
    PROVE  /\ Len(stack) \in Nat /\ Len(plan) \in Nat /\ Levels \in Nat
           /\ \A i \in 1 .. Levels : IsLevel(Ub(i), Slot(i))
<1>1. PICK m, n \in Nat : m = Len(stack) /\ n = Len(plan)
  BY DEF IsSequence, PlanType
<1>2. Levels = m + n
  BY <1>1 DEF Levels
<1>3. ASSUME NEW i \in 1 .. m + n PROVE IsLevel(Ub(i), Slot(i))
  <2>1. CASE i <= m
    BY <1>1, <2>1 DEF Ub, Slot, StackType
  <2>2. CASE ~(i <= m)
    <3>1. i - m \in 1 .. n
      BY <2>2
    <3> QED BY <1>1, <2>2, <3>1 DEF Ub, Slot, PlanType
  <2> QED BY <2>1, <2>2
<1> QED BY <1>1, <1>2, <1>3

(* A step that leaves stack and plan alone.                                *)
LEMMA LevelsSame ==
    ASSUME UNCHANGED <<stack, plan>>
    PROVE  Levels' = Levels /\ \A i : Ub(i)' = Ub(i) /\ Slot(i)' = Slot(i)
  BY DEF Levels, Ub, Slot

(* Prepare adds a level.                                                   *)
LEMMA LevelsPush ==
    ASSUME IsSequence(stack), plan = <<>>, plan' = plan, NEW e, stack' = Append(stack, e)
    PROVE  /\ Levels = Len(stack) /\ Levels \in Nat /\ Levels' = Levels + 1
           /\ Len(stack') = Levels + 1
           /\ \A i \in 1 .. Levels : Ub(i)' = Ub(i) /\ Slot(i)' = Slot(i) /\ stack'[i] = stack[i]
           /\ \A i : i = Levels + 1 => Ub(i)' = e.ub /\ Slot(i)' = e.idxs /\ stack'[i] = e
<1>1. PICK n \in Nat : n = Len(stack)
  BY DEF IsSequence
<1>2. Len(plan) = 0 /\ Len(plan') = 0
  OBVIOUS
<1>3. Levels = n /\ Levels' = Len(stack')
  <2>1. Len(stack') = n + 1
    BY <1>1, Pushed
  <2> QED BY <1>1, <1>2, <2>1 DEF Levels
<1>4. Len(stack') = n + 1 /\ stack'[n + 1] = e /\ \A i \in 1 .. n : stack'[i] = stack[i]
  BY <1>1, Pushed
<1>5. ASSUME NEW i \in 1 .. n PROVE Ub(i)' = Ub(i) /\ Slot(i)' = Slot(i)
  <2>1. i <= n /\ i <= n + 1
    OBVIOUS
  <2> QED BY <1>1, <1>4, <2>1 DEF Ub, Slot
<1>6. Ub(n + 1)' = e.ub /\ Slot(n + 1)' = e.idxs
  BY <1>4 DEF Ub, Slot
<1> QED BY <1>1, <1>3, <1>4, <1>5, <1>6

(* Undo moves the top of the stack to the front of the plan.               *)
LEMMA LevelsUndo ==
    ASSUME IsSequence(stack), IsSequence(plan), stack # <<>>, stack' = Others,
           plan' = <<[ub |-> Top.ub, idxs |-> Top.idxs]>> \o plan
    PROVE  /\ Levels \in Nat /\ Levels' = Levels
           /\ \A i \in 1 .. Levels : Ub(i)' = Ub(i) /\ Slot(i)' = Slot(i)
<1>1. PICK n \in Nat \ {0} : n = Len(stack)
  BY Popped
<1>2. PICK m \in Nat : m = Len(plan)
  BY DEF IsSequence
<1>3. Top = stack[n] /\ stack' = Front(stack)
  BY <1>1, Popped DEF Top, Others
<1>4. Len(stack') = n - 1 /\ \A i \in 1 .. n - 1 : stack'[i] = stack[i]
  BY <1>1, <1>3, Popped
<1>5. PICK e : e = [ub |-> Top.ub, idxs |-> Top.idxs]
  OBVIOUS
<1>6. e.ub = stack[n].ub /\ e.idxs = stack[n].idxs
  BY <1>3, <1>5
<1>7. plan' = <<e>> \o plan
  BY <1>5
<1>8. Len(plan') = m + 1 /\ plan'[1] = e /\ \A i \in 1 .. m : plan'[i + 1] = plan[i]
  BY <1>2, <1>7, PushedFront
<1>9. Levels = n + m /\ Levels' = n + m
  BY <1>1, <1>2, <1>4, <1>8 DEF Levels
<1>10. ASSUME NEW i \in 1 .. n + m PROVE Ub(i)' = Ub(i) /\ Slot(i)' = Slot(i)
  <2>1. CASE i < n
    BY <1>1, <1>4, <2>1 DEF Ub, Slot
  <2>2. CASE i = n
    <3>1. i - (n - 1) = 1 /\ ~(i <= n - 1) /\ i <= n
      BY <2>2
    <3> QED BY <1>1, <1>4, <1>6, <1>8, <2>2, <3>1 DEF Ub, Slot
  <2>3. CASE i > n
    <3>1. PICK j \in 1 .. m : j = i - n
      BY <2>3
    <3>2. i - (n - 1) = j + 1 /\ ~(i <= n - 1) /\ ~(i <= n)
      BY <2>3, <3>1
    <3> QED BY <1>1, <1>4, <1>8, <3>1, <3>2 DEF Ub, Slot
  <2> QED BY <2>1, <2>2, <2>3
<1> QED BY <1>9, <1>10

(* UndoFailed drops the top of the stack.                                  *)
LEMMA LevelsDrop ==
    ASSUME IsSequence(stack), stack # <<>>, stack' = Others, plan = <<>>, plan' = plan
    PROVE  /\ Levels \in Nat /\ Levels' = Levels - 1
           /\ \A i \in 1 .. Levels - 1 : Ub(i)' = Ub(i) /\ Slot(i)' = Slot(i)
<1>1. PICK n \in Nat \ {0} : n = Len(stack)
  BY Popped
<1>2. stack' = Front(stack)
  BY <1>1, Popped DEF Top, Others
<1>3. Len(stack') = n - 1 /\ \A i \in 1 .. n - 1 : stack'[i] = stack[i]
  BY <1>1, <1>2, Popped
<1>4. Levels = n /\ Levels' = n - 1
  BY <1>1, <1>3 DEF Levels
<1> QED BY <1>1, <1>3, <1>4 DEF Ub, Slot

(* Computed drops the first of the plan.                                   *)
LEMMA LevelsNext ==
    ASSUME stack = <<>>, stack' = stack, IsSequence(plan), plan # <<>>, plan' = Tail(plan)
    PROVE  /\ Levels \in Nat \ {0} /\ Levels = Len(plan) /\ Levels' = Levels - 1
           /\ Ub(1) = plan[1].ub /\ Slot(1) = plan[1].idxs
           /\ \A i \in 1 .. Levels - 1 : Ub(i)' = Ub(i + 1) /\ Slot(i)' = Slot(i + 1)
<1>1. PICK n \in Nat \ {0} : n = Len(plan)
  BY PoppedFront
<1>2. Len(plan') = n - 1 /\ \A i \in 1 .. n - 1 : plan'[i] = plan[i + 1]
  BY <1>1, PoppedFront
<1>3. Len(stack) = 0 /\ Len(stack') = 0
  OBVIOUS
<1>4. Levels = n /\ Levels' = n - 1
  BY <1>1, <1>2, <1>3 DEF Levels
<1>5. \A i \in 1 .. n : ~(i <= 0) /\ i - 0 = i
  OBVIOUS
<1>6. \A i \in 1 .. n : Ub(i) = plan[i].ub /\ Slot(i) = plan[i].idxs
  BY <1>3, <1>5 DEF Ub, Slot
<1>7. \A i \in 1 .. n - 1 : Ub(i)' = plan'[i].ub /\ Slot(i)' = plan'[i].idxs
  <2>1. \A i \in 1 .. n - 1 : ~(i <= 0) /\ i - 0 = i
    OBVIOUS
  <2> QED BY <1>3, <2>1 DEF Ub, Slot
<1>8. \A i \in 1 .. n - 1 : i + 1 \in 1 .. n
  OBVIOUS
<1> QED BY <1>1, <1>2, <1>4, <1>6, <1>7, <1>8

-----------------------------------------------------------------------------
(* The types under every step.                                             *)

(* The heads after apply_ubatch.                                           *)
LEMMA HeadsApplied ==
    ASSUME NEW ub, NEW ix, IsLevel(ub, ix), apply_ubatch(ub, ix),
           heads \in [Streams -> 0 .. NCells]
    PROVE  heads' \in [Streams -> 0 .. NCells]
<1>1. heads' = [st \in Streams |-> IF st \notin DOMAIN ub THEN heads[st] ELSE Last(ix[st]) + 1]
  BY DEF apply_ubatch
<1>2. ASSUME NEW st \in DOMAIN ub PROVE Last(ix[st]) + 1 \in 0 .. NCells
  <2>1. PICK n \in Nat \ {0} : n = Len(ub[st]) /\ Len(ix[st]) = n
    BY <1>2 DEF IsLevel
  <2>2. ix[st][n] \in Cells
    BY <1>2, <2>1 DEF IsLevel
  <2>3. Last(ix[st]) = ix[st][n]
    BY <2>1 DEF Last
  <2>4. PICK N \in Nat \ {0} : N = NCells
    BY CellsType
  <2>5. ix[st][n] \in 0 .. N - 1
    BY <2>2, <2>4 DEF Cells
  <2> QED BY <2>3, <2>4, <2>5
<1> QED BY <1>1, <1>2

(* The number of a stream among those of a ubatch is that of a stream.     *)
LEMMA OrdinalStream ==
    ASSUME NEW D \in SUBSET Streams, NEW st \in D, unified \in BOOLEAN
    PROVE  OrdinalIn(st, D) \in Streams
<1>1. NSeq \in Nat \ {0}
  BY PlaceAssumption
<1>2. CASE unified
  <2>1. D = {0} /\ st = 0
    BY <1>2 DEF Streams
  <2>2. {m \in D : m < st} = {}
    BY <2>1
  <2>3. Cardinality({}) = 0
    BY FS_EmptySet
  <2> QED BY <1>2, <2>2, <2>3 DEF OrdinalIn, Streams
<1>3. CASE ~unified
  <2>1. D \in SUBSET (0 .. NSeq - 1) /\ Streams = 0 .. NSeq - 1
    BY <1>3 DEF Streams, Seqs
  <2>2. IsFiniteSet(0 .. NSeq - 1) /\ Cardinality(0 .. NSeq - 1) = NSeq
    <3>1. 0 \in Int /\ NSeq - 1 \in Int
      BY <1>1
    <3>2. /\ IsFiniteSet(0 .. NSeq - 1)
          /\ Cardinality(0 .. NSeq - 1) = IF 0 > NSeq - 1 THEN 0 ELSE (NSeq - 1) - 0 + 1
      BY <3>1, FS_Interval
    <3> QED BY <1>1, <3>2
  <2>3. IsFiniteSet(D) /\ Cardinality(D) <= NSeq
    BY <2>1, <2>2, FS_Subset
  <2>4. D \in SUBSET Int
    BY <2>1
  <2>5. Cardinality(D) \in Nat /\ \A n \in D : OrdinalIn(n, D) \in 0 .. Cardinality(D) - 1
    BY <2>3, <2>4, NthProperties
  <2>6. PICK k \in Nat : k = Cardinality(D)
    BY <2>5
  <2>7. OrdinalIn(st, D) \in 0 .. k - 1 /\ k <= NSeq
    BY <2>3, <2>5, <2>6
  <2> QED BY <1>1, <2>1, <2>7
<1> QED BY <1>2, <1>3

(* One level of the recovery stack put back.                               *)
LEMMA PutBackType ==
    ASSUME DryRunInv, StackType, CellsGood, heads \in [Streams -> 0 .. NCells],
           PutBack, stack # <<>>
    PROVE  /\ Len(stack) \in Nat \ {0}
           /\ heads' \in [Streams -> 0 .. NCells]
           /\ \A st \in Streams, c \in Cells :
                 /\ Covers(Len(stack), st, c) => cells'[st][c] = stack[Len(stack)].old[st][c]
                 /\ ~Covers(Len(stack), st, c) => cells'[st][c] = cells[st][c]
                 /\ GoodCell(cells'[st][c])
<1>1. PICK n \in Nat \ {0} : n = Len(stack)
  BY Popped DEF DryRunInv
<1>2. PICK e : e = stack[n] /\ e = Top
  BY <1>1, Popped DEF DryRunInv, Top
<1>3. /\ e.heads \in [Streams -> 0 .. NCells] /\ DOMAIN e.ub \subseteq Streams
      /\ \A st \in DOMAIN e.ub : \A c \in DOMAIN e.old[st] : GoodCell(e.old[st][c])
  <2>1. n \in 1 .. Len(stack)
    BY <1>1
  <2>2. /\ e.heads \in [Streams -> 0 .. NCells] /\ IsLevel(e.ub, e.idxs)
        /\ \A st \in DOMAIN e.ub :
              /\ DOMAIN e.old[st] = Range(e.idxs[st])
              /\ \A c \in Range(e.idxs[st]) : GoodCell(e.old[st][c])
    BY <1>2, <2>1 DEF StackType
  <2> QED BY <2>2 DEF IsLevel
<1>4. heads' = [st \in Streams |-> IF st \notin DOMAIN e.ub THEN heads[st]
                                   ELSE e.heads[OrdinalIn(st, DOMAIN e.ub)]]
  BY <1>2 DEF PutBack
<1>5. \A st \in DOMAIN e.ub : OrdinalIn(st, DOMAIN e.ub) \in Streams
  BY <1>3, OrdinalStream DEF DryRunInv
<1>6. heads' \in [Streams -> 0 .. NCells]
  BY <1>3, <1>4, <1>5
<1>7. ASSUME NEW st \in Streams, NEW c \in Cells
      PROVE  /\ Covers(n, st, c) => cells'[st][c] = stack[n].old[st][c]
             /\ ~Covers(n, st, c) => cells'[st][c] = cells[st][c]
             /\ GoodCell(cells'[st][c])
  <2>1. cells'[st] = IF st \notin DOMAIN e.ub THEN cells[st]
          ELSE [d \in Cells |-> IF d \in DOMAIN e.old[st] THEN e.old[st][d] ELSE cells[st][d]]
    BY <1>2 DEF PutBack
  <2>2. Covers(n, st, c) <=> st \in DOMAIN e.ub /\ c \in DOMAIN e.old[st]
    BY <1>2 DEF Covers
  <2>3. GoodCell(cells[st][c])
    BY DEF CellsGood
  <2>4. CASE Covers(n, st, c)
    BY <1>2, <1>3, <2>1, <2>2, <2>4
  <2>5. CASE ~Covers(n, st, c)
    BY <1>2, <2>1, <2>2, <2>3, <2>5
  <2> QED BY <2>4, <2>5
<1> QED BY <1>1, <1>6, <1>7

(* If seq_rm frees cells the head is one of them or stays.                 *)
LEMMA FreedHeadType ==
    ASSUME NEW k, NEW new, NEW h \in 0 .. NCells
    PROVE  FreedHead(k, new, h) \in 0 .. NCells
<1>1. PICK F : F = {c \in Cells : k[c] # Empty /\ new[c] = Empty} \cup {h}
  OBVIOUS
<1>2. NCells \in Nat
  BY CellsType
<1>3. F \subseteq 0 .. NCells /\ F # {}
  BY <1>1, <1>2 DEF Cells
<1>4. F \in SUBSET Nat
  BY <1>2, <1>3
<1>5. \E c \in F : \A d \in F : c <= d
  BY <1>3, <1>4, MinIsLeast
<1>6. FreedHead(k, new, h) = CHOOSE c \in F : \A d \in F : c <= d
  BY <1>1 DEF FreedHead
<1>7. FreedHead(k, new, h) \in F
  BY <1>5, <1>6
<1> QED BY <1>3, <1>7

(* seq_rm of a suffix of the sequences S.                                  *)
LEMMA Removed ==
    ASSUME CellsGood, heads \in [Streams -> 0 .. NCells], NEW S, RemoveSuffix(S)
    PROVE  /\ heads' \in [Streams -> 0 .. NCells]
           /\ \A st \in Streams, c \in Cells :
                 /\ GoodCell(cells'[st][c]) /\ Less(cells'[st][c], cells[st][c])
                 /\ \A s \in cells[st][c].seqs : s \in cells'[st][c].seqs <=>
                       s \notin S \/ ~(cells[st][c].pos >= decoded'[s])
<1>1. heads' = [st \in Streams |-> FreedHead(cells[st], cells'[st], heads[st])]
  BY DEF RemoveSuffix
<1>2. heads' \in [Streams -> 0 .. NCells]
  <2>1. \A st \in Streams : heads[st] \in 0 .. NCells
    OBVIOUS
  <2>2. ASSUME NEW st \in Streams
        PROVE  FreedHead(cells[st], cells'[st], heads[st]) \in 0 .. NCells
    <3>1. PICK k, new : k = cells[st] /\ new = cells'[st]
      OBVIOUS
    <3> QED BY <2>1, <3>1, FreedHeadType
  <2> QED BY <1>1, <2>2
<1>3. ASSUME NEW st \in Streams, NEW c \in Cells
      PROVE  /\ GoodCell(cells'[st][c]) /\ Less(cells'[st][c], cells[st][c])
             /\ \A s \in cells[st][c].seqs : s \in cells'[st][c].seqs <=>
                   s \notin S \/ ~(cells[st][c].pos >= decoded'[s])
  <2>1. PICK x : x = cells[st][c]
    OBVIOUS
  <2>2. GoodCell(x)
    BY <2>1 DEF CellsGood
  <2>3. PICK gone : gone = {s \in x.seqs : s \in S /\ x.pos >= decoded'[s]}
    OBVIOUS
  <2>4. cells'[st][c] = IF x # Empty /\ gone = x.seqs THEN Empty ELSE [x EXCEPT !.seqs = @ \ gone]
    BY <2>1, <2>3 DEF RemoveSuffix
  <2>5. [x EXCEPT !.seqs = @ \ gone] = [pos |-> x.pos, seqs |-> x.seqs \ gone]
    BY <2>2, TakeOut
  <2>6. x = Empty <=> x.seqs = {}
    BY <2>2, GoodEmpty
  <2>7. cells'[st][c] = Left(x, x.seqs \ gone)
    <3>1. CASE x = Empty
      BY <2>4, <2>5, <2>6, <3>1 DEF Left, Empty
    <3>2. CASE x # Empty /\ gone = x.seqs
      BY <2>4, <3>2 DEF Left
    <3>3. CASE x # Empty /\ gone # x.seqs
      <4>1. x.seqs \ gone # {}
        BY <2>3, <3>3
      <4> QED BY <2>4, <2>5, <3>3, <4>1 DEF Left
    <3> QED BY <3>1, <3>2, <3>3
  <2>8. x.seqs \ gone \in SUBSET x.seqs
    OBVIOUS
  <2>9. /\ GoodCell(cells'[st][c]) /\ cells'[st][c].seqs = x.seqs \ gone
        /\ Less(cells'[st][c], x)
    BY <2>2, <2>7, <2>8, GoodLeft
  <2> QED BY <2>1, <2>3, <2>9
<1> QED BY <1>2, <1>3

(* The copy of a sequence.  In a unified cache the destination leaves its  *)
(* cells and joins the source; otherwise its stream becomes a copy of the  *)
(* stream of the source.                                                   *)
LEMMA Copied ==
    ASSUME CellsGood, IsCells(cells), heads \in [Streams -> 0 .. NCells], unified \in BOOLEAN,
           NEW src \in Seqs, NEW dst \in Seqs, Copy(src, dst)
    PROVE  /\ heads' \in [Streams -> 0 .. NCells]
           /\ \A st \in Streams, c \in Cells : GoodCell(cells'[st][c])
           /\ unified => \A c \in Cells :
                 /\ cells'[0][c].seqs # {} => cells'[0][c].pos = cells[0][c].pos
                 /\ dst \in cells'[0][c].seqs <=> src \in cells[0][c].seqs
                 /\ \A r : r # dst => (r \in cells'[0][c].seqs <=> r \in cells[0][c].seqs)
           /\ ~unified => \A c \in Cells :
                 /\ \A st \in Streams : st # dst => cells'[st][c] = cells[st][c]
                 /\ cells'[dst][c] = IF src \in cells[src][c].seqs
                                     THEN [pos |-> cells[src][c].pos, seqs |-> {dst}] ELSE Empty
<1>0. src # dst
  BY DEF Copy
<1>1. PICK k : k = Without(cells[seq_to_stream(dst)], dst, Positions)
  OBVIOUS
<1>2. CASE unified
  <2>1. Streams = {0} /\ seq_to_stream(dst) = 0
    BY <1>2 DEF Streams, seq_to_stream
  <2>2. /\ cells' = [cells EXCEPT ![0] = [c \in Cells |->
              IF src \in k[c].seqs THEN [k[c] EXCEPT !.seqs = @ \cup {dst}] ELSE k[c]]]
        /\ heads' = [heads EXCEPT ![0] = FreedHead(cells[0], k, @)]
    BY <1>1, <1>2 DEF Copy
  <2>3. heads' \in [Streams -> 0 .. NCells]
    <3>1. heads[0] \in 0 .. NCells
      BY <2>1
    <3>2. PICK x : x = cells[0]
      OBVIOUS
    <3>3. FreedHead(x, k, heads[0]) \in 0 .. NCells
      BY <3>1, FreedHeadType
    <3> QED BY <2>1, <2>2, <3>2, <3>3
  <2>4. ASSUME NEW c \in Cells
        PROVE  /\ GoodCell(cells'[0][c])
               /\ cells'[0][c].seqs # {} => cells'[0][c].pos = cells[0][c].pos
               /\ dst \in cells'[0][c].seqs <=> src \in cells[0][c].seqs
               /\ \A r : r # dst => (r \in cells'[0][c].seqs <=> r \in cells[0][c].seqs)
    <3>1. PICK x : x = cells[0][c]
      OBVIOUS
    <3>2. GoodCell(x)
      BY <2>1, <3>1 DEF CellsGood
    <3>3. /\ x = Empty <=> x.seqs = {}
          /\ (x.seqs # {} => x.pos \in Positions) /\ x.seqs \subseteq Seqs
          /\ x = [pos |-> x.pos, seqs |-> x.seqs]
      BY <3>2, GoodEmpty
    <3>4. k[c] = Left(x, x.seqs \ {dst})
      <4>1. k[c] = IF dst \notin x.seqs \/ x.pos \notin Positions THEN x
                   ELSE IF x.seqs = {dst} THEN Empty ELSE [x EXCEPT !.seqs = @ \ {dst}]
        BY <1>1, <2>1, <3>1 DEF Without
      <4>2. [x EXCEPT !.seqs = @ \ {dst}] = [pos |-> x.pos, seqs |-> x.seqs \ {dst}]
        BY <3>2, TakeOut
      <4>3. CASE dst \notin x.seqs
        <5>1. x.seqs \ {dst} = x.seqs
          BY <4>3
        <5> QED BY <3>3, <4>1, <4>3, <5>1 DEF Left
      <4>4. CASE x.seqs = {dst}
        BY <3>3, <4>1, <4>4 DEF Left
      <4>5. CASE dst \in x.seqs /\ x.seqs # {dst}
        <5>1. x.seqs \ {dst} # {}
          BY <4>5
        <5> QED BY <3>3, <4>1, <4>2, <4>5, <5>1 DEF Left
      <4> QED BY <4>3, <4>4, <4>5
    <3>5. PICK y : y = k[c]
      OBVIOUS
    <3>6. GoodCell(y) /\ y.seqs = x.seqs \ {dst} /\ (y.seqs # {} => y.pos = x.pos)
      BY <3>2, <3>4, <3>5, GoodLeft
    <3>7. cells'[0][c] = IF src \in y.seqs THEN [y EXCEPT !.seqs = @ \cup {dst}] ELSE y
      <4>1. cells'[0] = [d \in Cells |->
              IF src \in k[d].seqs THEN [k[d] EXCEPT !.seqs = @ \cup {dst}] ELSE k[d]]
        BY <2>1, <2>2 DEF IsCells
      <4> QED BY <3>5, <4>1
    <3>8. CASE src \in x.seqs
      <4>1. src \in y.seqs
        BY <1>0, <3>6, <3>8
      <4>2. y = [pos |-> y.pos, seqs |-> y.seqs] /\ y.pos \in Positions
        BY <3>6, <4>1, GoodEmpty
      <4>3. cells'[0][c] = [y EXCEPT !.seqs = @ \cup {dst}]
        BY <3>7, <4>1
      <4>4. [y EXCEPT !.seqs = @ \cup {dst}] = [pos |-> y.pos, seqs |-> y.seqs \cup {dst}]
        BY <4>2
      <4>5. PICK z : z = cells'[0][c]
        OBVIOUS
      <4>6. z = [pos |-> y.pos, seqs |-> y.seqs \cup {dst}]
        BY <4>3, <4>4, <4>5
      <4>7. z.pos = x.pos /\ z.seqs = y.seqs \cup {dst}
        BY <3>6, <4>1, <4>6
      <4>8. GoodCell(z)
        BY <3>3, <3>6, <4>2, <4>6 DEF GoodCell, Positions
      <4> QED BY <3>1, <3>6, <3>8, <4>5, <4>7, <4>8
    <3>9. CASE src \notin x.seqs
      <4>1. cells'[0][c] = y
        BY <3>6, <3>7, <3>9
      <4> QED BY <3>1, <3>6, <3>9, <4>1
    <3> QED BY <3>8, <3>9
  <2> QED BY <1>2, <2>1, <2>3, <2>4
<1>3. CASE ~unified
  <2>1. Streams = Seqs
    BY <1>3 DEF Streams
  <2>2. /\ cells' = [cells EXCEPT ![dst] = [c \in Cells |->
              IF src \in cells[src][c].seqs
              THEN [pos |-> cells[src][c].pos, seqs |-> {dst}] ELSE Empty]]
        /\ heads' = [heads EXCEPT ![dst] = heads[src]]
    BY <1>3 DEF Copy
  <2>3. heads' \in [Streams -> 0 .. NCells]
    BY <2>1, <2>2
  <2>4. ASSUME NEW c \in Cells
        PROVE  /\ \A st \in Streams : st # dst => cells'[st][c] = cells[st][c]
               /\ cells'[dst][c] = IF src \in cells[src][c].seqs
                                   THEN [pos |-> cells[src][c].pos, seqs |-> {dst}] ELSE Empty
    BY <2>1, <2>2 DEF IsCells
  <2>5. ASSUME NEW st \in Streams, NEW c \in Cells PROVE GoodCell(cells'[st][c])
    <3>1. CASE st # dst
      BY <2>4, <3>1 DEF CellsGood
    <3>2. CASE st = dst /\ src \in cells[src][c].seqs
      <4>1. cells[src][c].pos \in Positions
        BY <2>1, <3>2, GoodEmpty DEF CellsGood
      <4>2. PICK p \in Positions : p = cells[src][c].pos
        BY <4>1
      <4>3. PICK x : x = cells'[st][c]
        OBVIOUS
      <4>4. x = [pos |-> p, seqs |-> {dst}]
        BY <2>4, <3>2, <4>2, <4>3
      <4>5. GoodCell(x)
        BY <4>4 DEF GoodCell, Positions
      <4> QED BY <4>3, <4>5
    <3>3. CASE st = dst /\ src \notin cells[src][c].seqs
      <4>1. PICK x : x = cells'[st][c]
        OBVIOUS
      <4>2. x = Empty
        BY <2>4, <3>3, <4>1
      <4>3. GoodCell(x)
        BY <4>2 DEF GoodCell, Empty
      <4> QED BY <4>1, <4>3
    <3> QED BY <3>1, <3>2, <3>3
  <2> QED BY <1>3, <2>3, <2>4, <2>5
<1> QED BY <1>2, <1>3

(* The tokens llama_batch_allocr::init makes of a batch: those of a        *)
(* sequence get the positions from the next one on.                        *)
LEMMA BatchTokens ==
    ASSUME decoded \in [Seqs -> 0 .. MaxLen], NEW n \in Nat \ {0}, NEW b \in [1 .. n -> Seqs], NEW q,
           q = [i \in DOMAIN b |->
                 <<b[i], decoded[b[i]] + Cardinality({j \in 1 .. i - 1 : b[j] = b[i]})>>],
           \A i \in DOMAIN b : q[i][2] < MaxLen
    PROVE  q \in Seq(Tokens) /\ q # <<>> /\ Ordered(q) /\ FromNext(Range(q))
<1> DEFINE I(s) == {j \in 1 .. n : b[j] = s}
<1>1. DOMAIN b = 1 .. n /\ MaxLen \in Nat /\ IsFiniteSet(1 .. n)
  BY PlaceAssumption, FS_Interval
<1>2. \A s : I(s) \in SUBSET Int /\ IsFiniteSet(I(s))
  <2>1. \A s : I(s) \in SUBSET (1 .. n)
    OBVIOUS
  <2>2. 1 .. n \in SUBSET Int
    OBVIOUS
  <2> HIDE DEF I
  <2> QED BY <1>1, <2>1, <2>2, FS_Subset
<1>3. ASSUME NEW s
      PROVE  /\ Cardinality(I(s)) \in Nat
             /\ \A i \in 1 .. Cardinality(I(s)) : Nth(I(s), i) \in I(s)
             /\ \A i \in 1 .. Cardinality(I(s)) : OrdinalIn(Nth(I(s), i), I(s)) = i - 1
             /\ \A i \in I(s) : OrdinalIn(i, I(s)) \in 0 .. Cardinality(I(s)) - 1
             /\ \A i, j \in I(s) : i < j => OrdinalIn(i, I(s)) < OrdinalIn(j, I(s))
  <2>1. PICK K : K = I(s)
    OBVIOUS
  <2>2. K \in SUBSET Int /\ IsFiniteSet(K)
    BY <1>2, <2>1
  <2>3. /\ Cardinality(K) \in Nat
        /\ \A i \in 1 .. Cardinality(K) : Nth(K, i) \in K
        /\ \A i \in 1 .. Cardinality(K) : OrdinalIn(Nth(K, i), K) = i - 1
        /\ \A i \in K : OrdinalIn(i, K) \in 0 .. Cardinality(K) - 1
        /\ \A i, j \in K : i < j => OrdinalIn(i, K) < OrdinalIn(j, K)
    BY ONLY <2>2, NthProperties
  <2> QED BY <2>1, <2>3
<1>4. ASSUME NEW i \in 1 .. n
      PROVE  i \in I(b[i]) /\ q[i] = <<b[i], decoded[b[i]] + OrdinalIn(i, I(b[i]))>>
  <2>1. {j \in 1 .. i - 1 : b[j] = b[i]} = {m \in I(b[i]) : m < i}
    OBVIOUS
  <2> QED BY <1>1, <2>1 DEF OrdinalIn
<1>5. ASSUME NEW i \in 1 .. n
      PROVE  /\ b[i] \in Seqs /\ decoded[b[i]] \in Nat /\ OrdinalIn(i, I(b[i])) \in Nat
             /\ q[i][1] = b[i] /\ q[i][2] = decoded[b[i]] + OrdinalIn(i, I(b[i]))
             /\ q[i] \in Tokens
  <2>1. b[i] \in Seqs /\ decoded[b[i]] \in Nat
    BY <1>1
  <2>2. OrdinalIn(i, I(b[i])) \in Nat
    <3>1. PICK k \in Nat : k = Cardinality(I(b[i]))
      BY <1>3
    <3>2. OrdinalIn(i, I(b[i])) \in 0 .. k - 1
      BY <1>3, <1>4, <3>1
    <3> QED BY <3>2
  <2>3. q[i][1] = b[i] /\ q[i][2] = decoded[b[i]] + OrdinalIn(i, I(b[i]))
    BY <1>4
  <2>4. q[i][2] \in Positions
    <3> HIDE DEF I
    <3> QED BY <1>1, <2>1, <2>2, <2>3 DEF Positions
  <2>5. q[i] = <<q[i][1], q[i][2]>>
    BY <1>4, <2>3
  <2> QED BY <2>1, <2>2, <2>3, <2>4, <2>5 DEF Tokens
<1> HIDE DEF I
<1>6. q = [i \in 1 .. n |-> q[i]]
  BY <1>1
<1>7. q \in Seq(Tokens) /\ Len(q) = n /\ q # <<>> /\ DOMAIN q = 1 .. n
  <2>0. \A i \in 1 .. n : q[i] \in Tokens
    BY <1>5
  <2>1. [i \in 1 .. n |-> q[i]] \in Seq(Tokens)
    BY <2>0, IsASeq
  <2>2. Len([i \in 1 .. n |-> q[i]]) = n
    OBVIOUS
  <2> QED BY <1>6, <2>1, <2>2
<1>8. Ordered(q)
  <2> SUFFICES ASSUME NEW i \in 1 .. n, NEW j \in 1 .. n, i < j, q[i][1] = q[j][1]
               PROVE  q[i][2] < q[j][2]
    BY <1>7 DEF Ordered
  <2>1. b[i] = b[j]
    BY <1>5
  <2>2. PICK x, y \in Nat : x = OrdinalIn(i, I(b[i])) /\ y = OrdinalIn(j, I(b[j]))
    BY <1>5
  <2>3. x < y
    BY <1>3, <1>4, <2>1, <2>2
  <2>4. q[i][2] = decoded[b[i]] + x /\ q[j][2] = decoded[b[i]] + y /\ decoded[b[i]] \in Nat
    BY <1>5, <2>1, <2>2
  <2> QED BY <2>2, <2>3, <2>4
<1>9. FromNext(Range(q))
  <2> SUFFICES ASSUME NEW s \in Seqs, NEW p \in Positions, <<s, p>> \in Range(q)
               PROVE  p >= decoded[s] /\ \A r \in decoded[s] .. p : <<s, r>> \in Range(q)
    BY DEF FromNext
  <2>1. PICK i \in 1 .. n : q[i] = <<s, p>>
    BY <1>7 DEF Range
  <2>2. b[i] = s /\ p = decoded[s] + OrdinalIn(i, I(s))
    BY <1>5, <2>1
  <2>3. PICK x, k, d \in Nat : x = OrdinalIn(i, I(s)) /\ k = Cardinality(I(s)) /\ d = decoded[s]
    BY <1>3, <1>5, <2>2
  <2>4. x \in 0 .. k - 1 /\ p = d + x
    BY <1>3, <1>4, <2>2, <2>3
  <2>5. p >= decoded[s]
    BY <2>3, <2>4
  <2>6. ASSUME NEW r \in d .. p PROVE <<s, r>> \in Range(q)
    <3>1. PICK m : m = Nth(I(s), r - d + 1)
      OBVIOUS
    <3>2. r - d + 1 \in 1 .. k
      BY <2>4
    <3>3. m \in I(s) /\ OrdinalIn(m, I(s)) = r - d
      BY <1>3, <2>3, <3>1, <3>2
    <3>4. m \in 1 .. n /\ b[m] = s
      BY <3>3 DEF I
    <3>5. q[m] = <<s, d + (r - d)>>
      BY <1>4, <2>3, <3>3, <3>4
    <3>6. d + (r - d) = r
      OBVIOUS
    <3> QED BY <1>7, <3>4, <3>5, <3>6 DEF Range
  <2> QED BY <2>3, <2>5, <2>6
<1> QED BY <1>7, <1>8, <1>9

(* Nothing is prepared or planned.                                         *)
LEMMA NoLevels ==
    ASSUME stack = <<>>, plan = <<>>
    PROVE  Levels = 0 /\ \A i : i \notin 1 .. Levels
  BY DEF Levels

(* A batch comes.                                                          *)
LEMMA DecodeType ==
    ASSUME DryRunInv, TypeInv, NEW b \in Batches, Decode(b)
    PROVE  TypeInv'
<1>1. pc = "idle" /\ pc' = "prepare" /\ before' = cells
      /\ UNCHANGED <<unified, cells, heads, stack, plan, decoded, hurt>>
  BY DEF Decode
<1>2. /\ Streams' = Streams /\ Cells' = Cells /\ NCells' = NCells
      /\ \A ub, ix : IsLevel(ub, ix)' <=> IsLevel(ub, ix)
  BY <1>1, FrameLevel
<1>3. stack = <<>> /\ plan = <<>>
  BY <1>1 DEF TypeInv, Control, InDry
<1>4. PICK n \in Nat \ {0} : b \in [1 .. n -> Seqs]
  BY DEF Batches
<1>5. rest' \in Seq(Tokens) /\ rest' # <<>> /\ Ordered(rest') /\ FromNext(Range(rest'))
  <2>1. PICK q : q = rest'
    OBVIOUS
  <2>2. /\ q = [i \in DOMAIN b |->
              <<b[i], decoded[b[i]] + Cardinality({j \in 1 .. i - 1 : b[j] = b[i]})>>]
        /\ \A i \in DOMAIN b : q[i][2] < MaxLen
    BY <2>1 DEF Decode
  <2>3. decoded \in [Seqs -> 0 .. MaxLen]
    BY DEF TypeInv, ScalarType
  <2>4. q \in Seq(Tokens) /\ q # <<>> /\ Ordered(q) /\ FromNext(Range(q))
    BY <1>4, <2>2, <2>3, BatchTokens
  <2> QED BY <2>1, <2>4
<1>6. batch' = rest' /\ split' = IF unified THEN "simple" ELSE "equal"
  BY DEF Decode
<1>7. ScalarType'
  BY <1>1, <1>2, <1>6 DEF TypeInv, ScalarType
<1>8. CellsGood'
  BY <1>1, <1>2 DEF TypeInv, CellsGood
<1>9. BeforeGood' /\ before' # <<>>
  <2>1. IsCells(cells)
    BY DEF DryRunInv
  <2>2. cells # <<>>
    <3>1. DOMAIN cells = Streams
      BY <2>1 DEF IsCells
    <3>2. 0 \in Streams
      BY PlaceAssumption DEF Streams, Seqs
    <3>3. DOMAIN <<>> = {}
      OBVIOUS
    <3> QED BY <3>1, <3>2, <3>3
  <2> QED BY <1>1, <1>2, <2>1, <2>2 DEF TypeInv, CellsGood, BeforeGood, IsCells
<1>10. StackType' /\ PlanType'
  BY <1>1, <1>2 DEF TypeInv, StackType, PlanType, IsSequence
<1>11. Control'
  BY <1>1, <1>3, <1>6, <1>9 DEF Control, InDry
<1>12. FromNext(Range(rest))'
  BY <1>1, <1>5 DEF FromNext
<1>13. BatchType'
  <2>1. FromNext(Range(batch))'
    BY <1>6, <1>12 DEF FromNext
  <2> QED BY <1>5, <1>6, <2>1 DEF BatchType, Ordered
<1>14. InOrder'
  <2>1. \A i : i \notin 1 .. Levels'
    BY <1>1, <1>3, NoLevels DEF Levels
  <2>2. \A s, p : IsTodo(s, p)' <=> <<s, p>> \in Range(rest')
    BY <1>1, <2>1 DEF IsTodo
  <2> QED BY <1>5, <1>12, <2>1, <2>2 DEF InOrder, FromNext
<1> QED BY <1>7, <1>8, <1>9, <1>10, <1>11, <1>13, <1>14 DEF TypeInv

(* What is left of the batch after a ubatch was split off, in order and    *)
(* after the tokens of the ubatch.                                         *)
LEMMA RestLeft ==
    ASSUME Splitting, NEW ub, IsUbatch(ub), NEW q,
           q = Chosen(rest, {i \in DOMAIN rest : rest[i] \notin TokenSet(ub)})
    PROVE  /\ q \in Seq(Tokens) /\ Ordered(q)
           /\ \A t : t \in Range(q) <=> t \in Range(rest) /\ t \notin TokenSet(ub)
           /\ \A t \in TokenSet(ub) : t \in Range(rest) /\ t \in Tokens
           /\ \A s, p, r : <<s, p>> \in TokenSet(ub) /\ <<s, r>> \in Range(q) => p < r
<1>1. PICK I : I = {i \in DOMAIN rest : rest[i] \notin TokenSet(ub)}
  OBVIOUS
<1>2. rest \in Seq(Tokens) /\ I \in SUBSET (1 .. Len(rest)) /\ DOMAIN rest = 1 .. Len(rest)
  BY <1>1 DEF Splitting
<1>3. q = Chosen(rest, I)
  BY <1>1
<1>4. PICK m \in Nat : m = Cardinality(I)
  BY <1>2, ChosenProperties
<1>5. /\ q \in Seq(Tokens) /\ Len(q) = m /\ Range(q) = {rest[i] : i \in I}
      /\ \A i, j \in 1 .. m : i < j => \E a, b \in I : a < b /\ q[i] = rest[a] /\ q[j] = rest[b]
  <2>1. PICK b : b = rest
    OBVIOUS
  <2>2. b \in Seq(Tokens) /\ I \in SUBSET (1 .. Len(b))
    BY <1>2, <2>1
  <2>3. /\ Chosen(b, I) \in Seq(Tokens) /\ Len(Chosen(b, I)) = Cardinality(I)
        /\ Range(Chosen(b, I)) = {b[i] : i \in I}
        /\ \A i, j \in 1 .. Cardinality(I) :
              i < j => \E a, d \in I : a < d /\ Chosen(b, I)[i] = b[a] /\ Chosen(b, I)[j] = b[d]
    BY ONLY <2>2, ChosenProperties
  <2>4. q = Chosen(b, I)
    BY <1>3, <2>1
  <2>5. /\ q \in Seq(Tokens) /\ Len(q) = m /\ Range(q) = {b[i] : i \in I}
        /\ \A i, j \in 1 .. m : i < j => \E a, d \in I : a < d /\ q[i] = b[a] /\ q[j] = b[d]
    BY ONLY <1>4, <2>3, <2>4
  <2> QED BY ONLY <2>1, <2>5
<1>6. Ordered(q)
  <2> SUFFICES ASSUME NEW i \in 1 .. m, NEW j \in 1 .. m, i < j, q[i][1] = q[j][1]
               PROVE  q[i][2] < q[j][2]
    BY <1>5 DEF Ordered
  <2>1. PICK a, b \in I : a < b /\ q[i] = rest[a] /\ q[j] = rest[b]
    BY <1>5
  <2> QED BY <1>2, <2>1 DEF Splitting, Ordered
<1>7. \A t : t \in Range(rest) <=> \E i \in 1 .. Len(rest) : t = rest[i]
  BY <1>2 DEF Range
<1>8. \A t : t \in Range(q) <=> t \in Range(rest) /\ t \notin TokenSet(ub)
  BY <1>1, <1>2, <1>5, <1>7
<1>9. ASSUME NEW t \in TokenSet(ub) PROVE t \in Range(rest) /\ t \in Tokens
  <2>1. PICK st \in DOMAIN ub : t \in Range(ub[st])
    BY DEF TokenSet
  <2>2. /\ ub[st] \in Seq(Tokens) /\ \A k \in 1 .. Len(ub[st]) : ub[st][k] \in Range(rest)
    BY DEF IsUbatch, IsShare
  <2>3. PICK k \in 1 .. Len(ub[st]) : t = ub[st][k]
    BY <2>1, <2>2 DEF Range
  <2> QED BY <2>2, <2>3
<1>10. ASSUME NEW s, NEW p, NEW r, <<s, p>> \in TokenSet(ub), <<s, r>> \in Range(q)
       PROVE  p < r
  <2>1. <<s, r>> \in Range(rest) /\ <<s, r>> \notin TokenSet(ub)
    BY <1>8, <1>10
  <2>2. PICK t, u : t = <<s, p>> /\ u = <<s, r>>
    OBVIOUS
  <2>3. t[1] = s /\ t[2] = p /\ u[1] = s /\ u[2] = r
    BY <2>2
  <2>4. ~(u[2] < t[2])
    BY <1>10, <2>1, <2>2, <2>3 DEF IsUbatch
  <2>5. p # r
    BY <1>10, <2>1
  <2>6. p \in Int /\ r \in Int
    <3>1. <<s, p>> \in Tokens /\ <<s, r>> \in Tokens
      BY <1>5, <1>7, <1>9, <1>10, <2>1, <1>2
    <3> QED BY <3>1 DEF Tokens, Positions
  <2> QED BY <2>3, <2>4, <2>5, <2>6
<1> QED BY <1>5, <1>6, <1>8, <1>9, <1>10

(* What a try of a ubatch is.                                              *)
LEMMA Tried ==
    ASSUME DryRunInv, TypeInv, Prepare
    PROVE  /\ Splitting /\ plan = <<>> /\ IsUbatch(next_ubatch) /\ Fits(next_ubatch)
           /\ IsLevel(next_ubatch, find_slot(next_ubatch))
           /\ \A st, c : Takes(next_ubatch, find_slot(next_ubatch), st, c) => can_use(cells[st], c)
           /\ \A s, p, r : <<s, p>> \in TokenSet(next_ubatch) /\ <<s, r>> \in Range(rest') => p < r
           /\ \A t : t \in Range(rest') <=> t \in Range(rest) /\ t \notin TokenSet(next_ubatch)
           /\ \A t \in TokenSet(next_ubatch) : t \in Range(rest)
           /\ rest' \in Seq(Tokens) /\ Ordered(rest')
<1>1. pc = "prepare" /\ rest # <<>> /\ Fits(next_ubatch)
  BY DEF Prepare
<1>2. Splitting /\ plan = <<>>
  BY <1>1 DEF Splitting, TypeInv, ScalarType, Control, BatchType, DryRunInv, InDry
<1>3. IsUbatch(next_ubatch)
  BY <1>2, NextUbatch
<1>4. \A st \in Streams : heads[st] \in 0 .. NCells
  BY DEF TypeInv, ScalarType
<1>5. PICK ub : ub = next_ubatch
  OBVIOUS
<1>6. /\ IsLevel(ub, find_slot(ub))
      /\ \A st \in DOMAIN ub : \A c \in Range(find_slot(ub)[st]) : c \in Cells /\ can_use(cells[st], c)
  BY <1>1, <1>3, <1>4, <1>5, SlotFound
<1>7. PICK q : q = rest'
  OBVIOUS
<1>8. q = Chosen(rest, {i \in DOMAIN rest : rest[i] \notin TokenSet(ub)})
  BY <1>5, <1>7 DEF Prepare
<1>9. /\ q \in Seq(Tokens) /\ Ordered(q)
      /\ \A t : t \in Range(q) <=> t \in Range(rest) /\ t \notin TokenSet(ub)
      /\ \A t \in TokenSet(ub) : t \in Range(rest) /\ t \in Tokens
      /\ \A s, p, r : <<s, p>> \in TokenSet(ub) /\ <<s, r>> \in Range(q) => p < r
  BY <1>2, <1>3, <1>5, <1>8, RestLeft
<1> QED BY <1>1, <1>2, <1>3, <1>5, <1>6, <1>7, <1>9 DEF Takes

(* A ubatch is tried out.                                                  *)
LEMMA PrepareType ==
    ASSUME DryRunInv, TypeInv, Prepare
    PROVE  TypeInv'
<1>1. PICK ub, ix, e :
        /\ ub = next_ubatch /\ ix = find_slot(ub)
        /\ e = [ub |-> ub, idxs |-> ix, heads |-> heads,
                old |-> [st \in DOMAIN ub |-> [c \in Range(ix[st]) |-> cells[st][c]]]]
        /\ stack' = Append(stack, e) /\ apply_ubatch(ub, ix)
        /\ hurt' = hurt \cup Bereft(ub, ix)
  BY DEF Prepare
<1>2. /\ pc = "prepare" /\ rest # <<>>
      /\ UNCHANGED <<unified, pc, batch, split, plan, decoded, before>>
  BY DEF Prepare
<1>3. /\ Streams' = Streams /\ Cells' = Cells /\ NCells' = NCells
      /\ \A u, i : IsLevel(u, i)' <=> IsLevel(u, i)
  BY <1>2, FrameLevel
<1>4. /\ plan = <<>> /\ IsLevel(ub, ix) /\ rest' \in Seq(Tokens) /\ Ordered(rest')
      /\ \A s, p, r : <<s, p>> \in TokenSet(ub) /\ <<s, r>> \in Range(rest') => p < r
      /\ \A t : t \in Range(rest') <=> t \in Range(rest) /\ t \notin TokenSet(ub)
      /\ \A t \in TokenSet(ub) : t \in Range(rest)
  BY <1>1, Tried
<1>5. PICK n \in Nat : n = Levels /\ n = Len(stack)
  BY <1>1, <1>2, <1>4, LevelsPush DEF DryRunInv
<1>6. /\ Levels' = n + 1 /\ Len(stack') = n + 1
      /\ \A i \in 1 .. n : Ub(i)' = Ub(i) /\ Slot(i)' = Slot(i) /\ stack'[i] = stack[i]
      /\ Ub(n + 1)' = ub /\ Slot(n + 1)' = ix /\ stack'[n + 1] = e
  <2>1. \A i : i = n + 1 => Ub(i)' = e.ub /\ Slot(i)' = e.idxs /\ stack'[i] = e
    BY <1>1, <1>2, <1>4, <1>5, LevelsPush DEF DryRunInv
  <2>2. e.ub = ub /\ e.idxs = ix
    BY <1>1
  <2> QED BY <1>1, <1>2, <1>4, <1>5, <2>1, <2>2, LevelsPush DEF DryRunInv
<1>7. CellsGood
  BY DEF TypeInv
<1>8. CellsGood'
  <2>1. \A st \in Streams, c \in Cells : GoodCell(cells[st][c])
    BY <1>7 DEF CellsGood
  <2>2. \A st \in Streams, c \in Cells : GoodCell(cells'[st][c])
    BY <1>1, <1>4, <2>1, Applied
  <2> QED BY <1>3, <2>2 DEF CellsGood
<1>9. hurt' \subseteq Seqs
  <2>1. \A st \in DOMAIN ub : st \in Streams
    BY <1>4 DEF IsLevel
  <2>2. \A st \in Streams, c \in Cells : cells[st][c].seqs \subseteq Seqs
    BY <1>7 DEF CellsGood, GoodCell
  <2>3. Bereft(ub, ix) \subseteq Seqs
    BY <2>1, <2>2 DEF Bereft
  <2> QED BY <1>1, <2>3 DEF TypeInv, ScalarType
<1>10. ScalarType'
  <2>1. heads' \in [Streams -> 0 .. NCells]
    BY <1>1, <1>4, HeadsApplied DEF TypeInv, ScalarType
  <2> QED BY <1>2, <1>3, <1>9, <2>1 DEF TypeInv, ScalarType
<1>11. BeforeGood'
  BY <1>2, <1>3 DEF TypeInv, BeforeGood, InDry, IsCells
<1>12. StackType'
  <2>1. ASSUME NEW i \in 1 .. n + 1
        PROVE  /\ stack'[i].heads \in [Streams -> 0 .. NCells]
               /\ IsLevel(stack'[i].ub, stack'[i].idxs)
               /\ \A st \in DOMAIN stack'[i].ub :
                     /\ DOMAIN stack'[i].old[st] = Range(stack'[i].idxs[st])
                     /\ \A c \in Range(stack'[i].idxs[st]) : GoodCell(stack'[i].old[st][c])
    <3>1. CASE i \in 1 .. n
      BY <1>5, <1>6, <3>1 DEF TypeInv, StackType
    <3>2. CASE i = n + 1
      <4>1. stack'[i] = e
        BY <1>6, <3>2
      <4>2. e.heads = heads /\ e.ub = ub /\ e.idxs = ix
        BY <1>1
      <4>3. ASSUME NEW st \in DOMAIN ub
            PROVE  /\ DOMAIN e.old[st] = Range(ix[st])
                   /\ \A c \in Range(ix[st]) : GoodCell(e.old[st][c])
        <5>1. e.old[st] = [c \in Range(ix[st]) |-> cells[st][c]]
          BY <1>1, <4>3
        <5>2. \A c \in Range(ix[st]) : st \in Streams /\ c \in Cells
          <6>1. \A c : Takes(ub, ix, st, c) => st \in Streams /\ c \in Cells
            BY <1>4, SlotRelation
          <6> QED BY <4>3, <6>1 DEF Takes
        <5> QED BY <1>7, <5>1, <5>2 DEF CellsGood
      <4> QED BY <1>4, <4>1, <4>2, <4>3 DEF TypeInv, ScalarType
    <3> QED BY <3>1, <3>2
  <2> QED BY <1>3, <1>6, <2>1 DEF StackType
<1>13. PlanType'
  BY <1>2, <1>3 DEF TypeInv, PlanType, IsSequence
<1>14. Control'
  BY <1>2, <1>4 DEF TypeInv, Control, InDry
<1>15. BatchType'
  BY <1>2, <1>4 DEF TypeInv, BatchType, InDry, Ordered, FromNext
<1>16. \A i \in 1 .. n : \A s, p : InLevel(i, s, p)' <=> InLevel(i, s, p)
  BY <1>6 DEF InLevel
<1>17. \A s, p : InLevel(n + 1, s, p)' <=> <<s, p>> \in TokenSet(ub)
  BY <1>6 DEF InLevel
<1>18. \A s, p : IsTodo(s, p)' <=> IsTodo(s, p)
  <2>1. \A i : i \in 1 .. n + 1 <=> i \in 1 .. n \/ i = n + 1
    OBVIOUS
  <2>2. \A s, p : (\E i \in 1 .. n + 1 : InLevel(i, s, p)') <=>
                  (\E i \in 1 .. n : InLevel(i, s, p)) \/ <<s, p>> \in TokenSet(ub)
    BY <1>16, <1>17, <2>1
  <2> QED BY <1>2, <1>4, <1>5, <1>6, <2>2 DEF IsTodo
<1>19. InOrder'
  <2>1. ASSUME NEW i \in 1 .. n + 1, NEW j \in 1 .. n + 1, i < j,
               NEW s, NEW p, NEW q, InLevel(i, s, p)', InLevel(j, s, q)'
        PROVE  p < q
    <3>1. i \in 1 .. n /\ InLevel(i, s, p)
      BY <1>16, <2>1
    <3>2. CASE j \in 1 .. n
      BY <1>5, <1>16, <2>1, <3>1, <3>2 DEF TypeInv, InOrder
    <3>3. CASE j = n + 1
      <4>1. <<s, q>> \in Range(rest)
        BY <1>4, <1>17, <2>1, <3>3
      <4> QED BY <1>2, <1>5, <3>1, <4>1 DEF TypeInv, InOrder
    <3> QED BY <3>2, <3>3
  <2>2. ASSUME NEW i \in 1 .. n + 1, NEW s, NEW p, NEW q,
               InLevel(i, s, p)', <<s, q>> \in Range(rest')
        PROVE  p < q
    <3>1. CASE i \in 1 .. n
      BY <1>2, <1>4, <1>5, <1>16, <2>2, <3>1 DEF TypeInv, InOrder
    <3>2. CASE i = n + 1
      BY <1>4, <1>17, <2>2, <3>2
    <3> QED BY <3>1, <3>2
  <2>3. \A s \in Seqs, p \in Positions : IsTodo(s, p)' =>
            p >= decoded[s] /\ \A q \in decoded[s] .. p : IsTodo(s, q)'
    BY <1>2, <1>18 DEF TypeInv, InOrder
  <2> QED BY <1>2, <1>6, <2>1, <2>2, <2>3 DEF InOrder
<1> QED BY <1>8, <1>10, <1>11, <1>12, <1>13, <1>14, <1>15, <1>19 DEF TypeInv

(* A step that changes neither the levels nor what is left nor decoded     *)
(* keeps the order, unless it starts a dry run.                            *)
LEMMA OrderSame ==
    ASSUME InOrder, UNCHANGED <<stack, plan, rest, decoded>>,
           pc = "prepare" \/ pc' # "prepare", pc' # "failed" => pc # "failed",
           pc = "prepare" /\ pc' \notin {"prepare", "failed"} => rest = <<>>
    PROVE  InOrder'
<1>1. Levels' = Levels /\ \A i, s, p : InLevel(i, s, p)' <=> InLevel(i, s, p)
  BY LevelsSame DEF InLevel
<1>2. Range(<<>>) = {}
  BY DEF Range
<1>3. pc' # "failed" => \A s, p : IsTodo(s, p)' <=> IsTodo(s, p)
  BY <1>1, <1>2 DEF IsTodo
<1> QED BY <1>1, <1>3 DEF InOrder

(* A ubatch does not fit.                                                  *)
LEMMA NoSlotType ==
    ASSUME DryRunInv, TypeInv, NoSlot
    PROVE  TypeInv'
<1>1. /\ pc = "prepare" /\ rest # <<>> /\ pc' = "failed"
      /\ UNCHANGED <<unified, cells, heads, batch, split, rest, stack, plan, decoded, before, hurt>>
  BY DEF NoSlot, batchVars
<1>2. /\ Streams' = Streams /\ Cells' = Cells /\ NCells' = NCells
      /\ \A u, i : IsLevel(u, i)' <=> IsLevel(u, i)
  BY <1>1, FrameLevel
<1>3. ScalarType' /\ CellsGood' /\ BeforeGood'
  BY <1>1, <1>2 DEF TypeInv, ScalarType, CellsGood, BeforeGood, InDry, IsCells
<1>4. StackType' /\ PlanType'
  BY <1>1, <1>2 DEF TypeInv, StackType, PlanType, IsSequence
<1>5. Control'
  BY <1>1 DEF TypeInv, Control, InDry
<1>6. BatchType'
  BY <1>1 DEF TypeInv, BatchType, InDry, Ordered, FromNext
<1>7. InOrder'
  BY <1>1, OrderSame DEF TypeInv
<1> QED BY <1>3, <1>4, <1>5, <1>6, <1>7 DEF TypeInv

(* The stack after a level was put back.                                   *)
LEMMA StackLess ==
    ASSUME DryRunInv, StackType, PutBack, stack # <<>>, unified' = unified
    PROVE  StackType'
<1>1. PICK n \in Nat \ {0} : n = Len(stack)
  BY Popped DEF DryRunInv
<1>2. stack' = Front(stack)
  BY Popped DEF DryRunInv, PutBack, Top, Others
<1>3. Len(stack') = n - 1 /\ \A i \in 1 .. n - 1 : stack'[i] = stack[i]
  BY <1>1, <1>2, Popped DEF DryRunInv
<1>4. \A i \in 1 .. n - 1 : i \in 1 .. n
  OBVIOUS
<1>5. /\ Streams' = Streams /\ Cells' = Cells /\ NCells' = NCells
      /\ \A u, i : IsLevel(u, i)' <=> IsLevel(u, i)
  BY FrameLevel
<1> QED BY <1>1, <1>3, <1>4, <1>5 DEF StackType

(* A level is put back and becomes part of the plan.                       *)
LEMMA UndoType ==
    ASSUME DryRunInv, DryRunInv', TypeInv, Undo
    PROVE  TypeInv'
<1>1. /\ pc = "prepare" /\ rest = <<>> /\ stack # <<>> /\ PutBack
      /\ plan' = <<[ub |-> Top.ub, idxs |-> Top.idxs]>> \o plan
      /\ UNCHANGED <<unified, rest, decoded, before, hurt>>
  BY DEF Undo
<1>2. /\ Streams' = Streams /\ Cells' = Cells /\ NCells' = NCells
      /\ \A u, i : IsLevel(u, i)' <=> IsLevel(u, i)
  BY <1>1, FrameLevel
<1>3. /\ Len(stack) # 1 => UNCHANGED <<pc, batch, split>>
      /\ Len(stack) = 1 => pc' = "apply" /\ split' = "simple"
  BY DEF Undo, NoBatch
<1>4. /\ heads' \in [Streams -> 0 .. NCells]
      /\ \A st \in Streams, c \in Cells : GoodCell(cells'[st][c])
  BY <1>1, PutBackType DEF TypeInv, ScalarType
<1>5. ScalarType' /\ CellsGood'
  BY <1>1, <1>2, <1>3, <1>4 DEF TypeInv, ScalarType, CellsGood
<1>6. BeforeGood'
  BY <1>1, <1>2 DEF TypeInv, BeforeGood, InDry, IsCells
<1>7. StackType'
  BY <1>1, StackLess DEF TypeInv
<1>8. PICK n \in Nat \ {0} : n = Len(stack)
  BY <1>1, Popped DEF DryRunInv
<1>9. /\ Top = stack[n] /\ (n = 1 => stack' = <<>>) /\ (n # 1 => stack' # <<>>)
      /\ Len(stack') = n - 1
  <2>1. Top = stack[n] /\ stack' = Front(stack)
    BY <1>1, <1>8, Popped DEF DryRunInv, PutBack, Top, Others
  <2>2. Len(stack') = n - 1 /\ (n = 1 => stack' = <<>>)
    BY <1>1, <1>8, <2>1, Popped DEF DryRunInv
  <2> QED BY <2>1, <2>2
<1>10. PICK e : e = [ub |-> Top.ub, idxs |-> Top.idxs]
  OBVIOUS
<1>11. plan' = <<e>> \o plan /\ IsLevel(e.ub, e.idxs)
  BY <1>1, <1>8, <1>9, <1>10 DEF TypeInv, StackType
<1>12. IsSequence(plan)
  BY DEF TypeInv, PlanType
<1>13. PICK m \in Nat : m = Len(plan)
  BY <1>12 DEF IsSequence
<1>14. /\ IsSequence(plan') /\ Len(plan') = m + 1 /\ plan'[1] = e
       /\ \A i \in 1 .. m : plan'[i + 1] = plan[i]
  BY <1>11, <1>12, <1>13, PushedFront
<1>15. plan' # <<>>
  BY <1>14
<1>16. PlanType'
  <2>1. ASSUME NEW i \in 1 .. m + 1 PROVE IsLevel(plan'[i].ub, plan'[i].idxs)
    <3>1. CASE i = 1
      BY <1>11, <1>14, <3>1
    <3>2. CASE i # 1
      <4>1. PICK j \in 1 .. m : i = j + 1
        BY <3>2
      <4> QED BY <1>13, <1>14, <4>1 DEF TypeInv, PlanType
    <3> QED BY <3>1, <3>2
  <2> QED BY <1>2, <1>14, <2>1 DEF PlanType, IsSequence
<1>17. Control'
  BY <1>1, <1>3, <1>8, <1>9, <1>15 DEF TypeInv, Control, InDry
<1>18. BatchType'
  <2>1. rest' \in Seq(Tokens) /\ Ordered(rest')
    BY <1>1 DEF TypeInv, BatchType
  <2>2. CASE Len(stack) = 1
    BY <1>3, <2>1, <2>2 DEF BatchType, InDry, Ordered
  <2>3. CASE Len(stack) # 1
    BY <1>1, <1>3, <2>1, <2>3 DEF TypeInv, BatchType, InDry, Ordered, FromNext
  <2> QED BY <2>2, <2>3
<1>19. /\ Levels' = Levels
       /\ \A i \in 1 .. Levels : \A s, p : InLevel(i, s, p)' <=> InLevel(i, s, p)
  BY <1>1, <1>12, LevelsUndo DEF DryRunInv, PutBack, InLevel
<1>20. InOrder'
  <2>1. Range(<<>>) = {}
    BY DEF Range
  <2>2. pc' # "failed"
    BY <1>1, <1>3
  <2>3. \A s, p : IsTodo(s, p)' <=> IsTodo(s, p)
    BY <1>1, <1>19, <2>1 DEF IsTodo
  <2>4. \A t : t \notin Range(rest')
    BY <1>1, <2>1
  <2> QED BY <1>1, <1>19, <2>2, <2>3, <2>4 DEF TypeInv, InOrder
<1> QED BY <1>5, <1>6, <1>7, <1>16, <1>17, <1>18, <1>20 DEF TypeInv

(* A level is put back after a failure.                                    *)
LEMMA UndoFailedType ==
    ASSUME DryRunInv, DryRunInv', TypeInv, UndoFailed
    PROVE  TypeInv'
<1>1. /\ pc = "failed" /\ stack # <<>> /\ PutBack
      /\ UNCHANGED <<unified, pc, batch, split, rest, plan, decoded, before, hurt>>
  BY DEF UndoFailed
<1>2. /\ Streams' = Streams /\ Cells' = Cells /\ NCells' = NCells
      /\ \A u, i : IsLevel(u, i)' <=> IsLevel(u, i)
  BY <1>1, FrameLevel
<1>3. /\ heads' \in [Streams -> 0 .. NCells]
      /\ \A st \in Streams, c \in Cells : GoodCell(cells'[st][c])
  BY <1>1, PutBackType DEF TypeInv, ScalarType
<1>4. ScalarType' /\ CellsGood'
  BY <1>1, <1>2, <1>3 DEF TypeInv, ScalarType, CellsGood
<1>5. BeforeGood'
  BY <1>1, <1>2 DEF TypeInv, BeforeGood, InDry, IsCells
<1>6. StackType'
  BY <1>1, StackLess DEF TypeInv
<1>7. PlanType' /\ plan = <<>>
  BY <1>1, <1>2 DEF TypeInv, PlanType, IsSequence, Control
<1>8. Control'
  BY <1>1 DEF TypeInv, Control, InDry
<1>9. BatchType'
  BY <1>1 DEF TypeInv, BatchType, InDry, Ordered, FromNext
<1>10. InOrder'
  <2>1. PICK n \in Nat : n = Levels
    BY <1>1, <1>7, LevelsDrop DEF DryRunInv, PutBack
  <2>2. Levels' = n - 1 /\ \A i \in 1 .. n - 1 : Ub(i)' = Ub(i)
    BY <1>1, <1>7, <2>1, LevelsDrop DEF DryRunInv, PutBack
  <2>3. \A i \in 1 .. n - 1 : i \in 1 .. n
    OBVIOUS
  <2>4. \A i \in 1 .. n - 1 : \A s, p : InLevel(i, s, p)' <=> InLevel(i, s, p)
    BY <2>2 DEF InLevel
  <2> QED BY <1>1, <2>1, <2>2, <2>3, <2>4 DEF TypeInv, InOrder
<1> QED BY <1>4, <1>5, <1>6, <1>7, <1>8, <1>9, <1>10 DEF TypeInv

(* The batch is split again, as it came.                                   *)
LEMMA SplitAgainType ==
    ASSUME DryRunInv, TypeInv, SplitAgain
    PROVE  TypeInv'
<1>1. /\ pc = "failed" /\ stack = <<>> /\ pc' = "prepare" /\ split' = "equal" /\ rest' = batch
      /\ UNCHANGED <<unified, cells, heads, batch, stack, plan, decoded, before, hurt>>
  BY DEF SplitAgain
<1>2. /\ Streams' = Streams /\ Cells' = Cells /\ NCells' = NCells
      /\ \A u, i : IsLevel(u, i)' <=> IsLevel(u, i)
  BY <1>1, FrameLevel
<1>3. ScalarType' /\ CellsGood' /\ BeforeGood'
  BY <1>1, <1>2 DEF TypeInv, ScalarType, CellsGood, BeforeGood, InDry, IsCells
<1>4. StackType' /\ PlanType' /\ plan = <<>>
  BY <1>1, <1>2 DEF TypeInv, StackType, PlanType, IsSequence, Control
<1>5. batch \in Seq(Tokens) /\ batch # <<>> /\ Ordered(batch) /\ FromNext(Range(batch))
  BY <1>1 DEF TypeInv, BatchType, InDry
<1>6. Control'
  BY <1>1, <1>4, <1>5 DEF TypeInv, Control, InDry
<1>7. BatchType'
  BY <1>1, <1>5 DEF BatchType, Ordered, FromNext
<1>8. InOrder'
  <2>1. \A i : i \notin 1 .. Levels'
    BY <1>1, <1>4, NoLevels DEF Levels
  <2>2. \A s, p : IsTodo(s, p)' <=> <<s, p>> \in Range(batch)
    BY <1>1, <2>1 DEF IsTodo
  <2> QED BY <1>1, <1>5, <2>1, <2>2 DEF InOrder, FromNext
<1> QED BY <1>3, <1>4, <1>6, <1>7, <1>8 DEF TypeInv

(* Between batches nothing is left of one.                                 *)
LEMMA IdleType ==
    ASSUME pc' = "idle", unified' = unified, ScalarType', CellsGood', stack' = <<>>, plan' = <<>>, rest' = <<>>
    PROVE  TypeInv'
<1>1. BeforeGood'
  BY DEF BeforeGood, InDry
<1>2. StackType' /\ PlanType'
  BY DEF StackType, PlanType, IsSequence
<1>3. Control'
  BY DEF Control, InDry
<1>4. BatchType'
  BY DEF BatchType, InDry, Ordered
<1>5. InOrder'
  <2>1. \A i : i \notin 1 .. Levels'
    BY NoLevels DEF Levels
  <2>2. \A s, p : ~IsTodo(s, p)'
    BY <2>1 DEF IsTodo
  <2> QED BY <2>1, <2>2 DEF InOrder
<1> QED BY <1>1, <1>2, <1>3, <1>4, <1>5 DEF TypeInv

(* The batch is given up.                                                  *)
LEMMA GiveUpType ==
    ASSUME DryRunInv, TypeInv, GiveUp
    PROVE  TypeInv'
<1>1. /\ pc = "failed" /\ stack = <<>> /\ pc' = "idle" /\ split' = "simple" /\ rest' = <<>>
      /\ UNCHANGED <<unified, cells, heads, stack, plan, decoded, before, hurt>>
  BY DEF GiveUp, NoBatch
<1>2. Streams' = Streams /\ Cells' = Cells /\ NCells' = NCells
  BY <1>1, FrameLevel
<1>3. ScalarType' /\ CellsGood' /\ plan = <<>>
  BY <1>1, <1>2 DEF TypeInv, ScalarType, CellsGood, Control
<1> QED BY <1>1, <1>3, IdleType

(* The first ubatch of the plan is applied.                                *)
LEMMA ApplyType ==
    ASSUME DryRunInv, TypeInv, Apply
    PROVE  TypeInv'
<1>1. /\ pc = "apply" /\ pc' = "compute" /\ apply_ubatch(plan[1].ub, plan[1].idxs)
      /\ UNCHANGED <<unified, batch, split, rest, stack, plan, decoded, hurt>>
  BY DEF Apply, batchVars
<1>2. /\ Streams' = Streams /\ Cells' = Cells /\ NCells' = NCells
      /\ \A u, i : IsLevel(u, i)' <=> IsLevel(u, i)
  BY <1>1, FrameLevel
<1>3. PICK ub, ix : ub = plan[1].ub /\ ix = plan[1].idxs
  OBVIOUS
<1>4. IsLevel(ub, ix) /\ apply_ubatch(ub, ix)
  <2>1. Len(plan) \in Nat \ {0}
    BY <1>1, PoppedFront DEF TypeInv, PlanType, Control
  <2>2. 1 \in 1 .. Len(plan)
    BY <2>1
  <2> QED BY <1>1, <1>3, <2>2 DEF TypeInv, PlanType
<1>5. \A st \in Streams, c \in Cells : GoodCell(cells[st][c])
  BY DEF TypeInv, CellsGood
<1>6. \A st \in Streams, c \in Cells : GoodCell(cells'[st][c])
  BY <1>4, <1>5, Applied
<1>7. heads' \in [Streams -> 0 .. NCells]
  BY <1>4, HeadsApplied DEF TypeInv, ScalarType
<1>8. ScalarType' /\ CellsGood' /\ BeforeGood'
  BY <1>1, <1>2, <1>6, <1>7 DEF TypeInv, ScalarType, CellsGood, BeforeGood, InDry
<1>9. StackType' /\ PlanType'
  BY <1>1, <1>2 DEF TypeInv, StackType, PlanType, IsSequence
<1>10. Control'
  BY <1>1 DEF TypeInv, Control, InDry
<1>11. BatchType'
  BY <1>1 DEF TypeInv, BatchType, InDry, Ordered
<1>12. InOrder'
  BY <1>1, OrderSame DEF TypeInv
<1> QED BY <1>8, <1>9, <1>10, <1>11, <1>12 DEF TypeInv

(* The tokens of a sequence in the ubatch that is computed are its next    *)
(* positions.                                                              *)
LEMMA NextPositions ==
    ASSUME DryRunInv, TypeInv, pc = "compute", NEW s \in Seqs
    PROVE  \E n \in Nat :
              /\ n = Cardinality({t \in TokenSet(plan[1].ub) : t[1] = s})
              /\ decoded[s] + n <= MaxLen
              /\ \A p : InLevel(1, s, p) <=> p \in decoded[s] .. decoded[s] + n - 1
<1>1. stack = <<>> /\ plan # <<>>
  BY DEF TypeInv, Control, InDry
<1>2. PICK L \in Nat \ {0} : L = Levels /\ L = Len(plan)
  <2>1. Len(stack) = 0 /\ Len(plan) \in Nat \ {0}
    BY <1>1, PoppedFront DEF TypeInv, PlanType
  <2> QED BY <2>1 DEF Levels
<1>3. PICK ub : ub = plan[1].ub /\ ub = Ub(1)
  <2>1. Len(stack) = 0 /\ ~(1 <= 0) /\ 1 - 0 = 1
    BY <1>1
  <2> QED BY <2>1 DEF Ub
<1>4. IsLevel(ub, Slot(1)) /\ 1 \in 1 .. L
  BY <1>2, <1>3, LevelsGood DEF TypeInv, DryRunInv
<1>5. \A t \in TokenSet(ub) : t \in Tokens /\ t = <<t[1], t[2]>>
  BY <1>4, SlotRelation
<1>6. PICK d \in 0 .. MaxLen : d = decoded[s]
  BY DEF TypeInv, ScalarType
<1>7. MaxLen \in Nat
  BY PlaceAssumption
<1>8. PICK P : P = {p \in Positions : <<s, p>> \in TokenSet(ub)}
  OBVIOUS
<1>9. \A p : InLevel(1, s, p) <=> p \in P
  <2>1. \A p : <<s, p>> \in Tokens => p \in Positions
    BY DEF Tokens
  <2> QED BY <1>3, <1>5, <1>8, <2>1 DEF InLevel
<1>10. PICK T : T = {t \in TokenSet(plan[1].ub) : t[1] = s}
  OBVIOUS
<1>11. T = {<<s, p>> : p \in P}
  <2>1. ASSUME NEW t \in T PROVE t \in {<<s, p>> : p \in P}
    <3>1. t \in TokenSet(ub) /\ t[1] = s
      BY <1>3, <1>10
    <3>2. t \in Tokens /\ t = <<s, t[2]>>
      BY <1>5, <3>1
    <3>3. t[2] \in Positions
      BY <3>2 DEF Tokens
    <3> QED BY <1>8, <3>1, <3>2, <3>3
  <2>2. ASSUME NEW p \in P PROVE <<s, p>> \in T
    <3>1. <<s, p>> \in TokenSet(ub) /\ <<s, p>>[1] = s
      BY <1>8
    <3> QED BY <1>3, <1>10, <3>1
  <2> QED BY <2>1, <2>2
<1>12. CASE P = {}
  <2>1. T = {}
    BY <1>11, <1>12
  <2>2. Cardinality(T) = 0
    BY <2>1, FS_EmptySet
  <2>3. \A p : p \notin d .. d + 0 - 1
    BY <1>6
  <2>4. d + 0 <= MaxLen /\ 0 \in Nat
    BY <1>6, <1>7
  <2> QED BY <1>6, <1>9, <1>10, <1>12, <2>2, <2>3, <2>4
<1>13. CASE P # {}
  <2>1. P \in SUBSET Int /\ \A p \in P : p <= MaxLen - 1 /\ p \in Nat
    BY <1>7, <1>8 DEF Positions
  <2>2. PICK m \in P : \A p \in P : m >= p
    <3>1. PICK b \in Int : b = MaxLen - 1
      BY <1>7
    <3>2. \A p \in P : p <= b
      BY <2>1, <3>1
    <3> QED BY <1>13, <2>1, <3>1, <3>2, Greatest
  <2>3. ASSUME NEW p \in P PROVE p >= d /\ \A q \in d .. p : IsTodo(s, q)
    <3>1. InLevel(1, s, p) /\ p \in Positions
      BY <1>8, <1>9
    <3>2. IsTodo(s, p)
      BY <1>2, <1>4, <3>1 DEF IsTodo
    <3> QED BY <1>6, <3>1, <3>2 DEF TypeInv, InOrder
  <2>4. ASSUME NEW q \in d .. m PROVE q \in P
    <3>1. IsTodo(s, q)
      BY <2>3
    <3>2. PICK i \in 1 .. L : InLevel(i, s, q)
      BY <1>2, <3>1 DEF IsTodo
    <3>3. InLevel(1, s, m)
      BY <1>9, <2>2
    <3>4. CASE i = 1
      BY <1>9, <3>2, <3>4
    <3>5. CASE i # 1
      <4>1. 1 < i
        BY <3>5
      <4>2. m < q
        BY <1>2, <1>4, <3>2, <3>3, <4>1 DEF TypeInv, InOrder
      <4> QED BY <1>6, <2>1, <4>2
    <3> QED BY <3>4, <3>5
  <2>5. P = d .. m
    <3>1. ASSUME NEW p \in P PROVE p \in d .. m
      <4>1. p >= d /\ m >= p /\ p \in Int /\ m \in Int
        BY <2>1, <2>2, <2>3
      <4> QED BY <1>6, <4>1
    <3> QED BY <2>4, <3>1
  <2>6. m \in Nat /\ m >= d /\ m <= MaxLen - 1
    BY <2>1, <2>2, <2>3
  <2>7. IsFiniteSet(P) /\ Cardinality(P) = m - d + 1
    <3>1. d \in Int /\ m \in Int
      BY <1>6, <2>6
    <3>2. IsFiniteSet(d .. m) /\ Cardinality(d .. m) = IF d > m THEN 0 ELSE m - d + 1
      BY <3>1, FS_Interval
    <3> QED BY <1>6, <2>5, <2>6, <3>2
  <2>8. Cardinality(T) = Cardinality(P)
    <3> DEFINE f == [p \in P |-> <<s, p>>]
    <3>1. f \in [P -> T] /\ \A p \in P : f[p] = <<s, p>>
      BY <1>11
    <3>2. \A p, q \in P : f[p] = f[q] => p = q
      OBVIOUS
    <3>3. \A t \in T : \E p \in P : f[p] = t
      BY <1>11
    <3> HIDE DEF f
    <3>4. f \in Bijection(P, T)
      BY <3>1, <3>2, <3>3 DEF Bijection, Injection, Surjection, IsInjective
    <3>5. ExistsBijection(P, T)
      BY <3>4 DEF ExistsBijection
    <3> QED BY <2>7, <3>5, FS_Bijection
  <2>9. PICK n \in Nat : n = m - d + 1
    BY <1>6, <2>6
  <2>10. d + n - 1 = m /\ d + n <= MaxLen
    BY <1>6, <1>7, <2>6, <2>9
  <2> QED BY <1>6, <1>9, <1>10, <2>5, <2>7, <2>8, <2>9, <2>10
<1> QED BY <1>12, <1>13

(* What the first ubatch leaves when it has been computed.                 *)
LEMMA NextLevels ==
    ASSUME DryRunInv, TypeInv, Computed
    PROVE  /\ Levels \in Nat \ {0} /\ Levels' = Levels - 1
           /\ \A i \in 1 .. Levels - 1 :
                 Ub(i)' = Ub(i + 1) /\ Slot(i)' = Slot(i + 1)
           /\ \A s \in Seqs : /\ decoded'[s] \in decoded[s] .. MaxLen
                              /\ \A p : InLevel(1, s, p) <=> p \in decoded[s] .. decoded'[s] - 1
           /\ decoded' \in [Seqs -> 0 .. MaxLen]
<1>1. /\ pc = "compute" /\ plan' = Tail(plan) /\ stack' = stack
      /\ decoded' = [s \in Seqs |-> decoded[s]
                       + Cardinality({t \in TokenSet(plan[1].ub) : t[1] = s})]
  BY DEF Computed
<1>2. stack = <<>> /\ plan # <<>> /\ IsSequence(plan)
  BY <1>1 DEF TypeInv, Control, InDry, PlanType
<1>3. /\ Levels \in Nat \ {0} /\ Levels' = Levels - 1
      /\ \A i \in 1 .. Levels - 1 : Ub(i)' = Ub(i + 1) /\ Slot(i)' = Slot(i + 1)
  BY <1>1, <1>2, LevelsNext
<1>4. ASSUME NEW s \in Seqs
      PROVE  /\ decoded'[s] \in decoded[s] .. MaxLen
             /\ \A p : InLevel(1, s, p) <=> p \in decoded[s] .. decoded'[s] - 1
             /\ decoded'[s] \in 0 .. MaxLen
  <2>1. PICK n \in Nat :
              /\ n = Cardinality({t \in TokenSet(plan[1].ub) : t[1] = s})
              /\ decoded[s] + n <= MaxLen
              /\ \A p : InLevel(1, s, p) <=> p \in decoded[s] .. decoded[s] + n - 1
    BY <1>1, NextPositions
  <2>2. decoded'[s] = decoded[s] + n
    BY <1>1, <2>1
  <2>3. decoded[s] \in 0 .. MaxLen /\ MaxLen \in Nat
    BY PlaceAssumption DEF TypeInv, ScalarType
  <2>4. PICK d, e : d = decoded[s] /\ e = decoded'[s]
    OBVIOUS
  <2>5. d \in 0 .. MaxLen /\ e = d + n /\ e <= MaxLen
    BY <2>1, <2>2, <2>3, <2>4
  <2>6. e \in d .. MaxLen /\ e \in 0 .. MaxLen /\ e - 1 = d + n - 1
    BY <2>3, <2>5
  <2>7. \A p : InLevel(1, s, p) <=> p \in d .. e - 1
    BY <2>1, <2>4, <2>6
  <2> QED BY <2>4, <2>6, <2>7
<1>5. decoded' \in [Seqs -> 0 .. MaxLen]
  BY <1>1, <1>4
<1> QED BY <1>3, <1>4, <1>5

(* The first ubatch has been computed.                                     *)
LEMMA ComputedType ==
    ASSUME DryRunInv, TypeInv, Computed
    PROVE  TypeInv'
<1>1. /\ pc = "compute" /\ plan' = Tail(plan) /\ pc' = IF Len(plan) = 1 THEN "idle" ELSE "apply"
      /\ UNCHANGED <<unified, cells, heads, batch, split, rest, stack, before, hurt>>
  BY DEF Computed
<1>2. /\ Streams' = Streams /\ Cells' = Cells /\ NCells' = NCells
      /\ \A u, i : IsLevel(u, i)' <=> IsLevel(u, i)
  BY <1>1, FrameLevel
<1>3. stack = <<>> /\ rest = <<>> /\ plan # <<>> /\ IsSequence(plan)
  BY <1>1 DEF TypeInv, Control, InDry, PlanType
<1>4. PICK n \in Nat \ {0} : n = Len(plan)
  BY <1>3, PoppedFront
<1>5. /\ IsSequence(plan') /\ Len(plan') = n - 1 /\ (n = 1 => plan' = <<>>)
      /\ \A i \in 1 .. n - 1 : plan'[i] = plan[i + 1]
  BY <1>1, <1>3, <1>4, PoppedFront
<1>6. n # 1 => plan' # <<>>
  BY <1>5
<1>7. /\ Levels' = Levels - 1 /\ Levels \in Nat
      /\ \A i \in 1 .. Levels - 1 : Ub(i)' = Ub(i + 1)
      /\ \A s \in Seqs : /\ decoded'[s] \in decoded[s] .. MaxLen
                         /\ \A p : InLevel(1, s, p) <=> p \in decoded[s] .. decoded'[s] - 1
      /\ decoded' \in [Seqs -> 0 .. MaxLen]
  BY NextLevels
<1>8. ScalarType' /\ CellsGood' /\ BeforeGood'
  BY <1>1, <1>2, <1>7 DEF TypeInv, ScalarType, CellsGood, BeforeGood, InDry
<1>9. StackType'
  BY <1>1, <1>2 DEF TypeInv, StackType
<1>10. PlanType'
  <2>1. \A i \in 1 .. n - 1 : i + 1 \in 1 .. n
    OBVIOUS
  <2> QED BY <1>2, <1>4, <1>5, <2>1 DEF TypeInv, PlanType, IsSequence
<1>11. Control'
  BY <1>1, <1>3, <1>4, <1>5, <1>6 DEF Control, InDry
<1>12. BatchType'
  BY <1>1 DEF TypeInv, BatchType, InDry, Ordered
<1>13. InOrder'
  <2>1. PICK L \in Nat : L = Levels
    BY <1>7
  <2>2. \A i \in 1 .. L - 1 : i + 1 \in 1 .. L /\ i + 1 > 1
    OBVIOUS
  <2>3. Levels' = L - 1 /\ \A i \in 1 .. L - 1 : \A s, p : InLevel(i, s, p)' <=> InLevel(i + 1, s, p)
    BY <1>7, <2>1 DEF InLevel
  <2>4. ASSUME NEW i \in 1 .. L - 1, NEW j \in 1 .. L - 1, i < j,
               NEW s, NEW p, NEW q, InLevel(i, s, p)', InLevel(j, s, q)'
        PROVE  p < q
    <3>1. i + 1 < j + 1 /\ i + 1 \in 1 .. L /\ j + 1 \in 1 .. L
      BY <2>4
    <3>2. InLevel(i + 1, s, p) /\ InLevel(j + 1, s, q)
      BY <2>3, <2>4
    <3> QED BY <2>1, <3>1, <3>2 DEF TypeInv, InOrder
  <2>5. ASSUME NEW s \in Seqs, NEW p \in Positions, IsTodo(s, p)'
        PROVE  p >= decoded'[s] /\ \A q \in decoded'[s] .. p : IsTodo(s, q)'
    <3>1. PICK i \in 1 .. L - 1 : InLevel(i + 1, s, p)
      BY <1>1, <2>3, <2>5 DEF IsTodo
    <3>2. IsTodo(s, p)
      BY <2>1, <2>2, <3>1 DEF IsTodo
    <3>3. p >= decoded[s] /\ \A q \in decoded[s] .. p : IsTodo(s, q)
      BY <1>1, <3>2 DEF TypeInv, InOrder
    <3>4. PICK d, e \in Nat : d = decoded[s] /\ e = decoded'[s] /\ e >= d
      BY <1>7 DEF TypeInv, ScalarType
    <3>5. p \in Nat
      BY PlaceAssumption DEF Positions
    <3>6. p >= e
      <4>1. SUFFICES ASSUME p < e PROVE FALSE
        BY <3>4, <3>5
      <4>2. p \in d .. e - 1
        BY <3>3, <3>4, <3>5, <4>1
      <4>3. InLevel(1, s, p)
        BY <1>7, <3>4, <4>2
      <4>4. 1 \in 1 .. L /\ i + 1 \in 1 .. L /\ 1 < i + 1
        OBVIOUS
      <4>5. p < p
        BY <2>1, <3>1, <4>3, <4>4 DEF TypeInv, InOrder
      <4> QED BY <3>5, <4>5
    <3>7. ASSUME NEW q \in e .. p PROVE IsTodo(s, q)'
      <4>1. IsTodo(s, q)
        BY <3>3, <3>4
      <4>2. PICK j \in 1 .. L : InLevel(j, s, q)
        BY <1>1, <2>1, <4>1 DEF IsTodo
      <4>3. ~InLevel(1, s, q)
        BY <1>7, <3>4
      <4>4. PICK k \in 1 .. L - 1 : j = k + 1
        BY <4>2, <4>3
      <4>5. InLevel(k, s, q)'
        BY <2>3, <4>2, <4>4
      <4> QED BY <2>3, <4>5 DEF IsTodo
    <3> QED BY <3>4, <3>6, <3>7
  <2>6. pc' # "prepare"
    BY <1>1
  <2> QED BY <2>3, <2>4, <2>5, <2>6 DEF InOrder
<1> QED BY <1>8, <1>9, <1>10, <1>11, <1>12, <1>13 DEF TypeInv

(* A graph fails: the ubatch is taken out again.                           *)
LEMMA ComputeFailsType ==
    ASSUME DryRunInv, TypeInv, ComputeFails
    PROVE  TypeInv'
<1>1. /\ pc = "compute" /\ pc' = "idle" /\ plan' = <<>>
      /\ RemoveSuffix({t[1] : t \in TokenSet(plan[1].ub)})
      /\ UNCHANGED <<decoded, unified, batch, split, rest, stack, before, hurt>>
  BY DEF ComputeFails
<1>2. Streams' = Streams /\ Cells' = Cells /\ NCells' = NCells
  BY <1>1, FrameLevel
<1>3. CellsGood /\ heads \in [Streams -> 0 .. NCells]
  BY DEF TypeInv, ScalarType
<1>4. PICK S : S = {t[1] : t \in TokenSet(plan[1].ub)}
  OBVIOUS
<1>5. /\ heads' \in [Streams -> 0 .. NCells]
      /\ \A st \in Streams, c \in Cells : GoodCell(cells'[st][c])
  BY <1>1, <1>3, <1>4, Removed
<1>6. stack' = <<>> /\ rest' = <<>>
  BY <1>1 DEF TypeInv, Control, InDry
<1>7. ScalarType' /\ CellsGood'
  BY <1>1, <1>2, <1>5 DEF TypeInv, ScalarType, CellsGood
<1> QED BY <1>1, <1>6, <1>7, IdleType

(* A prompt is reused.                                                     *)
LEMMA ReuseType ==
    ASSUME DryRunInv, TypeInv, NEW s \in Seqs, NEW p0 \in Positions, Reuse(s, p0)
    PROVE  TypeInv'
<1>1. /\ pc = "idle" /\ p0 < decoded[s] /\ decoded' = [decoded EXCEPT ![s] = p0]
      /\ RemoveSuffix({s})
      /\ hurt' = IF p0 = 0 THEN hurt \ {s}
                 ELSE IF WindowKept(s, p0) THEN hurt ELSE hurt \cup {s}
      /\ UNCHANGED <<unified, pc, batch, split, rest, stack, plan>>
  BY DEF Reuse, batchVars
<1>2. Streams' = Streams /\ Cells' = Cells /\ NCells' = NCells
  BY <1>1, FrameLevel
<1>3. CellsGood /\ heads \in [Streams -> 0 .. NCells]
  BY DEF TypeInv, ScalarType
<1>4. /\ heads' \in [Streams -> 0 .. NCells]
      /\ \A st \in Streams, c \in Cells : GoodCell(cells'[st][c])
  <2>1. PICK S : S = {s}
    OBVIOUS
  <2> QED BY <1>1, <1>3, <2>1, Removed
<1>5. stack' = <<>> /\ rest' = <<>> /\ plan' = <<>>
  BY <1>1 DEF TypeInv, Control, InDry
<1>6. decoded' \in [Seqs -> 0 .. MaxLen]
  <2>1. p0 \in 0 .. MaxLen
    BY PlaceAssumption DEF Positions
  <2> QED BY <1>1, <2>1 DEF TypeInv, ScalarType
<1>7. hurt' \subseteq Seqs
  BY <1>1 DEF TypeInv, ScalarType
<1>8. ScalarType' /\ CellsGood'
  BY <1>1, <1>2, <1>4, <1>6, <1>7 DEF TypeInv, ScalarType, CellsGood
<1> QED BY <1>1, <1>5, <1>8, IdleType

(* A sequence is copied.                                                   *)
LEMMA CopyType ==
    ASSUME DryRunInv, TypeInv, NEW src \in Seqs, NEW dst \in Seqs, Copy(src, dst)
    PROVE  TypeInv'
<1>1. /\ pc = "idle" /\ decoded' = [decoded EXCEPT ![dst] = decoded[src]]
      /\ hurt' = IF src \in hurt THEN hurt \cup {dst} ELSE hurt \ {dst}
      /\ UNCHANGED <<unified, pc, batch, split, rest, stack, plan>>
  BY DEF Copy, batchVars
<1>2. Streams' = Streams /\ Cells' = Cells /\ NCells' = NCells
  BY <1>1, FrameLevel
<1>3. /\ CellsGood /\ heads \in [Streams -> 0 .. NCells] /\ IsCells(cells) /\ unified \in BOOLEAN
  BY DEF TypeInv, ScalarType, DryRunInv
<1>4. /\ heads' \in [Streams -> 0 .. NCells]
      /\ \A st \in Streams, c \in Cells : GoodCell(cells'[st][c])
  BY <1>3, Copied
<1>5. stack' = <<>> /\ rest' = <<>> /\ plan' = <<>>
  BY <1>1 DEF TypeInv, Control, InDry
<1>6. decoded' \in [Seqs -> 0 .. MaxLen] /\ hurt' \subseteq Seqs
  BY <1>1 DEF TypeInv, ScalarType
<1>7. ScalarType' /\ CellsGood'
  BY <1>1, <1>2, <1>4, <1>6 DEF TypeInv, ScalarType, CellsGood
<1> QED BY <1>1, <1>5, <1>7, IdleType

(* Initially the cache is empty.                                           *)
LEMMA InitType == Init => TypeInv
<1> SUFFICES ASSUME Init PROVE TypeInv
  OBVIOUS
<1>1. /\ pc = "idle" /\ split = "simple" /\ rest = <<>> /\ stack = <<>> /\ plan = <<>>
      /\ decoded = [s \in Seqs |-> 0] /\ hurt = {} /\ heads = [st \in Streams |-> 0]
      /\ cells = [st \in Streams |-> [c \in Cells |-> Empty]]
  BY DEF Init
<1>2. NCells \in Nat /\ MaxLen \in Nat
  BY CellsType, PlaceAssumption
<1>3. ScalarType
  <2>1. heads \in [Streams -> 0 .. NCells]
    BY <1>1, <1>2
  <2>2. decoded \in [Seqs -> 0 .. MaxLen]
    BY <1>1, <1>2
  <2> QED BY <1>1, <2>1, <2>2 DEF ScalarType
<1>4. GoodCell(Empty)
  BY DEF GoodCell, Empty
<1>5. CellsGood
  BY <1>1, <1>4 DEF CellsGood
<1>6. BeforeGood /\ StackType /\ PlanType /\ Control /\ BatchType
  BY <1>1 DEF BeforeGood, StackType, PlanType, Control, BatchType, InDry, IsSequence, Ordered
<1>7. InOrder
  <2>1. \A i : i \notin 1 .. Levels
    BY <1>1, NoLevels
  <2>2. \A s, p : ~IsTodo(s, p)
    BY <1>1, <2>1 DEF IsTodo
  <2> QED BY <1>1, <2>1, <2>2 DEF InOrder
<1> QED BY <1>3, <1>5, <1>6, <1>7 DEF TypeInv

(* A step that changes nothing.                                            *)
LEMMA SameType ==
    ASSUME TypeInv, UNCHANGED vars
    PROVE  TypeInv'
<1>1. UNCHANGED <<unified, cells, heads, pc, batch, split, rest, stack, plan, decoded, before, hurt>>
  BY DEF vars
<1>2. /\ Streams' = Streams /\ Cells' = Cells /\ NCells' = NCells
      /\ \A u, i : IsLevel(u, i)' <=> IsLevel(u, i)
  BY <1>1, FrameLevel
<1>3. ScalarType' /\ CellsGood' /\ BeforeGood'
  BY <1>1, <1>2 DEF TypeInv, ScalarType, CellsGood, BeforeGood, InDry, IsCells
<1>4. StackType' /\ PlanType'
  BY <1>1, <1>2 DEF TypeInv, StackType, PlanType, IsSequence
<1>5. Control' /\ BatchType'
  BY <1>1 DEF TypeInv, Control, BatchType, InDry, Ordered, FromNext
<1>6. InOrder'
  <2>1. Levels' = Levels /\ \A i, s, p : InLevel(i, s, p)' <=> InLevel(i, s, p)
    BY <1>1, LevelsSame DEF InLevel
  <2>2. \A s, p : IsTodo(s, p)' <=> IsTodo(s, p)
    BY <1>1, <2>1 DEF IsTodo
  <2> QED BY <1>1, <2>1, <2>2 DEF TypeInv, InOrder
<1> QED BY <1>3, <1>4, <1>5, <1>6 DEF TypeInv

(* Every step keeps the types.                                             *)
LEMMA TypeStep ==
    ASSUME DryRunInv, DryRunInv', TypeInv, [Next]_vars
    PROVE  TypeInv'
<1>1. ASSUME NEW b \in Batches, Decode(b) PROVE TypeInv'
  BY <1>1, DecodeType
<1>2. CASE Prepare
  BY <1>2, PrepareType
<1>3. CASE NoSlot
  BY <1>3, NoSlotType
<1>4. CASE Undo
  BY <1>4, UndoType
<1>5. CASE UndoFailed
  BY <1>5, UndoFailedType
<1>6. CASE SplitAgain
  BY <1>6, SplitAgainType
<1>7. CASE GiveUp
  BY <1>7, GiveUpType
<1>8. CASE Apply
  BY <1>8, ApplyType
<1>9. CASE Computed
  BY <1>9, ComputedType
<1>10. CASE ComputeFails
  BY <1>10, ComputeFailsType
<1>11. ASSUME NEW s \in Seqs, NEW p0 \in Positions, Reuse(s, p0) PROVE TypeInv'
  BY <1>11, ReuseType
<1>12. ASSUME NEW src \in Seqs, NEW dst \in Seqs, Copy(src, dst) PROVE TypeInv'
  BY <1>12, CopyType
<1>13. CASE UNCHANGED vars
  BY <1>13, SameType
<1> QED BY <1>1, <1>2, <1>3, <1>4, <1>5, <1>6, <1>7, <1>8, <1>9, <1>10, <1>11, <1>12, <1>13 DEF Next

(* The invariant of the types holds.                                       *)
THEOREM PlaceTypeInvariant == Spec => []TypeInv
<1>1. DryRunInv /\ DryRunInv' /\ TypeInv /\ [Next]_vars => TypeInv'
  BY TypeStep
<1> QED BY <1>1, InitType, PlaceDryRunInvariant, PTL DEF Spec

(* Every variable keeps its type.                                          *)
THEOREM PlaceTypeCorrect == Spec => []TypeOK
  BY TypeInvIs, PlaceTypeInvariant, PlaceDryRunInvariant, PTL

-----------------------------------------------------------------------------
(***************************************************************************)
(* What the cells hold.  Sound(k) is about the cells k that the cache has  *)
(* or, during a dry run, will have again.                                  *)
(***************************************************************************)
Has(k, s, p) == \E c \in Cells : /\ s \in k[seq_to_stream(s)][c].seqs
                                 /\ k[seq_to_stream(s)][c].pos = p

(* Token p of sequence s is in the ubatch whose graph runs.                *)
Computing(s, p) == pc = "compute" /\ InLevel(1, s, p)

(* Sequences are in their streams, and only have positions before the next *)
(* one and those that are being computed.                                  *)
Below(k) ==
    \A st \in Streams, c \in Cells : \A s \in k[st][c].seqs :
        /\ seq_to_stream(s) = st
        /\ k[st][c].pos < decoded[s] \/ Computing(s, k[st][c].pos)

(* No position of a sequence is in two cells.                              *)
Apart(k) ==
    \A st \in Streams : \A c, d \in Cells : \A s :
        s \in k[st][c].seqs /\ s \in k[st][d].seqs /\ k[st][c].pos = k[st][d].pos => c = d

(* The window of the next position is there.                               *)
Kept(k) ==
    \A s \in Seqs \ hurt : \A q \in 0 .. decoded[s] - 1 : q + NSwa > decoded[s] => Has(k, s, q)

(* There is no hole between a position that is there and the next one.     *)
Up(k) ==
    \A s \in Seqs \ hurt : \A p \in Positions :
        Has(k, s, p) => \A q \in p .. decoded[s] - 1 : Has(k, s, q)

Sound(k) == Below(k) /\ Apart(k) /\ Kept(k) /\ Up(k)

Settled == IF InDry THEN Sound(before) ELSE Sound(cells)

(* The tokens whose graph runs are in their cells.                         *)
PutIn == \A s, p : Computing(s, p) => Has(cells, s, p)

(***************************************************************************)
(* What the ubatches will overwrite.                                       *)
(***************************************************************************)
TakesAt(i, st, c) == Takes(Ub(i), Slot(i), st, c)
PutsAt(i, st, c, s, p) == Puts(Ub(i), Slot(i), st, c, s, p)

(* The first ubatch that is not in the cells yet.                          *)
First == IF pc = "compute" THEN 2 ELSE 1

(* Position q of sequence s is out of the window of every token that is    *)
(* computed with ubatch i or later.                                        *)
Ahead(i, s, q) ==
    \A p \in decoded[s] .. MaxLen :
        (\A k \in 1 .. i - 1 : ~InLevel(k, s, p)) => q + NSwa <= p

(* What is in a cell before the ubatches, as far as they are undone.       *)
OldCell(i, st, c) == IF i <= Len(stack) THEN stack[i].old[st][c] ELSE cells[st][c]

(* When a ubatch overwrites a token of an earlier one, nobody needs it ... *)
SafeTokens ==
    pc # "failed" => \A i \in First .. Levels : \A j \in First .. i - 1 : \A st, c, s, p :
        /\ TakesAt(i, st, c) /\ PutsAt(j, st, c, s, p)
        /\ \A k \in j + 1 .. i - 1 : ~TakesAt(k, st, c)
        /\ s \notin hurt
        => Ahead(i, s, p)

(* ... nor when it overwrites what was there before.                       *)
SafeCells ==
    pc # "failed" => \A i \in First .. Levels : \A st, c : \A s \in OldCell(i, st, c).seqs :
        /\ TakesAt(i, st, c) /\ s \notin hurt
        /\ \A j \in First .. i - 1 : ~TakesAt(j, st, c)
        => Ahead(i, s, OldCell(i, st, c).pos)

(* Only cells of one sequence are overwritten.                             *)
Singles ==
    \A i \in 1 .. Levels : \A st, c :
        /\ TakesAt(i, st, c)
        /\ i > Len(stack) => \A j \in 1 .. Len(stack) : ~TakesAt(j, st, c)
        => Single(OldCell(i, st, c))

(***************************************************************************)
(* The cells during a dry run.                                             *)
(***************************************************************************)
Trying == pc = "prepare" /\ rest # <<>>

(* The tokens that were tried are in their cells.                          *)
TriedIn ==
    Trying => \A j \in 1 .. Levels : \A st, c, s, p :
        /\ PutsAt(j, st, c, s, p) /\ s \notin hurt
        /\ \A k \in j + 1 .. Levels : ~TakesAt(k, st, c)
        => cells[st][c] = [pos |-> p, seqs |-> {s}]

(* Nothing else is added.                                                  *)
TriedBelow ==
    Trying => \A st \in Streams, c \in Cells : \A s \in cells[st][c].seqs :
        /\ seq_to_stream(s) = st
        /\ \/ cells[st][c].pos < decoded[s]
           \/ \E i \in 1 .. Levels : InLevel(i, s, cells[st][c].pos)

TriedApart == Trying => Apart(cells)

TriedSingles ==
    Trying => \A i \in 1 .. Levels : \A st, c : TakesAt(i, st, c) => Single(cells[st][c])

CacheInv == /\ Settled /\ PutIn /\ SafeTokens /\ SafeCells /\ Singles
            /\ TriedIn /\ TriedBelow /\ TriedApart /\ TriedSingles

-----------------------------------------------------------------------------
(* The copies of the recovery stack are of the cells that are taken.       *)
LEMMA CoversTakes ==
    ASSUME IsSequence(stack), StackType
    PROVE  \A i \in 1 .. Len(stack) : \A st, c : Covers(i, st, c) <=> TakesAt(i, st, c)
<1> SUFFICES ASSUME NEW i \in 1 .. Len(stack), NEW st, NEW c
             PROVE  Covers(i, st, c) <=> TakesAt(i, st, c)
  OBVIOUS
<1>1. i <= Len(stack)
  BY DEF IsSequence
<1>2. Ub(i) = stack[i].ub /\ Slot(i) = stack[i].idxs
  BY <1>1 DEF Ub, Slot
<1>3. st \in DOMAIN stack[i].ub => DOMAIN stack[i].old[st] = Range(stack[i].idxs[st])
  BY DEF StackType
<1> QED BY <1>2, <1>3 DEF Covers, TakesAt, Takes

(* The cells may differ from what is sound in hurt sequences that they     *)
(* lost.                                                                   *)
LEMMA SoundLess ==
    ASSUME NEW k, NEW b, Sound(b), unified \in BOOLEAN,
           \A st \in Streams, c \in Cells : Agree(k[st][c], b[st][c], hurt)
    PROVE  Sound(k)
<1>1. \A st \in Streams, c \in Cells : \A s \in k[st][c].seqs :
         s \in b[st][c].seqs /\ k[st][c].pos = b[st][c].pos
  BY DEF Agree
<1>2. \A st \in Streams, c \in Cells : \A s \in b[st][c].seqs : s \notin hurt => s \in k[st][c].seqs
  BY DEF Agree
<1>3. Below(k)
  BY <1>1 DEF Sound, Below
<1>4. Apart(k)
  <2> SUFFICES ASSUME NEW st \in Streams, NEW c \in Cells, NEW d \in Cells, NEW s,
                      s \in k[st][c].seqs, s \in k[st][d].seqs, k[st][c].pos = k[st][d].pos
               PROVE  c = d
    BY DEF Apart
  <2>1. s \in b[st][c].seqs /\ s \in b[st][d].seqs /\ b[st][c].pos = b[st][d].pos
    BY <1>1
  <2> QED BY <2>1 DEF Sound, Apart
<1>5. \A s \in Seqs : seq_to_stream(s) \in Streams
  BY DEF seq_to_stream, Streams
<1>6. \A s \in Seqs \ hurt : \A p : Has(k, s, p) <=> Has(b, s, p)
  <2>1. ASSUME NEW s \in Seqs \ hurt, NEW p, Has(k, s, p) PROVE Has(b, s, p)
    BY <1>1, <1>5, <2>1 DEF Has
  <2>2. ASSUME NEW s \in Seqs \ hurt, NEW p, Has(b, s, p) PROVE Has(k, s, p)
    <3>1. PICK c \in Cells : s \in b[seq_to_stream(s)][c].seqs /\ b[seq_to_stream(s)][c].pos = p
      BY <2>2 DEF Has
    <3>2. s \in k[seq_to_stream(s)][c].seqs
      BY <1>2, <1>5, <2>2, <3>1
    <3>3. k[seq_to_stream(s)][c].pos = p
      BY <1>1, <1>5, <2>2, <3>1, <3>2
    <3> QED BY <3>2, <3>3 DEF Has
  <2> QED BY <2>1, <2>2
<1>7. Kept(k)
  BY <1>6 DEF Sound, Kept
<1>8. Up(k)
  BY <1>6 DEF Sound, Up
<1> QED BY <1>3, <1>4, <1>7, <1>8 DEF Sound

(* What is sound stays so when nothing is computed and no sequence is      *)
(* healed.                                                                 *)
LEMMA SoundSame ==
    ASSUME NEW k, Sound(k), unified' = unified, decoded' = decoded, hurt \subseteq hurt',
           \A s, p : Computing(s, p) => Computing(s, p)'
    PROVE  Sound(k)'
<1>1. Streams' = Streams /\ Cells' = Cells /\ \A s : seq_to_stream(s)' = seq_to_stream(s)
  BY FrameLevel
<1>2. \A s, p : Has(k, s, p)' <=> Has(k, s, p)
  BY <1>1 DEF Has
<1>3. Below(k)'
  BY <1>1 DEF Sound, Below
<1>4. Apart(k)'
  BY <1>1 DEF Sound, Apart
<1>5. Kept(k)' /\ Up(k)'
  <2>1. \A s \in Seqs \ hurt' : s \in Seqs \ hurt
    OBVIOUS
  <2>2. Kept(k)'
    BY <1>2, <2>1 DEF Sound, Kept
  <2>3. Up(k)'
    BY <1>2, <2>1 DEF Sound, Up
  <2> QED BY <2>2, <2>3
<1> QED BY <1>3, <1>4, <1>5 DEF Sound

(* The cells after a step, as a value.                                     *)
LEMMA SoundCells ==
    /\ \A k : k = cells' /\ Sound(k)' => Sound(cells)'
    /\ \A k : k = before' /\ Sound(k)' => Sound(before)'
    /\ \A k : k = cells /\ Sound(cells) => Sound(k)
    /\ \A k : k = before /\ Sound(before) => Sound(k)
  BY DEF Sound, Below, Apart, Kept, Up, Has

(* No ubatch is in the cells that are not computed.                        *)
LEMMA NoneComputing == pc # "compute" => \A s, p : ~Computing(s, p)
  BY DEF Computing

-----------------------------------------------------------------------------
(* What the cells hold under every step.                                   *)

(* Between batches only the cells matter.                                  *)
LEMMA CacheIdle ==
    ASSUME pc' = "idle", stack' = <<>>, plan' = <<>>, Sound(cells)'
    PROVE  CacheInv'
<1>1. Levels' = 0 /\ (\A i : i \notin 1 .. Levels)'
  BY DEF Levels
<1>2. ~InDry' /\ ~Trying' /\ First' = 1
  BY DEF InDry, Trying, First
<1>3. Settled' /\ PutIn'
  BY <1>2 DEF Settled, PutIn, Computing
<1>4. SafeTokens' /\ SafeCells' /\ Singles'
  BY <1>1, <1>2 DEF SafeTokens, SafeCells, Singles
<1>5. TriedIn' /\ TriedBelow' /\ TriedApart' /\ TriedSingles'
  BY <1>2 DEF TriedIn, TriedBelow, TriedApart, TriedSingles
<1> QED BY <1>3, <1>4, <1>5 DEF CacheInv

(* A dry run starts.                                                       *)
LEMMA CacheStart ==
    ASSUME pc' = "prepare", stack' = <<>>, plan' = <<>>, Sound(cells)', Sound(before)'
    PROVE  CacheInv'
<1>1. Levels' = 0 /\ (\A i : i \notin 1 .. Levels)'
  BY DEF Levels
<1>2. InDry' /\ First' = 1 /\ (\A s, p : ~Computing(s, p))'
  BY DEF InDry, First, Computing
<1>3. Settled' /\ PutIn'
  BY <1>2 DEF Settled, PutIn
<1>4. SafeTokens' /\ SafeCells' /\ Singles'
  BY <1>1, <1>2 DEF SafeTokens, SafeCells, Singles
<1>5. TriedIn' /\ TriedSingles'
  BY <1>1 DEF TriedIn, TriedSingles
<1>6. TriedBelow' /\ TriedApart'
  BY <1>2 DEF TriedBelow, TriedApart, Sound, Below
<1> QED BY <1>3, <1>4, <1>5, <1>6 DEF CacheInv

(* When a dry run is undone the cells are as sound as before it.           *)
LEMMA SoundUndone ==
    ASSUME NEW k, unified \in BOOLEAN, before # <<>>, InDry, Settled,
           \A st \in Streams, c \in Cells : Agree(k[st][c], before[st][c], hurt),
           UNCHANGED <<unified, decoded, hurt>>, k = cells'
    PROVE  Sound(cells)'
<1>1. Sound(before)
  BY DEF Settled
<1>2. PICK b : b = before
  OBVIOUS
<1>3. Sound(b)
  BY <1>1, <1>2, SoundCells
<1>4. Sound(k)
  BY <1>2, <1>3, SoundLess
<1>5. \A s, p : ~Computing(s, p)
  BY DEF InDry, Computing
<1>6. Sound(k)'
  BY <1>4, <1>5, SoundSame
<1> QED BY <1>6, SoundCells

(* A batch comes.                                                          *)
LEMMA DecodeCache ==
    ASSUME DryRunInv, TypeInv, CacheInv, NEW b \in Batches, Decode(b)
    PROVE  CacheInv'
<1>1. /\ pc = "idle" /\ pc' = "prepare" /\ before' = cells
      /\ UNCHANGED <<unified, cells, stack, plan, decoded, hurt>>
  BY DEF Decode
<1>2. stack = <<>> /\ plan = <<>>
  BY <1>1 DEF TypeInv, Control, InDry
<1>3. Sound(cells)
  BY <1>1 DEF CacheInv, Settled, InDry
<1>4. PICK k : k = cells
  OBVIOUS
<1>5. Sound(k)
  BY <1>3, <1>4, SoundCells
<1>6. \A s, p : ~Computing(s, p)
  BY <1>1, NoneComputing
<1>7. Sound(k)'
  BY <1>1, <1>5, <1>6, SoundSame
<1>8. Sound(cells)' /\ Sound(before)'
  BY <1>1, <1>4, <1>7, SoundCells
<1> QED BY <1>1, <1>2, <1>8, CacheStart

(* The batch is split again.                                               *)
LEMMA SplitAgainCache ==
    ASSUME DryRunInv, TypeInv, CacheInv, SplitAgain
    PROVE  CacheInv'
<1>1. /\ pc = "failed" /\ pc' = "prepare" /\ stack = <<>> /\ stack' = <<>>
      /\ UNCHANGED <<unified, cells, plan, decoded, hurt, before>>
  BY DEF SplitAgain
<1>2. plan = <<>> /\ InDry /\ before # <<>>
  BY <1>1 DEF TypeInv, Control, InDry
<1>3. \A i : i \notin 1 .. Len(stack)
  BY <1>1
<1>4. \A st \in Streams, c \in Cells : Agree(cells[st][c], before[st][c], hurt)
  BY <1>2, <1>3 DEF DryRunInv, WouldUndo
<1>5. Sound(cells)'
  BY <1>1, <1>2, <1>4, SoundUndone DEF DryRunInv, CacheInv
<1>6. PICK b : b = before
  OBVIOUS
<1>7. Sound(b)
  BY <1>2, <1>6, SoundCells DEF CacheInv, Settled
<1>8. \A s, p : ~Computing(s, p)
  BY <1>1, NoneComputing
<1>9. Sound(b)'
  BY <1>1, <1>7, <1>8, SoundSame
<1>10. Sound(before)'
  BY <1>1, <1>6, <1>9, SoundCells
<1> QED BY <1>1, <1>2, <1>5, <1>10, CacheStart

(* The batch is given up.                                                  *)
LEMMA GiveUpCache ==
    ASSUME DryRunInv, TypeInv, CacheInv, GiveUp
    PROVE  CacheInv'
<1>1. /\ pc = "failed" /\ pc' = "idle" /\ stack = <<>> /\ stack' = <<>>
      /\ UNCHANGED <<unified, cells, plan, decoded, hurt, before>>
  BY DEF GiveUp
<1>2. plan = <<>> /\ InDry /\ before # <<>>
  BY <1>1 DEF TypeInv, Control, InDry
<1>3. \A i : i \notin 1 .. Len(stack)
  BY <1>1
<1>4. \A st \in Streams, c \in Cells : Agree(cells[st][c], before[st][c], hurt)
  BY <1>2, <1>3 DEF DryRunInv, WouldUndo
<1>5. Sound(cells)'
  BY <1>1, <1>2, <1>4, SoundUndone DEF DryRunInv, CacheInv
<1> QED BY <1>1, <1>2, <1>5, CacheIdle

(* The ubatches are the same as far as they remain.                        *)
LEMMA LevelFacts ==
    ASSUME NEW i, Ub(i)' = Ub(i), Slot(i)' = Slot(i)
    PROVE  /\ \A st, c : TakesAt(i, st, c)' <=> TakesAt(i, st, c)
           /\ \A st, c, s, p : PutsAt(i, st, c, s, p)' <=> PutsAt(i, st, c, s, p)
           /\ \A s, p : InLevel(i, s, p)' <=> InLevel(i, s, p)
  BY DEF TakesAt, Takes, PutsAt, Puts, InLevel, TokenSet

(* A ubatch does not fit.                                                  *)
LEMMA NoSlotCache ==
    ASSUME DryRunInv, TypeInv, CacheInv, NoSlot
    PROVE  CacheInv'
<1>1. /\ pc = "prepare" /\ pc' = "failed"
      /\ UNCHANGED <<unified, cells, stack, plan, decoded, hurt, before>>
  BY DEF NoSlot, batchVars
<1>2. InDry /\ InDry' /\ ~Trying' /\ (\A s, p : ~Computing(s, p)) /\ (\A s, p : ~Computing(s, p))'
  BY <1>1 DEF InDry, Trying, Computing
<1>3. PICK b : b = before
  OBVIOUS
<1>4. Sound(b)
  BY <1>2, <1>3, SoundCells DEF CacheInv, Settled
<1>5. Sound(b)'
  BY <1>1, <1>2, <1>4, SoundSame
<1>6. Settled' /\ PutIn'
  BY <1>1, <1>2, <1>3, <1>5, SoundCells DEF Settled, PutIn
<1>7. SafeTokens' /\ SafeCells'
  BY <1>1 DEF SafeTokens, SafeCells
<1>8. Singles'
  <2>1. Levels' = Levels /\ \A i : Ub(i)' = Ub(i) /\ Slot(i)' = Slot(i)
    BY <1>1, LevelsSame
  <2>2. \A i : \A st, c : TakesAt(i, st, c)' <=> TakesAt(i, st, c)
    BY <2>1 DEF TakesAt, Takes
  <2>3. \A i, st, c : OldCell(i, st, c)' = OldCell(i, st, c)
    BY <1>1 DEF OldCell
  <2>4. Singles
    BY DEF CacheInv
  <2> QED BY <1>1, <2>1, <2>2, <2>3, <2>4 DEF Singles, Single
<1>9. TriedIn' /\ TriedBelow' /\ TriedApart' /\ TriedSingles'
  BY <1>2 DEF TriedIn, TriedBelow, TriedApart, TriedSingles
<1> QED BY <1>6, <1>7, <1>8, <1>9 DEF CacheInv

(* The copies that stay on the recovery stack.                             *)
LEMMA StackRest ==
    ASSUME IsSequence(stack), stack # <<>>, stack' = Others
    PROVE  /\ Len(stack) \in Nat \ {0} /\ Len(stack') = Len(stack) - 1
           /\ \A i \in 1 .. Len(stack) - 1 : stack'[i] = stack[i]
           /\ Len(stack) = 1 => stack' = <<>>
  BY Popped DEF Others, Top

(* A level is put back after a failure.                                    *)
LEMMA UndoFailedCache ==
    ASSUME DryRunInv, DryRunInv', TypeInv, CacheInv, UndoFailed
    PROVE  CacheInv'
<1>1. /\ pc = "failed" /\ pc' = "failed" /\ stack # <<>> /\ stack' = Others
      /\ UNCHANGED <<unified, plan, decoded, hurt, before>>
  BY DEF UndoFailed, PutBack
<1>2. InDry /\ InDry' /\ ~Trying' /\ (\A s, p : ~Computing(s, p)) /\ (\A s, p : ~Computing(s, p))'
  BY <1>1 DEF InDry, Trying, Computing
<1>3. PICK b : b = before
  OBVIOUS
<1>4. Sound(b)
  BY <1>2, <1>3, SoundCells DEF CacheInv, Settled
<1>5. Sound(b)'
  BY <1>1, <1>2, <1>4, SoundSame
<1>6. Settled' /\ PutIn'
  BY <1>1, <1>2, <1>3, <1>5, SoundCells DEF Settled, PutIn
<1>7. SafeTokens' /\ SafeCells'
  BY <1>1 DEF SafeTokens, SafeCells
<1>8. Singles'
  <2>1. plan = <<>> /\ IsSequence(stack)
    BY <1>1 DEF TypeInv, Control, DryRunInv
  <2>2. /\ Levels \in Nat /\ Levels' = Levels - 1
        /\ \A i \in 1 .. Levels - 1 : Ub(i)' = Ub(i) /\ Slot(i)' = Slot(i)
    BY <1>1, <2>1, LevelsDrop
  <2>3. /\ Len(stack) \in Nat \ {0} /\ Len(stack') = Len(stack) - 1
        /\ \A i \in 1 .. Len(stack) - 1 : stack'[i] = stack[i]
    BY <1>1, <2>1, StackRest
  <2>4. Levels = Len(stack)
    BY <2>1, <2>3 DEF Levels
  <2> SUFFICES ASSUME NEW i \in 1 .. Levels - 1, NEW st, NEW c, TakesAt(i, st, c)'
               PROVE  Single(OldCell(i, st, c)')
    BY <2>2 DEF Singles, Single
  <2>5. TakesAt(i, st, c)
    BY <2>2, LevelFacts
  <2>6. i <= Len(stack) /\ i <= Len(stack') /\ stack'[i] = stack[i] /\ i \in 1 .. Levels /\ ~(i > Len(stack))
    BY <2>2, <2>3, <2>4
  <2>7. OldCell(i, st, c)' = OldCell(i, st, c)
    BY <2>6 DEF OldCell
  <2>8. Single(OldCell(i, st, c))
    BY <2>5, <2>6 DEF CacheInv, Singles
  <2> QED BY <2>7, <2>8
<1>9. TriedIn' /\ TriedBelow' /\ TriedApart' /\ TriedSingles'
  BY <1>2 DEF TriedIn, TriedBelow, TriedApart, TriedSingles
<1> QED BY <1>6, <1>7, <1>8, <1>9 DEF CacheInv

(* Positions out of reach of the ubatches stay so.                         *)
LEMMA AheadSame ==
    ASSUME NEW i, decoded' = decoded,
           \A k \in 1 .. i - 1 : \A s, p : InLevel(k, s, p)' <=> InLevel(k, s, p)
    PROVE  \A s, q : Ahead(i, s, q) <=> Ahead(i, s, q)'
  BY DEF Ahead

(* A level is put back and becomes part of the plan.                       *)
LEMMA UndoCache ==
    ASSUME DryRunInv, DryRunInv', TypeInv, CacheInv, Undo
    PROVE  CacheInv'
<1>1. /\ pc = "prepare" /\ rest = <<>> /\ stack # <<>> /\ PutBack /\ stack' = Others
      /\ plan' = <<[ub |-> Top.ub, idxs |-> Top.idxs]>> \o plan
      /\ UNCHANGED <<unified, rest, decoded, hurt, before>>
      /\ Len(stack) = 1 => pc' = "apply"
      /\ Len(stack) # 1 => pc' = "prepare"
  BY DEF Undo, PutBack
<1>2. InDry /\ before # <<>> /\ IsSequence(plan) /\ IsSequence(stack)
  BY <1>1 DEF InDry, TypeInv, Control, PlanType, DryRunInv
<1>3. ~Trying' /\ (\A s, p : ~Computing(s, p)) /\ (\A s, p : ~Computing(s, p))'
      /\ First = 1 /\ First' = 1
  BY <1>1 DEF Trying, Computing, First
<1>4. PICK n : n = Len(stack)
  OBVIOUS
<1>5. /\ n \in Nat \ {0} /\ Len(stack') = n - 1
      /\ \A i \in 1 .. n - 1 : stack'[i] = stack[i]
      /\ n = 1 => stack' = <<>>
  BY <1>1, <1>2, <1>4, StackRest
<1>6. /\ Levels \in Nat /\ Levels' = Levels
      /\ \A i \in 1 .. Levels : Ub(i)' = Ub(i) /\ Slot(i)' = Slot(i)
  BY <1>1, <1>2, LevelsUndo
<1>7. n <= Levels
  BY <1>2, <1>4, <1>5 DEF Levels, IsSequence
<1>8. \A st \in Streams, c \in Cells :
         /\ Covers(n, st, c) => cells'[st][c] = stack[n].old[st][c]
         /\ ~Covers(n, st, c) => cells'[st][c] = cells[st][c]
  BY <1>1, <1>4, PutBackType DEF TypeInv, ScalarType
<1>9. \A i \in 1 .. Levels :
         /\ \A st, c : TakesAt(i, st, c)' <=> TakesAt(i, st, c)
         /\ \A st, c, s, p : PutsAt(i, st, c, s, p)' <=> PutsAt(i, st, c, s, p)
         /\ \A s, p : InLevel(i, s, p)' <=> InLevel(i, s, p)
  BY <1>6, LevelFacts
<1>10. \A i \in 1 .. Levels : \A s, q : Ahead(i, s, q) <=> Ahead(i, s, q)'
  <2> SUFFICES ASSUME NEW i \in 1 .. Levels PROVE \A s, q : Ahead(i, s, q) <=> Ahead(i, s, q)'
    OBVIOUS
  <2>1. \A k \in 1 .. i - 1 : k \in 1 .. Levels
    BY <1>6
  <2> QED BY <1>1, <1>9, <2>1, AheadSame
<1>11. \A i \in 1 .. Levels : \A st, c : TakesAt(i, st, c) => st \in Streams /\ c \in Cells
  <2>1. \A i \in 1 .. Levels : IsLevel(Ub(i), Slot(i))
    BY <1>2, LevelsGood DEF TypeInv
  <2> QED BY <2>1, SlotRelation DEF TakesAt
<1>12. \A i \in 1 .. n : \A st, c : Covers(i, st, c) <=> TakesAt(i, st, c)
  BY <1>2, <1>4, CoversTakes DEF TypeInv
<1>13. \A i \in 1 .. n : \A st, c : TakesAt(i, st, c) => OldCell(i, st, c)' = OldCell(i, st, c)
  <2> SUFFICES ASSUME NEW i \in 1 .. n, NEW st, NEW c, TakesAt(i, st, c)
               PROVE  OldCell(i, st, c)' = OldCell(i, st, c)
    OBVIOUS
  <2>1. OldCell(i, st, c) = stack[i].old[st][c]
    BY <1>4, <1>5 DEF OldCell
  <2>2. CASE i = n
    <3>1. ~(i <= Len(stack'))
      BY <1>5, <2>2
    <3>2. OldCell(i, st, c)' = cells'[st][c]
      BY <3>1 DEF OldCell
    <3>3. cells'[st][c] = stack[n].old[st][c]
      BY <1>5, <1>7, <1>8, <1>11, <1>12, <2>2
    <3> QED BY <2>1, <2>2, <3>2, <3>3
  <2>3. CASE i # n
    <3>1. i <= Len(stack') /\ stack'[i] = stack[i]
      BY <1>5, <2>3
    <3> QED BY <2>1, <3>1 DEF OldCell
  <2> QED BY <2>2, <2>3
<1>14. \A i \in n + 1 .. Levels : \A st, c : TakesAt(i, st, c) =>
         /\ OldCell(i, st, c) = cells[st][c] /\ OldCell(i, st, c)' = cells'[st][c]
         /\ ~TakesAt(n, st, c) => cells'[st][c] = cells[st][c]
         /\ TakesAt(n, st, c) => cells'[st][c] = OldCell(n, st, c)
  <2> SUFFICES ASSUME NEW i \in n + 1 .. Levels, NEW st, NEW c, TakesAt(i, st, c)
               PROVE /\ OldCell(i, st, c) = cells[st][c] /\ OldCell(i, st, c)' = cells'[st][c]
                     /\ ~TakesAt(n, st, c) => cells'[st][c] = cells[st][c]
                     /\ TakesAt(n, st, c) => cells'[st][c] = OldCell(n, st, c)
    OBVIOUS
  <2>1. ~(i <= Len(stack)) /\ ~(i <= Len(stack')) /\ i \in 1 .. Levels /\ n \in 1 .. n
    BY <1>4, <1>5, <1>6
  <2>2. st \in Streams /\ c \in Cells
    BY <1>11, <2>1
  <2>3. OldCell(n, st, c) = stack[n].old[st][c]
    BY <1>4, <1>5 DEF OldCell
  <2> QED BY <1>8, <1>12, <2>1, <2>2, <2>3 DEF OldCell
<1>15. Settled' /\ PutIn'
  <2>1. PutIn'
    BY <1>3 DEF PutIn
  <2>2. CASE n = 1
    <3>1. (\A i : i \notin 1 .. Len(stack))' /\ before' # <<>> /\ ~InDry'
      BY <1>1, <1>2, <1>4, <1>5, <2>2 DEF InDry
    <3>2. \A st \in Streams', c \in Cells' : Agree(cells'[st][c], before'[st][c], hurt')
      BY <3>1 DEF DryRunInv, WouldUndo
    <3>3. PICK k : k = cells'
      OBVIOUS
    <3>4. \A st \in Streams, c \in Cells : Agree(k[st][c], before[st][c], hurt)
      BY <1>1, <3>2, <3>3, Frame
    <3>5. Sound(cells)'
      BY <1>1, <1>2, <3>3, <3>4, SoundUndone DEF DryRunInv, CacheInv
    <3> QED BY <2>1, <3>1, <3>5 DEF Settled
  <2>3. CASE n # 1
    <3>1. InDry'
      BY <1>1, <1>4, <2>3 DEF InDry
    <3>2. PICK b : b = before
      OBVIOUS
    <3>3. Sound(b)
      BY <1>2, <3>2, SoundCells DEF CacheInv, Settled
    <3>4. Sound(b)'
      BY <1>1, <1>3, <3>3, SoundSame
    <3> QED BY <1>1, <2>1, <3>1, <3>2, <3>4, SoundCells DEF Settled
  <2> QED BY <2>2, <2>3
<1>16. SafeTokens'
  <2> SUFFICES ASSUME NEW i \in 1 .. Levels, NEW j \in 1 .. i - 1, NEW st, NEW c, NEW s, NEW p,
                      TakesAt(i, st, c)', PutsAt(j, st, c, s, p)',
                      \A k \in j + 1 .. i - 1 : ~TakesAt(k, st, c)', s \notin hurt'
               PROVE  Ahead(i, s, p)'
    BY <1>3, <1>6 DEF SafeTokens
  <2>1. j \in 1 .. Levels /\ \A k \in j + 1 .. i - 1 : k \in 1 .. Levels
    BY <1>6
  <2>2. TakesAt(i, st, c) /\ PutsAt(j, st, c, s, p) /\ (\A k \in j + 1 .. i - 1 : ~TakesAt(k, st, c))
    BY <1>9, <2>1
  <2>3. Ahead(i, s, p)
    BY <1>1, <1>3, <2>2 DEF CacheInv, SafeTokens
  <2> QED BY <1>10, <2>3
<1>17. SafeCells'
  <2> SUFFICES ASSUME NEW i \in 1 .. Levels, NEW st, NEW c, NEW x, x = OldCell(i, st, c)',
                      NEW s \in x.seqs, TakesAt(i, st, c)', s \notin hurt',
                      \A j \in 1 .. i - 1 : ~TakesAt(j, st, c)'
               PROVE  Ahead(i, s, x.pos)'
    BY <1>3, <1>6 DEF SafeCells
  <2>1. \A j \in 1 .. i - 1 : j \in 1 .. Levels
    BY <1>6
  <2>2. TakesAt(i, st, c) /\ \A j \in 1 .. i - 1 : ~TakesAt(j, st, c)
    BY <1>9, <2>1
  <2>3. OldCell(i, st, c)' = OldCell(i, st, c)
    <3>1. CASE i <= n
      BY <1>5, <1>13, <2>2, <3>1
    <3>2. CASE ~(i <= n)
      <4>1. i \in n + 1 .. Levels /\ n \in 1 .. i - 1
        BY <1>5, <1>6, <3>2
      <4> QED BY <1>14, <2>2, <4>1
    <3> QED BY <3>1, <3>2
  <2>4. Ahead(i, s, OldCell(i, st, c).pos)
    BY <1>1, <1>3, <2>2, <2>3 DEF CacheInv, SafeCells
  <2> QED BY <1>10, <2>3, <2>4
<1>18. Singles'
  <2> SUFFICES ASSUME NEW i \in 1 .. Levels, NEW st, NEW c, TakesAt(i, st, c)',
                      (i > Len(stack) => \A j \in 1 .. Len(stack) : ~TakesAt(j, st, c))'
               PROVE  Single(OldCell(i, st, c)')
    BY <1>6 DEF Singles, Single
  <2>1. TakesAt(i, st, c)
    BY <1>9
  <2>2. Singles
    BY DEF CacheInv
  <2>3. CASE i <= n
    <3>1. Single(OldCell(i, st, c))
      BY <1>4, <1>5, <2>1, <2>2, <2>3 DEF Singles
    <3> QED BY <1>5, <1>13, <2>1, <2>3, <3>1
  <2>4. CASE ~(i <= n)
    <3>1. i \in n + 1 .. Levels /\ n \in 1 .. Levels /\ i > Len(stack')
      BY <1>5, <1>6, <2>4
    <3>2. CASE TakesAt(n, st, c)
      <4>1. Single(OldCell(n, st, c))
        BY <1>4, <1>5, <3>1, <3>2, <2>2 DEF Singles
      <4> QED BY <1>14, <2>1, <3>1, <3>2, <4>1
    <3>3. CASE ~TakesAt(n, st, c)
      <4>1. \A j \in 1 .. n - 1 : ~TakesAt(j, st, c)
        <5>1. \A j \in 1 .. n - 1 : ~TakesAt(j, st, c)'
          BY <1>5, <3>1
        <5>2. \A j \in 1 .. n - 1 : j \in 1 .. Levels
          BY <1>5, <1>6, <1>7
        <5> QED BY <1>9, <5>1, <5>2
      <4>2. \A j \in 1 .. n : ~TakesAt(j, st, c)
        <5>1. \A j \in 1 .. n : j = n \/ j \in 1 .. n - 1
          BY <1>5
        <5> QED BY <3>3, <4>1, <5>1
      <4>3. Single(OldCell(i, st, c))
        BY <1>4, <2>1, <2>2, <4>2 DEF Singles
      <4> QED BY <1>14, <2>1, <3>1, <3>3, <4>3
    <3> QED BY <3>2, <3>3
  <2> QED BY <2>3, <2>4
<1>19. TriedIn' /\ TriedBelow' /\ TriedApart' /\ TriedSingles'
  BY <1>3 DEF TriedIn, TriedBelow, TriedApart, TriedSingles
<1> QED BY <1>15, <1>16, <1>17, <1>18, <1>19 DEF CacheInv

(* What a cell holds after apply_ubatch is a token of the ubatch or was    *)
(* there before.                                                           *)
LEMMA AppliedSource ==
    ASSUME NEW ub, NEW ix, IsLevel(ub, ix), apply_ubatch(ub, ix),
           \A st \in Streams, c \in Cells : GoodCell(cells[st][c]),
           NEW st \in Streams, NEW c \in Cells, NEW s \in cells'[st][c].seqs
    PROVE  \/ Puts(ub, ix, st, c, s, cells'[st][c].pos)
           \/ /\ ~Takes(ub, ix, st, c) /\ s \in cells[st][c].seqs
              /\ cells'[st][c].pos = cells[st][c].pos
<1>1. PICK x, y : x = cells[st][c] /\ y = cells'[st][c]
  OBVIOUS
<1>2. /\ \A r, p : Puts(ub, ix, st, c, r, p) =>
            /\ y.seqs \subseteq {r}
            /\ y.seqs # {} => y.pos = p
      /\ ~Takes(ub, ix, st, c) => Less(y, x)
  <2>1. /\ GoodCell(cells'[st][c])
        /\ \A r, p : Puts(ub, ix, st, c, r, p) =>
              /\ cells'[st][c].seqs \subseteq {r}
              /\ cells'[st][c].seqs # {} => cells'[st][c].pos = p
              /\ Behind(ub, ix, st, r, p) => cells'[st][c] = [pos |-> p, seqs |-> {r}]
        /\ ~Takes(ub, ix, st, c) =>
              /\ Less(cells'[st][c], cells[st][c])
              /\ \A r \in cells[st][c].seqs :
                    r \in cells'[st][c].seqs <=> Behind(ub, ix, st, r, cells[st][c].pos)
        /\ st \notin DOMAIN ub => cells'[st] = cells[st]
    BY Applied
  <2> QED BY <1>1, <2>1
<1>3. s \in y.seqs
  BY <1>1
<1>4. CASE Takes(ub, ix, st, c)
  <2>1. PICK r \in Seqs, p \in Positions : Puts(ub, ix, st, c, r, p)
    BY <1>4, SlotRelation
  <2>2. y.seqs \subseteq {r} /\ (y.seqs # {} => y.pos = p)
    BY <1>2, <2>1
  <2>3. r = s /\ y.pos = p
    BY <1>3, <2>2
  <2> QED BY <1>1, <2>1, <2>3
<1>5. CASE ~Takes(ub, ix, st, c)
  BY <1>1, <1>2, <1>3, <1>5 DEF Less
<1> QED BY <1>4, <1>5

(* The first ubatch of the plan is applied: nothing of a window is lost.   *)
LEMMA ApplySound ==
    ASSUME DryRunInv, TypeInv, CacheInv, Apply
    PROVE  /\ Below(cells)' /\ Apart(cells)' /\ Kept(cells)' /\ Up(cells)' /\ PutIn'
<1>1. /\ pc = "apply" /\ pc' = "compute"
      /\ apply_ubatch(plan[1].ub, plan[1].idxs)
      /\ UNCHANGED <<unified, stack, plan, decoded, hurt>>
  BY DEF Apply, batchVars
<1>2. /\ stack = <<>> /\ plan # <<>> /\ IsSequence(plan) /\ Len(plan) \in Nat /\ Len(plan) > 0
  BY <1>1 DEF TypeInv, Control, InDry, PlanType, IsSequence
<1>3. PICK ub, ix : ub = Ub(1) /\ ix = Slot(1)
  OBVIOUS
<1>4. ub = plan[1].ub /\ ix = plan[1].idxs /\ Levels = Len(plan)
  BY <1>2, <1>3 DEF Ub, Slot, Levels
<1>5. IsLevel(ub, ix) /\ apply_ubatch(ub, ix)
  BY <1>1, <1>2, <1>4 DEF TypeInv, PlanType
<1>6. \A s, p : InLevel(1, s, p) <=> <<s, p>> \in TokenSet(ub)
  BY <1>3 DEF InLevel
<1>7. \A s, p : Computing(s, p)' <=> <<s, p>> \in TokenSet(ub)
  <2>1. Ub(1)' = Ub(1)
    BY <1>1 DEF Ub
  <2> QED BY <1>1, <1>3, <2>1 DEF Computing, InLevel, TokenSet
<1>8. \A s \in Seqs, p \in Positions : <<s, p>> \in TokenSet(ub) => p >= decoded[s]
  <2>1. 1 \in 1 .. Levels
    BY <1>2, <1>4
  <2> QED BY <1>1, <1>6, <2>1 DEF TypeInv, InOrder, IsTodo
<1>9. \A st \in Streams, c \in Cells : GoodCell(cells[st][c])
  BY DEF TypeInv, CellsGood
<1>10. /\ Streams' = Streams /\ Cells' = Cells /\ \A s : seq_to_stream(s)' = seq_to_stream(s)
  BY <1>1, FrameLevel
<1>11. \A st \in Streams, c \in Cells :
         /\ GoodCell(cells'[st][c])
         /\ \A s, p : Puts(ub, ix, st, c, s, p) =>
               /\ cells'[st][c].seqs \subseteq {s}
               /\ cells'[st][c].seqs # {} => cells'[st][c].pos = p
               /\ Behind(ub, ix, st, s, p) => cells'[st][c] = [pos |-> p, seqs |-> {s}]
         /\ ~Takes(ub, ix, st, c) =>
               /\ Less(cells'[st][c], cells[st][c])
               /\ \A s \in cells[st][c].seqs :
                     s \in cells'[st][c].seqs <=> Behind(ub, ix, st, s, cells[st][c].pos)
  BY <1>5, <1>9, Applied
<1>12. /\ \A st, c, s, p : Puts(ub, ix, st, c, s, p) =>
             /\ Takes(ub, ix, st, c) /\ <<s, p>> \in TokenSet(ub) /\ st \in Streams
             /\ c \in Cells /\ s \in Seqs /\ p \in Positions /\ seq_to_stream(s) = st
       /\ \A st, c : Takes(ub, ix, st, c) =>
             st \in Streams /\ c \in Cells /\ \E s \in Seqs, p \in Positions : Puts(ub, ix, st, c, s, p)
       /\ \A s, p : <<s, p>> \in TokenSet(ub) =>
             \E c \in Cells : Puts(ub, ix, seq_to_stream(s), c, s, p)
       /\ \A st, c, d, s, p : Puts(ub, ix, st, c, s, p) /\ Puts(ub, ix, st, d, s, p) => c = d
  BY <1>5, SlotRelation
<1>13. Sound(cells) /\ \A s, p : ~Computing(s, p)
  BY <1>1 DEF CacheInv, Settled, InDry, Computing
<1>14. \A st \in Streams, c \in Cells : \A s \in cells[st][c].seqs :
          /\ s \in Seqs /\ seq_to_stream(s) = st
          /\ cells[st][c].pos < decoded[s] /\ cells[st][c].pos \in Positions
  BY <1>9, <1>13, GoodEmpty DEF Sound, Below
<1>15. \A s \in Seqs : decoded[s] \in 0 .. MaxLen
  BY DEF TypeInv, ScalarType
<1>16. MaxLen \in Nat /\ NSwa \in Nat \ {0}
  BY PlaceAssumption
<1>17. \A st, c : Takes(ub, ix, st, c) <=> TakesAt(1, st, c)
  BY <1>3 DEF TakesAt
<1>18. \A st \in Streams, c \in Cells : Takes(ub, ix, st, c) =>
         /\ Single(cells[st][c])
         /\ \A s \in cells[st][c].seqs \ hurt : cells[st][c].pos + NSwa <= decoded[s]
  <2> SUFFICES ASSUME NEW st \in Streams, NEW c \in Cells, TakesAt(1, st, c)
               PROVE  /\ Single(cells[st][c])
                      /\ \A s \in cells[st][c].seqs \ hurt : cells[st][c].pos + NSwa <= decoded[s]
    BY <1>17
  <2>1. OldCell(1, st, c) = cells[st][c] /\ First = 1 /\ 1 \in 1 .. Levels /\ Len(stack) = 0
    BY <1>1, <1>2, <1>4 DEF OldCell, First
  <2>2. Single(cells[st][c])
    BY <2>1 DEF CacheInv, Singles
  <2>3. \A s \in cells[st][c].seqs \ hurt : Ahead(1, s, cells[st][c].pos)
    BY <1>1, <2>1 DEF CacheInv, SafeCells
  <2>4. ASSUME NEW s \in cells[st][c].seqs \ hurt PROVE cells[st][c].pos + NSwa <= decoded[s]
    <3>1. decoded[s] \in decoded[s] .. MaxLen
      BY <1>14, <1>15, <1>16
    <3> QED BY <2>3, <3>1 DEF Ahead
  <2> QED BY <2>2, <2>4
<1>19. \A st \in Streams, c \in Cells : \A s \in cells'[st][c].seqs :
         \/ Puts(ub, ix, st, c, s, cells'[st][c].pos)
         \/ /\ ~Takes(ub, ix, st, c) /\ s \in cells[st][c].seqs
            /\ cells'[st][c].pos = cells[st][c].pos
  BY <1>5, <1>9, AppliedSource
<1>20. Below(cells)'
  <2> SUFFICES ASSUME NEW st \in Streams, NEW c \in Cells, NEW s \in cells'[st][c].seqs, NEW q,
                      q = cells'[st][c].pos
               PROVE  seq_to_stream(s) = st /\ (q < decoded[s] \/ <<s, q>> \in TokenSet(ub))
    BY <1>1, <1>7, <1>10 DEF Below
  <2> QED BY <1>12, <1>14, <1>19
<1>21. Apart(cells)'
  <2> SUFFICES ASSUME NEW st \in Streams, NEW c \in Cells, NEW d \in Cells, NEW s,
                      s \in cells'[st][c].seqs, s \in cells'[st][d].seqs,
                      cells'[st][c].pos = cells'[st][d].pos
               PROVE  c = d
    BY <1>10 DEF Apart
  <2>1. PICK p : p = cells'[st][c].pos
    OBVIOUS
  <2>2. \/ Puts(ub, ix, st, c, s, p)
        \/ s \in cells[st][c].seqs /\ p = cells[st][c].pos
    BY <1>19, <2>1
  <2>3. \/ Puts(ub, ix, st, d, s, p)
        \/ s \in cells[st][d].seqs /\ p = cells[st][d].pos
    BY <1>19, <2>1
  <2>4. Puts(ub, ix, st, c, s, p) \/ Puts(ub, ix, st, d, s, p) => p >= decoded[s] /\ p \in Positions /\ s \in Seqs
    BY <1>8, <1>12
  <2>5. s \in cells[st][c].seqs /\ p = cells[st][c].pos => p < decoded[s] /\ p \in Positions /\ s \in Seqs
    BY <1>14
  <2>6. s \in cells[st][d].seqs /\ p = cells[st][d].pos => p < decoded[s] /\ p \in Positions /\ s \in Seqs
    BY <1>14
  <2>7. s \in Seqs => ~(p \in Positions /\ p < decoded[s] /\ p >= decoded[s])
    BY <1>15 DEF Positions
  <2>8. CASE Puts(ub, ix, st, c, s, p) /\ Puts(ub, ix, st, d, s, p)
    BY <1>12, <2>8
  <2>9. CASE s \in cells[st][c].seqs /\ p = cells[st][c].pos /\ s \in cells[st][d].seqs /\ p = cells[st][d].pos
    BY <1>13, <2>9 DEF Sound, Apart
  <2> QED BY <2>2, <2>3, <2>4, <2>5, <2>6, <2>7, <2>8, <2>9
<1>22. Kept(cells)'
  <2> SUFFICES ASSUME NEW s \in Seqs \ hurt, NEW q \in 0 .. decoded[s] - 1, q + NSwa > decoded[s]
               PROVE  Has(cells, s, q)'
    BY <1>1 DEF Kept
  <2>1. PICK c \in Cells : s \in cells[seq_to_stream(s)][c].seqs /\ cells[seq_to_stream(s)][c].pos = q
    BY <1>13 DEF Sound, Kept, Has
  <2>2. PICK st \in Streams : st = seq_to_stream(s)
    BY DEF Streams, seq_to_stream
  <2>3. s \in cells[st][c].seqs /\ cells[st][c].pos = q
    BY <2>1, <2>2
  <2>4. ~Takes(ub, ix, st, c)
    BY <1>15, <1>16, <1>18, <2>3
  <2>5. Behind(ub, ix, st, s, q)
    <3> SUFFICES ASSUME NEW d \in Cells, Takes(ub, ix, st, d), cells[st][d].seqs = {s}
                 PROVE  cells[st][d].pos < q
      BY DEF Behind
    <3>1. cells[st][d].pos + NSwa <= decoded[s]
      BY <1>18
    <3>2. cells[st][d].pos \in Int
      BY <1>14 DEF Positions
    <3> QED BY <1>15, <1>16, <3>1, <3>2
  <2>6. s \in cells'[st][c].seqs /\ cells'[st][c].pos = q
    BY <1>11, <2>3, <2>4, <2>5 DEF Less
  <2> QED BY <1>10, <2>2, <2>6 DEF Has
<1>23. Up(cells)'
  <2> SUFFICES ASSUME NEW s \in Seqs \ hurt, NEW p \in Positions, Has(cells, s, p)',
                      NEW q \in p .. decoded[s] - 1
               PROVE  Has(cells, s, q)'
    BY <1>1 DEF Up
  <2>1. PICK st \in Streams : st = seq_to_stream(s)
    BY DEF Streams, seq_to_stream
  <2>2. PICK c \in Cells : s \in cells'[st][c].seqs /\ cells'[st][c].pos = p
    BY <1>10, <2>1 DEF Has
  <2>3. p \in Int /\ q \in Int /\ p <= q /\ q < decoded[s] /\ ~(p >= decoded[s])
    BY <1>15 DEF Positions
  <2>4. ~Puts(ub, ix, st, c, s, p)
    BY <1>8, <1>12, <2>3
  <2>5. ~Takes(ub, ix, st, c) /\ s \in cells[st][c].seqs /\ cells[st][c].pos = p
    BY <1>19, <2>2, <2>4
  <2>6. Behind(ub, ix, st, s, p)
    BY <1>11, <2>2, <2>5
  <2>7. Has(cells, s, p)
    BY <2>1, <2>5 DEF Has
  <2>8. PICK d \in Cells : s \in cells[st][d].seqs /\ cells[st][d].pos = q
    BY <1>13, <2>1, <2>7 DEF Sound, Up, Has
  <2>9. ~Takes(ub, ix, st, d)
    <3> SUFFICES ASSUME Takes(ub, ix, st, d) PROVE FALSE
      OBVIOUS
    <3>1. cells[st][d].seqs = {s}
      BY <1>18, <2>8 DEF Single
    <3>2. q < p
      BY <2>6, <2>8, <3>1 DEF Behind
    <3> QED BY <2>3, <3>2
  <2>10. Behind(ub, ix, st, s, q)
    <3> SUFFICES ASSUME NEW e \in Cells, Takes(ub, ix, st, e), cells[st][e].seqs = {s}
                 PROVE  cells[st][e].pos < q
      BY DEF Behind
    <3>1. cells[st][e].pos < p
      BY <2>6 DEF Behind
    <3>2. cells[st][e].pos \in Int
      BY <1>14 DEF Positions
    <3> QED BY <2>3, <3>1, <3>2
  <2>11. s \in cells'[st][d].seqs /\ cells'[st][d].pos = q
    BY <1>11, <2>8, <2>9, <2>10 DEF Less
  <2> QED BY <1>10, <2>1, <2>11 DEF Has
<1>24. PutIn'
  <2> SUFFICES ASSUME NEW s, NEW p, <<s, p>> \in TokenSet(ub)
               PROVE  Has(cells, s, p)'
    BY <1>7 DEF PutIn
  <2>1. PICK c \in Cells : Puts(ub, ix, seq_to_stream(s), c, s, p)
    BY <1>12
  <2>2. PICK st \in Streams : st = seq_to_stream(s)
    BY <1>12, <2>1
  <2>3. Puts(ub, ix, st, c, s, p) /\ s \in Seqs /\ p \in Positions /\ p >= decoded[s]
    BY <1>8, <1>12, <2>1, <2>2
  <2>4. Behind(ub, ix, st, s, p)
    <3> SUFFICES ASSUME NEW e \in Cells, Takes(ub, ix, st, e), cells[st][e].seqs = {s}
                 PROVE  cells[st][e].pos < p
      BY DEF Behind
    <3>1. cells[st][e].pos < decoded[s] /\ cells[st][e].pos \in Int
      BY <1>14 DEF Positions
    <3> QED BY <1>15, <2>3, <3>1 DEF Positions
  <2>5. cells'[st][c] = [pos |-> p, seqs |-> {s}]
    BY <1>11, <2>3, <2>4
  <2>6. s \in cells'[st][c].seqs /\ cells'[st][c].pos = p
    BY <2>5
  <2> QED BY <1>10, <2>2, <2>6 DEF Has
<1> QED BY <1>20, <1>21, <1>22, <1>23, <1>24

(* The first ubatch of the plan is applied.                                *)
LEMMA ApplyCache ==
    ASSUME DryRunInv, TypeInv, CacheInv, Apply
    PROVE  CacheInv'
<1>1. /\ pc = "apply" /\ pc' = "compute"
      /\ apply_ubatch(plan[1].ub, plan[1].idxs)
      /\ UNCHANGED <<unified, stack, plan, decoded, hurt>>
  BY DEF Apply, batchVars
<1>2. /\ stack = <<>> /\ plan # <<>> /\ IsSequence(plan) /\ Len(plan) \in Nat /\ Len(plan) > 0
  BY <1>1 DEF TypeInv, Control, InDry, PlanType, IsSequence
<1>3. PICK ub, ix : ub = Ub(1) /\ ix = Slot(1)
  OBVIOUS
<1>4. ub = plan[1].ub /\ ix = plan[1].idxs /\ Levels = Len(plan)
  BY <1>2, <1>3 DEF Ub, Slot, Levels
<1>5. IsLevel(ub, ix) /\ apply_ubatch(ub, ix)
  BY <1>1, <1>2, <1>4 DEF TypeInv, PlanType
<1>6. \A st \in Streams, c \in Cells : GoodCell(cells[st][c])
  BY DEF TypeInv, CellsGood
<1>7. \A st \in Streams, c \in Cells :
         /\ \A s, p : Puts(ub, ix, st, c, s, p) =>
               /\ cells'[st][c].seqs \subseteq {s}
               /\ cells'[st][c].seqs # {} => cells'[st][c].pos = p
         /\ ~Takes(ub, ix, st, c) => Less(cells'[st][c], cells[st][c])
  <2> SUFFICES ASSUME NEW st \in Streams, NEW c \in Cells
               PROVE  /\ \A s, p : Puts(ub, ix, st, c, s, p) =>
                            /\ cells'[st][c].seqs \subseteq {s}
                            /\ cells'[st][c].seqs # {} => cells'[st][c].pos = p
                      /\ ~Takes(ub, ix, st, c) => Less(cells'[st][c], cells[st][c])
    OBVIOUS
  <2>1. /\ GoodCell(cells'[st][c])
        /\ \A s, p : Puts(ub, ix, st, c, s, p) =>
              /\ cells'[st][c].seqs \subseteq {s}
              /\ cells'[st][c].seqs # {} => cells'[st][c].pos = p
              /\ Behind(ub, ix, st, s, p) => cells'[st][c] = [pos |-> p, seqs |-> {s}]
        /\ ~Takes(ub, ix, st, c) =>
              /\ Less(cells'[st][c], cells[st][c])
              /\ \A s \in cells[st][c].seqs :
                    s \in cells'[st][c].seqs <=> Behind(ub, ix, st, s, cells[st][c].pos)
        /\ st \notin DOMAIN ub => cells'[st] = cells[st]
    BY <1>5, <1>6, Applied
  <2> QED BY <2>1, Zenon
<1>8. \A st, c : Takes(ub, ix, st, c) =>
         \E s \in Seqs, p \in Positions : Puts(ub, ix, st, c, s, p)
  BY <1>5, SlotRelation
<1>9. /\ \A st, c : Takes(ub, ix, st, c) <=> TakesAt(1, st, c)
      /\ \A st, c, s, p : Puts(ub, ix, st, c, s, p) <=> PutsAt(1, st, c, s, p)
  BY <1>3 DEF TakesAt, PutsAt
<1>10. Levels' = Levels /\ Levels \in Nat /\ \A i : Ub(i)' = Ub(i) /\ Slot(i)' = Slot(i)
  BY <1>1, <1>2, <1>4, LevelsSame
<1>11. \A i :
         /\ \A st, c : TakesAt(i, st, c)' <=> TakesAt(i, st, c)
         /\ \A st, c, s, p : PutsAt(i, st, c, s, p)' <=> PutsAt(i, st, c, s, p)
         /\ \A s, p : InLevel(i, s, p)' <=> InLevel(i, s, p)
  BY <1>10, LevelFacts
<1>12. \A i, s, q : Ahead(i, s, q) <=> Ahead(i, s, q)'
  BY <1>1, <1>11, AheadSame
<1>13. \A i \in 1 .. Levels : \A st, c : TakesAt(i, st, c) => st \in Streams /\ c \in Cells
  <2>1. \A i \in 1 .. Levels : IsLevel(Ub(i), Slot(i))
    BY LevelsGood DEF TypeInv, DryRunInv
  <2> QED BY <2>1, SlotRelation DEF TakesAt
<1>14. \A i \in 1 .. Levels : \A st, c :
          OldCell(i, st, c) = cells[st][c] /\ OldCell(i, st, c)' = cells'[st][c]
  BY <1>1, <1>2 DEF OldCell
<1>15. First = 1 /\ First' = 2 /\ ~InDry' /\ ~Trying'
  BY <1>1 DEF First, InDry, Trying
<1>16. Settled' /\ PutIn'
  BY <1>15, ApplySound DEF Settled, Sound
<1>17. SafeTokens'
  <2> SUFFICES ASSUME NEW i \in 2 .. Levels, NEW j \in 2 .. i - 1, NEW st, NEW c, NEW s, NEW p,
                      TakesAt(i, st, c)', PutsAt(j, st, c, s, p)',
                      \A k \in j + 1 .. i - 1 : ~TakesAt(k, st, c)', s \notin hurt'
               PROVE  Ahead(i, s, p)'
    BY <1>10, <1>15 DEF SafeTokens
  <2>1. i \in 1 .. Levels /\ j \in 1 .. i - 1
    BY <1>10
  <2>2. TakesAt(i, st, c) /\ PutsAt(j, st, c, s, p) /\ (\A k \in j + 1 .. i - 1 : ~TakesAt(k, st, c))
    BY <1>11
  <2>3. Ahead(i, s, p)
    BY <1>1, <1>15, <2>1, <2>2 DEF CacheInv, SafeTokens
  <2> QED BY <1>12, <2>3
<1>18. SafeCells'
  <2> SUFFICES ASSUME NEW i \in 2 .. Levels, NEW st, NEW c, NEW x, x = OldCell(i, st, c)',
                      NEW s \in x.seqs, TakesAt(i, st, c)', s \notin hurt',
                      \A j \in 2 .. i - 1 : ~TakesAt(j, st, c)'
               PROVE  Ahead(i, s, x.pos)'
    BY <1>10, <1>15 DEF SafeCells
  <2>1. i \in 1 .. Levels /\ 1 \in 1 .. i - 1
    BY <1>10
  <2>2. TakesAt(i, st, c) /\ \A j \in 2 .. i - 1 : ~TakesAt(j, st, c)
    BY <1>11
  <2>3. x = cells'[st][c] /\ OldCell(i, st, c) = cells[st][c] /\ st \in Streams /\ c \in Cells
    BY <1>13, <1>14, <2>1, <2>2
  <2>4. CASE TakesAt(1, st, c)
    <3>1. PICK r \in Seqs, p \in Positions : Puts(ub, ix, st, c, r, p)
      BY <1>8, <1>9, <2>4
    <3>2. /\ cells'[st][c].seqs \subseteq {r}
          /\ cells'[st][c].seqs # {} => cells'[st][c].pos = p
      BY <1>7, <2>3, <3>1, Zenon
    <3>3. r = s /\ x.pos = p
      BY <2>3, <3>2
    <3>4. PutsAt(1, st, c, s, p) /\ \A k \in 1 + 1 .. i - 1 : ~TakesAt(k, st, c)
      BY <1>9, <2>2, <3>1, <3>3
    <3>5. Ahead(i, s, p)
      BY <1>1, <1>15, <2>1, <2>2, <3>4 DEF CacheInv, SafeTokens
    <3> QED BY <1>12, <3>3, <3>5
  <2>5. CASE ~TakesAt(1, st, c)
    <3>1. Less(x, cells[st][c])
      BY <1>7, <1>9, <2>3, <2>5
    <3>2. s \in cells[st][c].seqs /\ x.pos = cells[st][c].pos
      BY <3>1 DEF Less
    <3>3. \A j \in 1 .. i - 1 : ~TakesAt(j, st, c)
      <4>1. \A j \in 1 .. i - 1 : j = 1 \/ j \in 2 .. i - 1
        BY <1>10
      <4> QED BY <2>2, <2>5, <4>1
    <3>4. Ahead(i, s, cells[st][c].pos)
      BY <1>1, <1>15, <2>1, <2>2, <2>3, <3>2, <3>3 DEF CacheInv, SafeCells
    <3> QED BY <1>12, <3>2, <3>4
  <2> QED BY <2>4, <2>5
<1>19. Singles'
  <2> SUFFICES ASSUME NEW i \in 1 .. Levels, NEW st, NEW c, TakesAt(i, st, c)'
               PROVE  Single(cells'[st][c])
    BY <1>10, <1>14 DEF Singles, Single
  <2>1. TakesAt(i, st, c) /\ st \in Streams /\ c \in Cells
    BY <1>11, <1>13
  <2>2. CASE TakesAt(1, st, c)
    <3>1. PICK r \in Seqs, p \in Positions : Puts(ub, ix, st, c, r, p)
      BY <1>8, <1>9, <2>2
    <3>2. cells'[st][c].seqs \subseteq {r}
      BY <1>7, <2>1, <3>1, Zenon
    <3> QED BY <3>2 DEF Single
  <2>3. CASE ~TakesAt(1, st, c)
    <3>1. Less(cells'[st][c], cells[st][c])
      BY <1>7, <1>9, <2>1, <2>3
    <3>2. Single(OldCell(i, st, c))
      <4>1. \A j : j \notin 1 .. Len(stack)
        BY <1>2
      <4> QED BY <2>1, <4>1 DEF CacheInv, Singles
    <3> QED BY <1>14, <3>1, <3>2 DEF Less, Single
  <2> QED BY <2>2, <2>3
<1>20. TriedIn' /\ TriedBelow' /\ TriedApart' /\ TriedSingles'
  BY <1>15 DEF TriedIn, TriedBelow, TriedApart, TriedSingles
<1> QED BY <1>16, <1>17, <1>18, <1>19, <1>20 DEF CacheInv

(* The graph of the first ubatch has run.                                  *)
LEMMA ComputedCache ==
    ASSUME DryRunInv, TypeInv, CacheInv, Computed
    PROVE  CacheInv'
<1>1. /\ pc = "compute" /\ pc' \in {"idle", "apply"}
      /\ UNCHANGED <<unified, cells, stack, hurt>>
  BY DEF Computed
<1>2. stack = <<>>
  BY <1>1 DEF TypeInv, Control, InDry
<1>3. /\ Levels \in Nat \ {0} /\ Levels' = Levels - 1
      /\ \A i \in 1 .. Levels - 1 :
            Ub(i)' = Ub(i + 1) /\ Slot(i)' = Slot(i + 1)
      /\ \A s \in Seqs : /\ decoded'[s] \in decoded[s] .. MaxLen
                         /\ \A p : InLevel(1, s, p) <=> p \in decoded[s] .. decoded'[s] - 1
      /\ decoded' \in [Seqs -> 0 .. MaxLen]
  BY NextLevels
<1>4. \A i \in 1 .. Levels - 1 :
         /\ \A st, c : TakesAt(i, st, c)' <=> TakesAt(i + 1, st, c)
         /\ \A st, c, s, p : PutsAt(i, st, c, s, p)' <=> PutsAt(i + 1, st, c, s, p)
         /\ \A s, p : InLevel(i, s, p)' <=> InLevel(i + 1, s, p)
  <2> SUFFICES ASSUME NEW i \in 1 .. Levels - 1
               PROVE  /\ \A st, c : TakesAt(i, st, c)' <=> TakesAt(i + 1, st, c)
                      /\ \A st, c, s, p : PutsAt(i, st, c, s, p)' <=> PutsAt(i + 1, st, c, s, p)
                      /\ \A s, p : InLevel(i, s, p)' <=> InLevel(i + 1, s, p)
    OBVIOUS
  <2>1. PICK u, x : u = Ub(i + 1) /\ x = Slot(i + 1)
    OBVIOUS
  <2>2. Ub(i)' = u /\ Slot(i)' = x
    BY <1>3, <2>1
  <2>3. \A st, c : TakesAt(i, st, c)' <=> TakesAt(i + 1, st, c)
    BY <2>1, <2>2 DEF TakesAt, Takes
  <2>4. \A st, c, s, p : PutsAt(i, st, c, s, p)' <=> PutsAt(i + 1, st, c, s, p)
    BY <2>1, <2>2 DEF PutsAt, Puts
  <2>5. \A s, p : InLevel(i, s, p)' <=> InLevel(i + 1, s, p)
    BY <2>1, <2>2 DEF InLevel, TokenSet
  <2> QED BY <2>3, <2>4, <2>5
<1>5. /\ First = 2 /\ First' = 1 /\ ~InDry /\ ~InDry' /\ ~Trying'
      /\ (\A s, p : ~Computing(s, p))' /\ pc # "failed"
      /\ \A s, p : Computing(s, p) <=> InLevel(1, s, p)
  BY <1>1 DEF First, InDry, Trying, Computing
<1>6. Sound(cells) /\ PutIn
  BY <1>5 DEF CacheInv, Settled
<1>7. decoded \in [Seqs -> 0 .. MaxLen] /\ MaxLen \in Nat /\ NSwa \in Nat \ {0}
  BY PlaceAssumption DEF TypeInv, ScalarType
<1>8. \A st \in Streams, c \in Cells : \A s \in cells[st][c].seqs : s \in Seqs /\ cells[st][c].pos \in Positions
  BY GoodEmpty DEF TypeInv, CellsGood
<1>9. /\ Streams' = Streams /\ Cells' = Cells /\ \A s : seq_to_stream(s)' = seq_to_stream(s)
  BY <1>1, FrameLevel
<1>10. \A s, p : Has(cells, s, p)' <=> Has(cells, s, p)
  BY <1>1, <1>9 DEF Has
<1>11. Below(cells)'
  <2> SUFFICES ASSUME NEW st \in Streams, NEW c \in Cells, NEW s \in cells[st][c].seqs
               PROVE  seq_to_stream(s) = st /\ cells[st][c].pos < decoded'[s]
    BY <1>1, <1>9 DEF Below
  <2>1. seq_to_stream(s) = st /\ (cells[st][c].pos < decoded[s] \/ InLevel(1, s, cells[st][c].pos))
    BY <1>5, <1>6 DEF Sound, Below
  <2>2. PICK p \in Positions : p = cells[st][c].pos
    BY <1>8
  <2>3. s \in Seqs /\ decoded'[s] \in decoded[s] .. MaxLen /\ decoded[s] \in 0 .. MaxLen
    BY <1>3, <1>7, <1>8
  <2>4. InLevel(1, s, p) => p \in decoded[s] .. decoded'[s] - 1
    BY <1>3, <2>3
  <2> QED BY <1>7, <2>1, <2>2, <2>3, <2>4 DEF Positions
<1>12. Apart(cells)'
  BY <1>1, <1>6, <1>9 DEF Sound, Apart
<1>13. Kept(cells)'
  <2> SUFFICES ASSUME NEW s \in Seqs \ hurt, NEW q \in 0 .. decoded'[s] - 1, q + NSwa > decoded'[s]
               PROVE  Has(cells, s, q)
    BY <1>1, <1>10 DEF Kept
  <2>1. decoded'[s] \in decoded[s] .. MaxLen /\ decoded[s] \in 0 .. MaxLen
    BY <1>3, <1>7
  <2>2. CASE q < decoded[s]
    <3>1. q \in 0 .. decoded[s] - 1 /\ q + NSwa > decoded[s]
      BY <1>7, <2>1, <2>2
    <3> QED BY <1>6, <3>1 DEF Sound, Kept
  <2>3. CASE ~(q < decoded[s])
    <3>1. q \in decoded[s] .. decoded'[s] - 1
      BY <1>7, <2>1, <2>3
    <3> QED BY <1>3, <1>5, <1>6, <3>1 DEF PutIn
  <2> QED BY <2>2, <2>3
<1>14. Up(cells)'
  <2> SUFFICES ASSUME NEW s \in Seqs \ hurt, NEW p \in Positions, Has(cells, s, p),
                      NEW q \in p .. decoded'[s] - 1
               PROVE  Has(cells, s, q)
    BY <1>1, <1>10 DEF Up
  <2>1. decoded'[s] \in decoded[s] .. MaxLen /\ decoded[s] \in 0 .. MaxLen
    BY <1>3, <1>7
  <2>2. CASE q < decoded[s]
    <3>1. q \in p .. decoded[s] - 1
      BY <1>7, <2>1, <2>2 DEF Positions
    <3> QED BY <1>6, <3>1 DEF Sound, Up
  <2>3. CASE ~(q < decoded[s])
    <3>1. q \in decoded[s] .. decoded'[s] - 1
      BY <1>7, <2>1, <2>3 DEF Positions
    <3> QED BY <1>3, <1>5, <1>6, <3>1 DEF PutIn
  <2> QED BY <2>2, <2>3
<1>15. Settled' /\ PutIn'
  BY <1>5, <1>11, <1>12, <1>13, <1>14 DEF Settled, Sound, PutIn
<1>16. \A i \in 1 .. Levels - 1 : \A s \in Seqs : \A q : Ahead(i + 1, s, q) => Ahead(i, s, q)'
  <2> SUFFICES ASSUME NEW i \in 1 .. Levels - 1, NEW s \in Seqs, NEW q, Ahead(i + 1, s, q),
                      NEW p \in decoded'[s] .. MaxLen,
                      \A k \in 1 .. i - 1 : ~InLevel(k, s, p)'
               PROVE  q + NSwa <= p
    BY DEF Ahead
  <2>1. decoded'[s] \in decoded[s] .. MaxLen /\ decoded[s] \in 0 .. MaxLen
    BY <1>3, <1>7
  <2>2. p \in decoded[s] .. MaxLen /\ p \notin decoded[s] .. decoded'[s] - 1
    BY <1>7, <2>1
  <2>3. ~InLevel(1, s, p)
    BY <1>3, <2>2
  <2>4. ASSUME NEW k \in 1 .. (i + 1) - 1 PROVE ~InLevel(k, s, p)
    <3>1. CASE k = 1
      BY <2>3, <3>1
    <3>2. CASE k # 1
      <4>1. PICK m : m = k - 1
        OBVIOUS
      <4>2. m \in 1 .. i - 1 /\ m \in 1 .. Levels - 1 /\ k = m + 1
        BY <1>3, <3>2, <4>1
      <4> QED BY <1>4, <4>2
    <3> QED BY <3>1, <3>2
  <2> QED BY <2>2, <2>4 DEF Ahead
<1>17. \A i \in 1 .. Levels : IsLevel(Ub(i), Slot(i))
  BY LevelsGood DEF TypeInv, DryRunInv
<1>18. SafeTokens'
  <2> SUFFICES ASSUME NEW i \in 1 .. Levels - 1, NEW j \in 1 .. i - 1, NEW st, NEW c, NEW s, NEW p,
                      TakesAt(i, st, c)', PutsAt(j, st, c, s, p)',
                      \A k \in j + 1 .. i - 1 : ~TakesAt(k, st, c)', s \notin hurt
               PROVE  Ahead(i, s, p)'
    BY <1>1, <1>3, <1>5 DEF SafeTokens
  <2>1. PICK a, b : a = i + 1 /\ b = j + 1
    OBVIOUS
  <2>2. /\ a \in 2 .. Levels /\ b \in 2 .. a - 1 /\ j \in 1 .. Levels - 1 /\ b \in 1 .. Levels
    BY <1>3, <2>1
  <2>3. TakesAt(a, st, c) /\ PutsAt(b, st, c, s, p)
    BY <1>4, <2>1, <2>2
  <2>4. ASSUME NEW k \in b + 1 .. a - 1 PROVE ~TakesAt(k, st, c)
    <3>1. PICK m : m = k - 1
      OBVIOUS
    <3>2. m \in j + 1 .. i - 1 /\ m \in 1 .. Levels - 1 /\ k = m + 1
      BY <1>3, <2>1, <3>1
    <3> QED BY <1>4, <3>2
  <2>5. Ahead(a, s, p)
    BY <1>5, <2>2, <2>3, <2>4 DEF CacheInv, SafeTokens
  <2>6. s \in Seqs
    BY <1>17, <2>2, <2>3, SlotRelation DEF PutsAt
  <2> QED BY <1>16, <2>1, <2>5, <2>6
<1>19. \A i \in 1 .. Levels : \A st, c : TakesAt(i, st, c) => st \in Streams /\ c \in Cells
  BY <1>17, SlotRelation DEF TakesAt
<1>20. /\ \A i \in 1 .. Levels : \A st, c : OldCell(i, st, c) = cells[st][c]
       /\ \A i \in 1 .. Levels - 1 : \A st, c : OldCell(i, st, c)' = cells[st][c]
  BY <1>1, <1>2, <1>3 DEF OldCell
<1>21. SafeCells'
  <2> SUFFICES ASSUME NEW i \in 1 .. Levels - 1, NEW st, NEW c, NEW x, x = OldCell(i, st, c)',
                      NEW s \in x.seqs, TakesAt(i, st, c)', s \notin hurt,
                      \A j \in 1 .. i - 1 : ~TakesAt(j, st, c)'
               PROVE  Ahead(i, s, x.pos)'
    BY <1>1, <1>3, <1>5 DEF SafeCells
  <2>1. PICK a : a = i + 1
    OBVIOUS
  <2>2. a \in 2 .. Levels /\ a \in 1 .. Levels
    BY <1>3, <2>1
  <2>3. TakesAt(a, st, c)
    BY <1>4, <2>1
  <2>4. x = cells[st][c] /\ OldCell(a, st, c) = cells[st][c] /\ st \in Streams /\ c \in Cells
    BY <1>19, <1>20, <2>2, <2>3
  <2>5. ASSUME NEW k \in 2 .. a - 1 PROVE ~TakesAt(k, st, c)
    <3>1. PICK m : m = k - 1
      OBVIOUS
    <3>2. m \in 1 .. i - 1 /\ m \in 1 .. Levels - 1 /\ k = m + 1
      BY <1>3, <2>1, <3>1
    <3> QED BY <1>4, <3>2
  <2>6. Ahead(a, s, x.pos)
    BY <1>5, <2>2, <2>3, <2>4, <2>5 DEF CacheInv, SafeCells
  <2>7. s \in Seqs
    BY <1>8, <2>4
  <2> QED BY <1>16, <2>1, <2>6, <2>7
<1>22. Singles'
  <2> SUFFICES ASSUME NEW i \in 1 .. Levels - 1, NEW st, NEW c, TakesAt(i, st, c)'
               PROVE  Single(cells[st][c])
    BY <1>3, <1>20 DEF Singles, Single
  <2>1. PICK a : a = i + 1
    OBVIOUS
  <2>2. a \in 1 .. Levels /\ TakesAt(a, st, c)
    BY <1>3, <1>4, <2>1
  <2>3. \A j : j \notin 1 .. Len(stack)
    BY <1>2
  <2> QED BY <1>20, <2>2, <2>3 DEF CacheInv, Singles
<1>23. TriedIn' /\ TriedBelow' /\ TriedApart' /\ TriedSingles'
  BY <1>5 DEF TriedIn, TriedBelow, TriedApart, TriedSingles
<1> QED BY <1>15, <1>18, <1>21, <1>22, <1>23 DEF CacheInv

(* The first position of a sequence in the cells of a stream, -1 if it has *)
(* none.                                                                   *)
LEMMA FirstPosition ==
    ASSUME NEW k, \A c \in Cells : GoodCell(k[c]), NEW s
    PROVE  \/ /\ \E c \in Cells : s \in k[c].seqs /\ k[c].pos = seq_pos_min(k, s)
              /\ seq_pos_min(k, s) \in Positions
           \/ seq_pos_min(k, s) = -1 /\ \A c \in Cells : s \notin k[c].seqs
<1> DEFINE P == PosOf(k, s)
<1>1. \A p : p \in P <=> \E c \in Cells : s \in k[c].seqs /\ k[c].pos = p
  BY DEF PosOf
<1>2. \A c \in Cells : s \in k[c].seqs => k[c].pos \in Positions
  BY GoodEmpty
<1>3. P \in SUBSET Positions
  BY <1>1, <1>2
<1>4. P \in SUBSET Nat
  BY <1>3 DEF Positions
<1> HIDE DEF P
<1>5. seq_pos_min(k, s) = IF P = {} THEN -1 ELSE CHOOSE p \in P : \A q \in P : p <= q
  BY DEF seq_pos_min, P
<1>6. CASE P = {}
  BY <1>1, <1>5, <1>6
<1>7. CASE P # {}
  <2>1. PICK m \in P : \A q \in P : m <= q
    BY <1>4, <1>7, MinIsLeast
  <2>2. (CHOOSE p \in P : \A q \in P : p <= q) \in P
    BY <2>1
  <2>3. seq_pos_min(k, s) \in P
    BY <1>5, <1>7, <2>2
  <2> QED BY <1>1, <1>3, <2>3
<1> QED BY <1>6, <1>7

(* A graph fails: the positions of its ubatch are taken out.               *)
LEMMA ComputeFailsCache ==
    ASSUME DryRunInv, TypeInv, CacheInv, ComputeFails
    PROVE  CacheInv'
<1>1. PICK S : S = {t[1] : t \in TokenSet(plan[1].ub)}
  OBVIOUS
<1>2. /\ pc = "compute" /\ pc' = "idle" /\ plan' = <<>> /\ RemoveSuffix(S)
      /\ UNCHANGED <<unified, stack, decoded, hurt>>
  BY <1>1 DEF ComputeFails
<1>3. stack = <<>> /\ Ub(1) = plan[1].ub
  BY <1>2 DEF TypeInv, Control, InDry, Ub
<1>4. Sound(cells) /\ (\A s, p : ~Computing(s, p))' /\ \A s, p : Computing(s, p) => s \in S
  BY <1>1, <1>2, <1>3 DEF CacheInv, Settled, InDry, Computing, InLevel
<1>5. \A st \in Streams, c \in Cells :
         /\ GoodCell(cells'[st][c]) /\ Less(cells'[st][c], cells[st][c])
         /\ \A s \in cells[st][c].seqs : s \in cells'[st][c].seqs <=>
               s \notin S \/ ~(cells[st][c].pos >= decoded'[s])
  BY <1>2, Removed DEF TypeInv, ScalarType
<1>6. /\ Streams' = Streams /\ Cells' = Cells /\ \A s : seq_to_stream(s)' = seq_to_stream(s)
  BY <1>2, FrameLevel
<1>7. \A st \in Streams, c \in Cells : \A s \in cells'[st][c].seqs :
         s \in cells[st][c].seqs /\ cells'[st][c].pos = cells[st][c].pos
  BY <1>5 DEF Less
<1>8. \A st \in Streams, c \in Cells : \A s \in cells[st][c].seqs :
         s \in Seqs /\ cells[st][c].pos \in Int /\ decoded[s] \in Int
  BY GoodEmpty DEF TypeInv, CellsGood, ScalarType
<1>9. Below(cells)'
  <2> SUFFICES ASSUME NEW st \in Streams, NEW c \in Cells, NEW s \in cells'[st][c].seqs
               PROVE  seq_to_stream(s) = st /\ cells'[st][c].pos < decoded[s]
    BY <1>2, <1>6 DEF Below
  <2>1. s \in cells[st][c].seqs /\ cells'[st][c].pos = cells[st][c].pos
    BY <1>7
  <2>2. seq_to_stream(s) = st /\ (cells[st][c].pos < decoded[s] \/ Computing(s, cells[st][c].pos))
    BY <1>4, <2>1 DEF Sound, Below
  <2>3. s \notin S \/ ~(cells[st][c].pos >= decoded[s])
    BY <1>2, <1>5, <2>1
  <2> QED BY <1>4, <1>8, <2>1, <2>2, <2>3
<1>10. Apart(cells)'
  <2> SUFFICES ASSUME NEW st \in Streams, NEW c \in Cells, NEW d \in Cells, NEW s,
                      s \in cells'[st][c].seqs, s \in cells'[st][d].seqs,
                      cells'[st][c].pos = cells'[st][d].pos
               PROVE  c = d
    BY <1>6 DEF Apart
  <2> QED BY <1>4, <1>7 DEF Sound, Apart
<1>11. \A s : seq_to_stream(s) \in Streams \/ s \notin Seqs
  BY DEF Streams, seq_to_stream
<1>12. \A s \in Seqs : \A p : Has(cells, s, p)' => Has(cells, s, p)
  BY <1>6, <1>7, <1>11 DEF Has
<1>13. \A s \in Seqs : \A q : Has(cells, s, q) /\ q < decoded[s] => Has(cells, s, q)'
  <2> SUFFICES ASSUME NEW s \in Seqs, NEW q, Has(cells, s, q), q < decoded[s]
               PROVE  Has(cells, s, q)'
    OBVIOUS
  <2>1. PICK st \in Streams : st = seq_to_stream(s)
    BY <1>11
  <2>2. PICK c \in Cells : s \in cells[st][c].seqs /\ cells[st][c].pos = q
    BY <2>1 DEF Has
  <2>3. s \in cells'[st][c].seqs
    BY <1>2, <1>5, <1>8, <2>2
  <2> QED BY <1>6, <1>7, <2>1, <2>2, <2>3 DEF Has
<1>14. \A s \in Seqs : decoded[s] \in Nat
  BY DEF TypeInv, ScalarType
<1>15. Kept(cells)'
  <2> SUFFICES ASSUME NEW s \in Seqs \ hurt, NEW q \in 0 .. decoded[s] - 1, q + NSwa > decoded[s]
               PROVE  Has(cells, s, q)'
    BY <1>2 DEF Kept
  <2>1. Has(cells, s, q)
    BY <1>4 DEF Sound, Kept
  <2>2. q < decoded[s]
    BY <1>14
  <2> QED BY <1>13, <2>1, <2>2
<1>16. Up(cells)'
  <2> SUFFICES ASSUME NEW s \in Seqs \ hurt, NEW p \in Positions, Has(cells, s, p)',
                      NEW q \in p .. decoded[s] - 1
               PROVE  Has(cells, s, q)'
    BY <1>2 DEF Up
  <2>1. Has(cells, s, q)
    BY <1>4, <1>12 DEF Sound, Up
  <2>2. q < decoded[s]
    BY <1>14 DEF Positions
  <2> QED BY <1>13, <2>1, <2>2
<1> QED BY <1>2, <1>3, <1>9, <1>10, <1>15, <1>16, CacheIdle DEF Sound

(* A prompt is reused: if the server finds the window whole, it is.        *)
LEMMA ReuseCache ==
    ASSUME DryRunInv, TypeInv, CacheInv, NEW r \in Seqs, NEW p0 \in Positions, Reuse(r, p0)
    PROVE  CacheInv'
<1>1. /\ pc = "idle" /\ pc' = "idle" /\ p0 < decoded[r]
      /\ decoded' = [decoded EXCEPT ![r] = p0]
      /\ RemoveSuffix({r})
      /\ hurt' = IF p0 = 0 THEN hurt \ {r} ELSE IF WindowKept(r, p0) THEN hurt ELSE hurt \cup {r}
      /\ UNCHANGED <<unified, stack, plan>>
  BY DEF Reuse, batchVars
<1>2. stack = <<>> /\ plan = <<>>
  BY <1>1 DEF TypeInv, Control, InDry
<1>3. Sound(cells) /\ (\A s, p : ~Computing(s, p)) /\ (\A s, p : ~Computing(s, p))'
  BY <1>1 DEF CacheInv, Settled, InDry, Computing
<1>4. \A st \in Streams, c \in Cells :
         /\ GoodCell(cells'[st][c]) /\ Less(cells'[st][c], cells[st][c])
         /\ \A s \in cells[st][c].seqs : s \in cells'[st][c].seqs <=>
               s \notin {r} \/ ~(cells[st][c].pos >= decoded'[s])
  BY <1>1, Removed DEF TypeInv, ScalarType
<1>5. /\ Streams' = Streams /\ Cells' = Cells /\ \A s : seq_to_stream(s)' = seq_to_stream(s)
  BY <1>1, FrameLevel
<1>6. \A st \in Streams, c \in Cells : \A s \in cells'[st][c].seqs :
         s \in cells[st][c].seqs /\ cells'[st][c].pos = cells[st][c].pos
  BY <1>4 DEF Less
<1>7. decoded \in [Seqs -> 0 .. MaxLen] /\ MaxLen \in Nat /\ NSwa \in Nat \ {0}
  BY PlaceAssumption DEF TypeInv, ScalarType
<1>8. /\ decoded'[r] = p0 /\ \A s \in Seqs : s # r => decoded'[s] = decoded[s]
      /\ \A s \in Seqs : decoded'[s] \in Nat /\ decoded[s] \in Nat /\ decoded'[s] <= decoded[s]
      /\ p0 \in Nat
  BY <1>1, <1>7 DEF Positions
<1>9. \A st \in Streams, c \in Cells : \A s \in cells[st][c].seqs :
         s \in Seqs /\ cells[st][c].pos \in Positions /\ cells[st][c].pos \in Int
  BY GoodEmpty DEF TypeInv, CellsGood
<1>10. Below(cells)'
  <2> SUFFICES ASSUME NEW st \in Streams, NEW c \in Cells, NEW s \in cells'[st][c].seqs
               PROVE  seq_to_stream(s) = st /\ cells'[st][c].pos < decoded'[s]
    BY <1>5 DEF Below
  <2>1. s \in cells[st][c].seqs /\ cells'[st][c].pos = cells[st][c].pos /\ s \in Seqs
    BY <1>6, <1>9
  <2>2. seq_to_stream(s) = st /\ cells[st][c].pos < decoded[s]
    BY <1>3, <2>1 DEF Sound, Below
  <2>3. s # r \/ ~(cells[st][c].pos >= decoded'[s])
    BY <1>4, <2>1
  <2> QED BY <1>8, <1>9, <2>1, <2>2, <2>3
<1>11. Apart(cells)'
  <2> SUFFICES ASSUME NEW st \in Streams, NEW c \in Cells, NEW d \in Cells, NEW s,
                      s \in cells'[st][c].seqs, s \in cells'[st][d].seqs,
                      cells'[st][c].pos = cells'[st][d].pos
               PROVE  c = d
    BY <1>5 DEF Apart
  <2> QED BY <1>3, <1>6 DEF Sound, Apart
<1>12. \A s \in Seqs : seq_to_stream(s) \in Streams
  BY DEF Streams, seq_to_stream
<1>13. \A s \in Seqs : \A p : Has(cells, s, p)' => Has(cells, s, p)
  BY <1>5, <1>6, <1>12 DEF Has
<1>14. \A s \in Seqs : \A q : Has(cells, s, q) /\ q < decoded'[s] => Has(cells, s, q)'
  <2> SUFFICES ASSUME NEW s \in Seqs, NEW q, Has(cells, s, q), q < decoded'[s]
               PROVE  Has(cells, s, q)'
    OBVIOUS
  <2>1. PICK st \in Streams : st = seq_to_stream(s)
    BY <1>12
  <2>2. PICK c \in Cells : s \in cells[st][c].seqs /\ cells[st][c].pos = q
    BY <2>1 DEF Has
  <2>3. s \in cells'[st][c].seqs
    BY <1>4, <1>8, <1>9, <2>2
  <2> QED BY <1>5, <1>6, <2>1, <2>2, <2>3 DEF Has
<1>15. \A s \in Seqs \ hurt' : s # r \/ p0 # 0 => s \in Seqs \ hurt
  BY <1>1
<1>16. ASSUME NEW q \in 0 .. p0 - 1, q + NSwa > p0, r \notin hurt'
       PROVE  Has(cells, r, q)
  <2>1. p0 # 0 /\ p0 \in Nat /\ q \in Nat /\ q < p0 /\ q \in 0 .. decoded[r] - 1
    BY <1>1, <1>8, <1>16
  <2>2. r \in Seqs \ hurt /\ WindowKept(r, p0)
    BY <1>1, <1>16, <2>1
  <2>3. PICK st \in Streams : st = seq_to_stream(r)
    BY <1>12
  <2>4. PICK m : m = seq_pos_min(cells[st], r)
    OBVIOUS
  <2>5. m = 0 \/ m < p0 - NSwa
    BY <2>2, <2>3, <2>4 DEF WindowKept
  <2>6. \/ /\ \E c \in Cells : r \in cells[st][c].seqs /\ cells[st][c].pos = m
           /\ m \in Positions
        \/ m = -1 /\ \A c \in Cells : r \notin cells[st][c].seqs
    <3>1. \A c \in Cells : GoodCell(cells[st][c])
      BY DEF TypeInv, CellsGood
    <3> QED BY <2>4, <3>1, FirstPosition
  <2>7. CASE m \in Positions /\ \E c \in Cells : r \in cells[st][c].seqs /\ cells[st][c].pos = m
    <3>1. Has(cells, r, m)
      BY <2>3, <2>7 DEF Has
    <3>2. q \in m .. decoded[r] - 1
      BY <1>7, <1>8, <1>16, <2>1, <2>5, <2>7 DEF Positions
    <3> QED BY <1>3, <2>2, <2>7, <3>1, <3>2 DEF Sound, Up
  <2>8. CASE \A c \in Cells : r \notin cells[st][c].seqs
    <3>1. \A p : ~Has(cells, r, p)
      BY <2>3, <2>8 DEF Has
    <3>2. PICK d : d = decoded[r] - 1
      OBVIOUS
    <3>3. d \in 0 .. decoded[r] - 1 /\ ~(d + NSwa > decoded[r])
      <4>1. d \in 0 .. decoded[r] - 1
        BY <1>1, <1>8, <2>1, <3>2
      <4> QED BY <1>3, <2>2, <3>1, <4>1 DEF Sound, Kept
    <3>4. NSwa = 1
      BY <1>7, <1>8, <3>2, <3>3
    <3> QED BY <1>16, <2>1, <3>4
  <2> QED BY <2>6, <2>7, <2>8
<1>17. Kept(cells)'
  <2> SUFFICES ASSUME NEW s \in Seqs \ hurt', NEW q \in 0 .. decoded'[s] - 1, q + NSwa > decoded'[s]
               PROVE  Has(cells, s, q)'
    BY DEF Kept
  <2>1. q < decoded'[s]
    BY <1>8
  <2>2. Has(cells, s, q)
    <3>1. CASE s = r
      BY <1>8, <1>16, <3>1
    <3>2. CASE s # r
      BY <1>3, <1>8, <1>15, <3>2 DEF Sound, Kept
    <3> QED BY <3>1, <3>2
  <2> QED BY <1>14, <2>1, <2>2
<1>18. Up(cells)'
  <2> SUFFICES ASSUME NEW s \in Seqs \ hurt', NEW p \in Positions, Has(cells, s, p)',
                      NEW q \in p .. decoded'[s] - 1
               PROVE  Has(cells, s, q)'
    BY DEF Up
  <2>1. q < decoded'[s] /\ q \in p .. decoded[s] - 1 /\ (s # r \/ p0 # 0)
    BY <1>8 DEF Positions
  <2>2. Has(cells, s, q)
    BY <1>3, <1>13, <1>15, <2>1 DEF Sound, Up
  <2> QED BY <1>14, <2>1, <2>2
<1> QED BY <1>1, <1>2, <1>10, <1>11, <1>17, <1>18, CacheIdle DEF Sound

(* A sequence is copied: the destination has what the source has.          *)
LEMMA CopyCache ==
    ASSUME DryRunInv, TypeInv, CacheInv, NEW src \in Seqs, NEW dst \in Seqs, Copy(src, dst)
    PROVE  CacheInv'
<1>1. /\ pc = "idle" /\ pc' = "idle" /\ decoded' = [decoded EXCEPT ![dst] = decoded[src]]
      /\ hurt' = IF src \in hurt THEN hurt \cup {dst} ELSE hurt \ {dst}
      /\ UNCHANGED <<unified, stack, plan>>
  BY DEF Copy, batchVars
<1>2. stack = <<>> /\ plan = <<>>
  BY <1>1 DEF TypeInv, Control, InDry
<1>3. Sound(cells) /\ (\A s, p : ~Computing(s, p)) /\ (\A s, p : ~Computing(s, p))'
  BY <1>1 DEF CacheInv, Settled, InDry, Computing
<1>4. /\ CellsGood /\ heads \in [Streams -> 0 .. NCells] /\ IsCells(cells) /\ unified \in BOOLEAN
  BY DEF TypeInv, ScalarType, DryRunInv
<1>5. /\ unified => \A c \in Cells :
            /\ cells'[0][c].seqs # {} => cells'[0][c].pos = cells[0][c].pos
            /\ dst \in cells'[0][c].seqs <=> src \in cells[0][c].seqs
            /\ \A r : r # dst => (r \in cells'[0][c].seqs <=> r \in cells[0][c].seqs)
      /\ ~unified => \A c \in Cells :
            /\ \A st \in Streams : st # dst => cells'[st][c] = cells[st][c]
            /\ cells'[dst][c] = IF src \in cells[src][c].seqs
                                THEN [pos |-> cells[src][c].pos, seqs |-> {dst}] ELSE Empty
  BY <1>4, Copied
<1>6. /\ Streams' = Streams /\ Cells' = Cells /\ \A s : seq_to_stream(s)' = seq_to_stream(s)
  BY <1>1, FrameLevel
<1> DEFINE From(s) == IF s = dst THEN src ELSE s
<1>7. /\ \A s \in Seqs : From(s) \in Seqs /\ decoded'[s] = decoded[From(s)]
      /\ \A s \in Seqs \ hurt' : From(s) \in Seqs \ hurt
  BY <1>1 DEF TypeInv, ScalarType
<1>8. \A st \in Streams, c \in Cells : \A s \in cells[st][c].seqs :
         s \in Seqs /\ seq_to_stream(s) = st /\ cells[st][c].pos < decoded[s]
  BY <1>3, <1>4, GoodEmpty DEF Sound, Below, CellsGood
<1>9. \A st \in Streams, c \in Cells : GoodCell(cells'[st][c])
  BY <1>4, Copied
<1>10. \A st \in Streams, c \in Cells : \A s \in cells'[st][c].seqs :
          /\ s \in Seqs /\ seq_to_stream(s) = st
          /\ From(s) \in cells[seq_to_stream(From(s))][c].seqs
          /\ cells'[st][c].pos = cells[seq_to_stream(From(s))][c].pos
  <2> SUFFICES ASSUME NEW st \in Streams, NEW c \in Cells, NEW s \in cells'[st][c].seqs
               PROVE  /\ s \in Seqs /\ seq_to_stream(s) = st
                      /\ From(s) \in cells[seq_to_stream(From(s))][c].seqs
                      /\ cells'[st][c].pos = cells[seq_to_stream(From(s))][c].pos
    OBVIOUS
  <2>1. s \in Seqs
    BY <1>9, GoodEmpty
  <2>2. CASE unified
    <3>1. st = 0 /\ seq_to_stream(s) = 0 /\ seq_to_stream(From(s)) = 0
      BY <2>2 DEF Streams, seq_to_stream
    <3>2. cells'[0][c].pos = cells[0][c].pos /\ From(s) \in cells[0][c].seqs
      BY <1>5, <2>2, <3>1
    <3> QED BY <2>1, <3>1, <3>2
  <2>3. CASE ~unified
    <3>1. seq_to_stream(s) = s /\ seq_to_stream(From(s)) = From(s) /\ Streams = Seqs
      BY <2>3 DEF Streams, seq_to_stream
    <3>2. CASE st = dst
      <4>1. src \in cells[src][c].seqs
        <5> SUFFICES ASSUME src \notin cells[src][c].seqs PROVE FALSE
          OBVIOUS
        <5>1. cells'[dst][c] = Empty
          BY <1>5, <2>3
        <5>2. Empty.seqs = {}
          BY DEF Empty
        <5> QED BY <3>2, <5>1, <5>2
      <4>2. cells'[dst][c] = [pos |-> cells[src][c].pos, seqs |-> {dst}]
        BY <1>5, <2>3, <4>1
      <4>3. s = dst /\ cells'[st][c].pos = cells[src][c].pos
        BY <3>2, <4>2
      <4> QED BY <2>1, <3>1, <3>2, <4>1, <4>3
    <3>3. CASE st # dst
      <4>1. cells'[st][c] = cells[st][c]
        BY <1>5, <2>3, <3>3
      <4>2. seq_to_stream(s) = st
        BY <1>8, <4>1
      <4>3. s = st /\ From(s) = s
        BY <3>1, <3>3, <4>2
      <4> QED BY <2>1, <3>1, <4>1, <4>2, <4>3
    <3> QED BY <3>2, <3>3
  <2> QED BY <1>4, <2>2, <2>3
<1>11. \A s \in Seqs : \A c \in Cells : From(s) \in cells[seq_to_stream(From(s))][c].seqs =>
          /\ s \in cells'[seq_to_stream(s)][c].seqs
          /\ cells'[seq_to_stream(s)][c].pos = cells[seq_to_stream(From(s))][c].pos
  <2> SUFFICES ASSUME NEW s \in Seqs, NEW c \in Cells,
                      From(s) \in cells[seq_to_stream(From(s))][c].seqs
               PROVE  /\ s \in cells'[seq_to_stream(s)][c].seqs
                      /\ cells'[seq_to_stream(s)][c].pos = cells[seq_to_stream(From(s))][c].pos
    OBVIOUS
  <2>1. CASE unified
    <3>1. seq_to_stream(s) = 0 /\ seq_to_stream(From(s)) = 0
      BY <2>1 DEF seq_to_stream
    <3>2. s \in cells'[0][c].seqs
      BY <1>5, <2>1, <3>1
    <3>3. cells'[0][c].pos = cells[0][c].pos
      BY <1>5, <2>1, <3>2
    <3> QED BY <3>1, <3>2, <3>3
  <2>2. CASE ~unified
    <3>1. seq_to_stream(s) = s /\ seq_to_stream(From(s)) = From(s) /\ Streams = Seqs
      BY <2>2 DEF Streams, seq_to_stream
    <3>2. CASE s = dst
      <4>1. cells'[dst][c] = [pos |-> cells[src][c].pos, seqs |-> {dst}]
        BY <1>5, <2>2, <3>1, <3>2
      <4> QED BY <3>1, <3>2, <4>1
    <3>3. CASE s # dst
      BY <1>5, <2>2, <3>1, <3>3
    <3> QED BY <3>2, <3>3
  <2> QED BY <1>4, <2>1, <2>2
<1> HIDE DEF From
<1>12. \A s \in Seqs : seq_to_stream(s) \in Streams
  BY DEF Streams, seq_to_stream
<1>13. \A s \in Seqs : \A p : Has(cells, s, p)' <=> Has(cells, From(s), p)
  <2> SUFFICES ASSUME NEW s \in Seqs, NEW p PROVE Has(cells, s, p)' <=> Has(cells, From(s), p)
    OBVIOUS
  <2>1. ASSUME Has(cells, s, p)' PROVE Has(cells, From(s), p)
    <3>1. PICK c \in Cells : s \in cells'[seq_to_stream(s)][c].seqs /\ cells'[seq_to_stream(s)][c].pos = p
      BY <1>6, <2>1 DEF Has
    <3> QED BY <1>10, <1>12, <3>1 DEF Has
  <2>2. ASSUME Has(cells, From(s), p) PROVE Has(cells, s, p)'
    <3>1. PICK c \in Cells : /\ From(s) \in cells[seq_to_stream(From(s))][c].seqs
                             /\ cells[seq_to_stream(From(s))][c].pos = p
      BY <2>2 DEF Has
    <3>2. /\ s \in cells'[seq_to_stream(s)][c].seqs
          /\ cells'[seq_to_stream(s)][c].pos = p
      BY <1>11, <3>1
    <3> QED BY <1>6, <3>2 DEF Has
  <2> QED BY <2>1, <2>2
<1>14. Below(cells)'
  <2> SUFFICES ASSUME NEW st \in Streams, NEW c \in Cells, NEW s \in cells'[st][c].seqs
               PROVE  seq_to_stream(s) = st /\ cells'[st][c].pos < decoded'[s]
    BY <1>6 DEF Below
  <2>1. s \in Seqs /\ seq_to_stream(s) = st
    BY <1>10
  <2>2. PICK r \in Seqs : r = From(s)
    BY <1>7, <2>1
  <2>3. r \in cells[seq_to_stream(r)][c].seqs /\ cells'[st][c].pos = cells[seq_to_stream(r)][c].pos
    BY <1>10, <2>2
  <2>4. cells[seq_to_stream(r)][c].pos < decoded[r]
    BY <1>8, <1>12, <2>3
  <2> QED BY <1>7, <2>1, <2>2, <2>3, <2>4
<1>15. Apart(cells)'
  <2> SUFFICES ASSUME NEW st \in Streams, NEW c \in Cells, NEW d \in Cells, NEW s,
                      s \in cells'[st][c].seqs, s \in cells'[st][d].seqs,
                      cells'[st][c].pos = cells'[st][d].pos
               PROVE  c = d
    BY <1>6 DEF Apart
  <2>1. s \in Seqs
    BY <1>10
  <2>2. PICK r \in Seqs : r = From(s)
    BY <1>7, <2>1
  <2>3. PICK sr \in Streams : sr = seq_to_stream(r)
    BY <1>12
  <2>4. /\ r \in cells[sr][c].seqs /\ cells'[st][c].pos = cells[sr][c].pos
        /\ r \in cells[sr][d].seqs /\ cells'[st][d].pos = cells[sr][d].pos
    BY <1>10, <2>2, <2>3
  <2> QED BY <1>3, <2>4 DEF Sound, Apart
<1>16. Kept(cells)'
  <2> SUFFICES ASSUME NEW s \in Seqs \ hurt', NEW q \in 0 .. decoded'[s] - 1, q + NSwa > decoded'[s]
               PROVE  Has(cells, s, q)'
    BY DEF Kept
  <2>1. PICK r \in Seqs \ hurt : r = From(s)
    BY <1>7
  <2>2. decoded'[s] = decoded[r]
    BY <1>7, <2>1
  <2>3. Has(cells, r, q)
    BY <1>3, <2>2 DEF Sound, Kept
  <2> QED BY <1>13, <2>1, <2>3
<1>17. Up(cells)'
  <2> SUFFICES ASSUME NEW s \in Seqs \ hurt', NEW p \in Positions, Has(cells, s, p)',
                      NEW q \in p .. decoded'[s] - 1
               PROVE  Has(cells, s, q)'
    BY DEF Up
  <2>1. PICK r \in Seqs \ hurt : r = From(s)
    BY <1>7
  <2>2. decoded'[s] = decoded[r] /\ Has(cells, r, p)
    BY <1>7, <1>13, <2>1
  <2>3. Has(cells, r, q)
    BY <1>3, <2>2 DEF Sound, Up
  <2> QED BY <1>13, <2>1, <2>3
<1> QED BY <1>1, <1>2, <1>14, <1>15, <1>16, <1>17, CacheIdle DEF Sound

(* The empty cache.                                                        *)
LEMMA InitCache == Init => CacheInv
<1> SUFFICES ASSUME Init PROVE CacheInv
  OBVIOUS
<1>1. /\ \A st \in Streams, c \in Cells : cells[st][c].seqs = {}
      /\ pc = "idle" /\ \A s \in Seqs : decoded[s] = 0
      /\ stack = <<>> /\ plan = <<>>
  BY DEF Init, Empty
<1>2. ~InDry /\ ~Trying /\ Levels = 0 /\ (\A i : i \notin 1 .. Levels) /\ First = 1
      /\ \A s, p : ~Computing(s, p)
  BY <1>1 DEF InDry, Trying, Levels, First, Computing
<1>3. \A s \in Seqs : seq_to_stream(s) \in Streams
  BY DEF Streams, seq_to_stream
<1>4. Below(cells) /\ Apart(cells)
  BY <1>1 DEF Below, Apart
<1>5. Kept(cells)
  <2>1. \A s \in Seqs : \A q : q \notin 0 .. decoded[s] - 1
    BY <1>1
  <2> QED BY <2>1 DEF Kept
<1>6. Up(cells)
  BY <1>1, <1>3 DEF Up, Has
<1>7. Settled /\ PutIn
  BY <1>2, <1>4, <1>5, <1>6 DEF Settled, Sound, PutIn
<1>8. SafeTokens /\ SafeCells /\ Singles
  BY <1>2 DEF SafeTokens, SafeCells, Singles
<1>9. TriedIn /\ TriedBelow /\ TriedApart /\ TriedSingles
  BY <1>2 DEF TriedIn, TriedBelow, TriedApart, TriedSingles
<1> QED BY <1>7, <1>8, <1>9 DEF CacheInv

(* A step that changes nothing.                                            *)
LEMMA SameCache ==
    ASSUME CacheInv, UNCHANGED vars
    PROVE  CacheInv'
<1>1. UNCHANGED <<unified, cells, pc, rest, stack, plan, decoded, before, hurt>>
  BY DEF vars
<1>2. Levels' = Levels /\ First' = First /\ InDry' = InDry /\ (Trying' <=> Trying)
      /\ Streams' = Streams /\ Cells' = Cells /\ (\A s : seq_to_stream(s)' = seq_to_stream(s))
  BY <1>1, FrameLevel DEF Levels, First, InDry, Trying
<1>3. \A i : Ub(i)' = Ub(i) /\ Slot(i)' = Slot(i)
  BY <1>1, LevelsSame
<1>4. \A i :
         /\ \A st, c : TakesAt(i, st, c)' <=> TakesAt(i, st, c)
         /\ \A st, c, s, p : PutsAt(i, st, c, s, p)' <=> PutsAt(i, st, c, s, p)
         /\ \A s, p : InLevel(i, s, p)' <=> InLevel(i, s, p)
  BY <1>3, LevelFacts
<1>5. \A i, s, q : Ahead(i, s, q) <=> Ahead(i, s, q)'
  BY <1>1, <1>4, AheadSame
<1>6. \A i, st, c : OldCell(i, st, c)' = OldCell(i, st, c)
  BY <1>1 DEF OldCell
<1>7. \A s, p : Computing(s, p)' <=> Computing(s, p)
  BY <1>1, <1>4 DEF Computing
<1>8. \A k : Sound(k) => Sound(k)'
  BY <1>1, <1>7, SoundSame
<1>9. Settled'
  <2>1. CASE InDry
    <3>1. PICK k : k = before
      OBVIOUS
    <3>2. Sound(k)
      BY <2>1, <3>1, SoundCells DEF CacheInv, Settled
    <3> QED BY <1>1, <1>2, <1>8, <2>1, <3>1, <3>2, SoundCells DEF Settled
  <2>2. CASE ~InDry
    <3>1. PICK k : k = cells
      OBVIOUS
    <3>2. Sound(k)
      BY <2>2, <3>1, SoundCells DEF CacheInv, Settled
    <3> QED BY <1>1, <1>2, <1>8, <2>2, <3>1, <3>2, SoundCells DEF Settled
  <2> QED BY <2>1, <2>2
<1>10. PutIn'
  BY <1>1, <1>2, <1>7 DEF CacheInv, PutIn, Has
<1>11. SafeTokens'
  BY <1>1, <1>2, <1>4, <1>5 DEF CacheInv, SafeTokens
<1>12. SafeCells'
  <2> SUFFICES ASSUME pc # "failed", NEW i \in First .. Levels, NEW st, NEW c, NEW x,
                      x = OldCell(i, st, c), NEW s \in x.seqs, TakesAt(i, st, c), s \notin hurt,
                      \A j \in First .. i - 1 : ~TakesAt(j, st, c)
               PROVE  Ahead(i, s, x.pos)'
    BY <1>1, <1>2, <1>4, <1>6 DEF SafeCells
  <2>1. Ahead(i, s, x.pos)
    BY DEF CacheInv, SafeCells
  <2> QED BY <1>5, <2>1
<1>13. Singles'
  <2> SUFFICES ASSUME NEW i \in 1 .. Levels, NEW st, NEW c, TakesAt(i, st, c),
                      i > Len(stack) => \A j \in 1 .. Len(stack) : ~TakesAt(j, st, c)
               PROVE  Single(OldCell(i, st, c))
    BY <1>1, <1>2, <1>4, <1>6 DEF Singles, Single
  <2> QED BY DEF CacheInv, Singles
<1>14. TriedIn'
  <2> SUFFICES ASSUME Trying', NEW j \in (1 .. Levels)', NEW st, NEW c, NEW s, NEW p,
                      PutsAt(j, st, c, s, p)', s \notin hurt',
                      (\A k \in j + 1 .. Levels : ~TakesAt(k, st, c))'
               PROVE  cells'[st][c] = [pos |-> p, seqs |-> {s}]
    BY DEF TriedIn
  <2>1. /\ Trying /\ j \in 1 .. Levels /\ PutsAt(j, st, c, s, p) /\ s \notin hurt
        /\ \A k \in j + 1 .. Levels : ~TakesAt(k, st, c)
    BY <1>1, <1>2, <1>4
  <2>2. cells[st][c] = [pos |-> p, seqs |-> {s}]
    BY <2>1 DEF CacheInv, TriedIn
  <2> QED BY <1>1, <2>2
<1>15. TriedBelow'
  BY <1>1, <1>2, <1>4 DEF CacheInv, TriedBelow
<1>16. TriedApart' /\ TriedSingles'
  BY <1>1, <1>2, <1>4 DEF CacheInv, TriedApart, TriedSingles, Apart, Single
<1> QED BY <1>9, <1>10, <1>11, <1>12, <1>13, <1>14, <1>15, <1>16 DEF CacheInv

(* While a batch is tried, what find_slot may overwrite is of one sequence *)
(* and out of the windows of all its tokens that are still to come.        *)
LEMMA MaskedAhead ==
    ASSUME DryRunInv, TypeInv, CacheInv, Trying, plan = <<>>,
           NEW st \in Streams, NEW c \in Cells, can_use(cells[st], c)
    PROVE  /\ Single(cells[st][c])
           /\ \A i : i = Levels + 1 => \A s \in cells[st][c].seqs : Ahead(i, s, cells[st][c].pos)
<1>1. CASE cells[st][c] = Empty
  BY <1>1 DEF Empty, Single
<1>2. CASE cells[st][c] # Empty
  <2>1. PICK s \in Seqs : /\ cells[st][c].seqs = {s}
                          /\ is_masked_swa(cells[st][c].pos, seq_pos_max(cells[st], s) + 1)
    BY <1>2 DEF can_use
  <2>2. PICK k, m : k = cells[st] /\ m = seq_pos_max(k, s)
    OBVIOUS
  <2>3. \A d \in Cells : GoodCell(k[d])
    BY <2>2 DEF TypeInv, CellsGood
  <2>4. s \in k[c].seqs
    BY <2>1, <2>2
  <2>5. m \in Int /\ \E d \in Cells : s \in k[d].seqs /\ k[d].pos = m
    BY <2>2, <2>3, <2>4, LastPosition
  <2>6. PICK d \in Cells : s \in cells[st][d].seqs /\ cells[st][d].pos = m
    BY <2>2, <2>5
  <2>7. m < decoded[s] \/ \E i \in 1 .. Levels : InLevel(i, s, m)
    BY <2>6 DEF CacheInv, TriedBelow
  <2>8. m \in Positions
    BY <2>3, <2>2, <2>6, GoodEmpty
  <2>9. /\ decoded[s] \in Nat /\ NSwa \in Nat /\ MaxLen \in Nat /\ m \in Nat
        /\ cells[st][c].pos \in Int
    BY <2>2, <2>3, <2>8, PlaceAssumption, GoodEmpty DEF TypeInv, ScalarType, Positions
  <2>10. cells[st][c].pos + NSwa <= m + 1
    BY <2>1, <2>2, <2>9 DEF is_masked_swa
  <2>11. ASSUME NEW p \in decoded[s] .. MaxLen, \A i \in 1 .. Levels : ~InLevel(i, s, p)
         PROVE  m < p
    <3>1. CASE m < decoded[s]
      BY <2>9, <3>1
    <3>2. CASE \E i \in 1 .. Levels : InLevel(i, s, m)
      <4> SUFFICES ASSUME p <= m PROVE FALSE
        BY <2>9
      <4>1. PICK i \in 1 .. Levels : InLevel(i, s, m)
        BY <3>2
      <4>2. IsTodo(s, m)
        BY <4>1 DEF IsTodo
      <4>3. p \in decoded[s] .. m /\ pc = "prepare"
        BY <2>9 DEF Trying
      <4>4. IsTodo(s, p)
        BY <2>8, <4>2, <4>3 DEF TypeInv, InOrder
      <4>5. <<s, p>> \in Range(rest)
        BY <2>11, <4>4 DEF IsTodo
      <4>6. m < p
        BY <4>1, <4>3, <4>5 DEF TypeInv, InOrder
      <4> QED BY <2>9, <4>6
    <3> QED BY <2>7, <3>1, <3>2
  <2>12. \A i : i = Levels + 1 => Ahead(i, s, cells[st][c].pos)
    <3> SUFFICES ASSUME NEW i, i = Levels + 1, NEW p \in decoded[s] .. MaxLen,
                        \A j \in 1 .. i - 1 : ~InLevel(j, s, p)
                 PROVE  cells[st][c].pos + NSwa <= p
      BY DEF Ahead
    <3>1. Levels \in Nat
      BY LevelsGood DEF TypeInv, DryRunInv
    <3>2. \A j \in 1 .. Levels : ~InLevel(j, s, p)
      BY <3>1
    <3>3. m < p
      BY <2>11, <3>2
    <3> QED BY <2>9, <2>10, <3>3
  <2> QED BY <2>1, <2>12 DEF Single
<1> QED BY <1>1, <1>2

(* What the cells have of a sequence is before the tokens that are left.   *)
LEMMA BeforeRest ==
    ASSUME TypeInv, CacheInv, Trying,
           NEW st \in Streams, NEW c \in Cells, NEW s \in cells[st][c].seqs,
           NEW p, <<s, p>> \in Range(rest)
    PROVE  cells[st][c].pos < p /\ cells[st][c].pos \in Int /\ p \in Int
<1>1. pc = "prepare"
  BY DEF Trying
<1>2. s \in Seqs /\ p \in Positions
  <2>1. <<s, p>> \in Tokens
    <3>1. rest \in Seq(Tokens)
      BY DEF TypeInv, BatchType
    <3>2. PICK i \in DOMAIN rest : rest[i] = <<s, p>>
      BY DEF Range
    <3> QED BY <3>1, <3>2
  <2> QED BY <2>1 DEF Tokens
<1>3. p >= decoded[s]
  BY <1>1, <1>2 DEF TypeInv, InOrder, IsTodo
<1>4. \/ cells[st][c].pos < decoded[s]
      \/ \E i \in 1 .. Levels : InLevel(i, s, cells[st][c].pos)
  BY DEF CacheInv, TriedBelow
<1>5. decoded[s] \in Nat /\ cells[st][c].pos \in Int /\ p \in Int
  BY <1>2, PlaceAssumption, GoodEmpty DEF TypeInv, ScalarType, CellsGood, Positions
<1>6. CASE cells[st][c].pos < decoded[s]
  BY <1>3, <1>5, <1>6
<1>7. CASE \E i \in 1 .. Levels : InLevel(i, s, cells[st][c].pos)
  BY <1>1, <1>5, <1>7 DEF TypeInv, InOrder
<1> QED BY <1>4, <1>6, <1>7, <1>5

(* A ubatch is tried out.                                                  *)
LEMMA PrepareCache ==
    ASSUME DryRunInv, TypeInv, CacheInv, Prepare
    PROVE  CacheInv'
<1>1. PICK ub, ix, e :
        /\ ub = next_ubatch /\ ix = find_slot(ub)
        /\ e = [ub |-> ub, idxs |-> ix, heads |-> heads,
                old |-> [st \in DOMAIN ub |-> [c \in Range(ix[st]) |-> cells[st][c]]]]
        /\ stack' = Append(stack, e) /\ apply_ubatch(ub, ix)
        /\ hurt' = hurt \cup Bereft(ub, ix)
  BY DEF Prepare
<1>2. /\ pc = "prepare" /\ pc' = "prepare" /\ rest # <<>>
      /\ UNCHANGED <<unified, plan, decoded, before>>
  BY DEF Prepare
<1>3. /\ Streams' = Streams /\ Cells' = Cells
      /\ \A s : seq_to_stream(s)' = seq_to_stream(s)
  BY <1>2, FrameLevel
<1>4. /\ plan = <<>> /\ IsLevel(ub, ix)
      /\ \A t \in TokenSet(ub) : t \in Range(rest)
      /\ \A st, c : Takes(ub, ix, st, c) => can_use(cells[st], c)
  BY <1>1, Tried
<1>5. PICK n \in Nat : n = Levels /\ n = Len(stack)
  BY <1>1, <1>2, <1>4, LevelsPush DEF DryRunInv
<1>6. PICK N \in Nat : N = n + 1
  OBVIOUS
<1>7. /\ Levels' = N /\ Len(stack') = N
      /\ \A i \in 1 .. n : Ub(i)' = Ub(i) /\ Slot(i)' = Slot(i) /\ stack'[i] = stack[i]
      /\ Ub(N)' = ub /\ Slot(N)' = ix /\ stack'[N] = e
  <2>1. \A i : i = n + 1 => Ub(i)' = e.ub /\ Slot(i)' = e.idxs /\ stack'[i] = e
    BY <1>1, <1>2, <1>4, <1>5, LevelsPush DEF DryRunInv
  <2>2. e.ub = ub /\ e.idxs = ix
    BY <1>1
  <2>3. Levels' = n + 1 /\ Len(stack') = n + 1
    BY <1>1, <1>2, <1>4, <1>5, LevelsPush DEF DryRunInv
  <2>4. \A i \in 1 .. n : Ub(i)' = Ub(i) /\ Slot(i)' = Slot(i) /\ stack'[i] = stack[i]
    BY <1>1, <1>2, <1>4, <1>5, LevelsPush DEF DryRunInv
  <2> QED BY <1>6, <2>1, <2>2, <2>3, <2>4
<1>8. \A i \in 1 .. n :
         /\ \A st, c : TakesAt(i, st, c)' <=> TakesAt(i, st, c)
         /\ \A st, c, s, p : PutsAt(i, st, c, s, p)' <=> PutsAt(i, st, c, s, p)
         /\ \A s, p : InLevel(i, s, p)' <=> InLevel(i, s, p)
  BY <1>7, LevelFacts
<1>9. /\ \A st, c : TakesAt(N, st, c)' <=> Takes(ub, ix, st, c)
      /\ \A st, c, s, p : PutsAt(N, st, c, s, p)' <=> Puts(ub, ix, st, c, s, p)
      /\ \A s, p : InLevel(N, s, p)' <=> <<s, p>> \in TokenSet(ub)
  BY <1>7 DEF TakesAt, Takes, PutsAt, Puts, InLevel, TokenSet
<1>10. \A i \in 1 .. N : i = N \/ i \in 1 .. n
  BY <1>6
<1>11. \A i \in 1 .. N : \A s, q : Ahead(i, s, q) <=> Ahead(i, s, q)'
  <2> SUFFICES ASSUME NEW i \in 1 .. N PROVE \A s, q : Ahead(i, s, q) <=> Ahead(i, s, q)'
    OBVIOUS
  <2>1. \A k \in 1 .. i - 1 : k \in 1 .. n
    BY <1>6
  <2> QED BY <1>2, <1>8, <2>1, AheadSame
<1>12. /\ Trying /\ InDry /\ InDry' /\ First = 1 /\ First' = 1 /\ pc # "failed"
       /\ (\A s, p : ~Computing(s, p)) /\ (\A s, p : ~Computing(s, p))'
  BY <1>2 DEF Trying, InDry, First, Computing
<1>13. \A st, c : Takes(ub, ix, st, c) =>
          /\ st \in Streams /\ c \in Cells /\ Single(cells[st][c])
          /\ \A s \in cells[st][c].seqs : Ahead(N, s, cells[st][c].pos)
  <2>1. \A st, c : Takes(ub, ix, st, c) => st \in Streams /\ c \in Cells
    BY <1>4, SlotRelation
  <2> SUFFICES ASSUME NEW st, NEW c, Takes(ub, ix, st, c)
               PROVE  /\ Single(cells[st][c])
                      /\ \A s \in cells[st][c].seqs : Ahead(N, s, cells[st][c].pos)
    BY <2>1
  <2>2. st \in Streams /\ c \in Cells /\ can_use(cells[st], c)
    BY <1>4, <2>1
  <2>3. /\ Single(cells[st][c])
        /\ \A i : i = Levels + 1 => \A s \in cells[st][c].seqs : Ahead(i, s, cells[st][c].pos)
    BY <1>4, <1>12, <2>2, MaskedAhead
  <2> QED BY <1>5, <1>6, <2>3
<1>14. Settled' /\ PutIn'
  <2>1. PICK b : b = before
    OBVIOUS
  <2>2. Sound(b)
    BY <1>12, <2>1, SoundCells DEF CacheInv, Settled
  <2>3. hurt \subseteq hurt'
    BY <1>1
  <2>4. Sound(b)'
    BY <1>2, <1>12, <2>2, <2>3, SoundSame
  <2> QED BY <1>2, <1>12, <2>1, <2>4, SoundCells DEF Settled, PutIn
<1>15. SafeTokens'
  <2> SUFFICES ASSUME NEW i \in 1 .. N, NEW j \in 1 .. i - 1, NEW st, NEW c, NEW s, NEW p,
                      TakesAt(i, st, c)', PutsAt(j, st, c, s, p)',
                      \A k \in j + 1 .. i - 1 : ~TakesAt(k, st, c)', s \notin hurt'
               PROVE  Ahead(i, s, p)'
    BY <1>7, <1>12 DEF SafeTokens
  <2>1. /\ j \in 1 .. n /\ \A k \in j + 1 .. i - 1 : k \in 1 .. n
    BY <1>6
  <2>2. PutsAt(j, st, c, s, p) /\ (\A k \in j + 1 .. i - 1 : ~TakesAt(k, st, c)) /\ s \notin hurt
    BY <1>1, <1>8, <2>1
  <2>3. CASE i \in 1 .. n
    <3>1. TakesAt(i, st, c)
      BY <1>8, <2>3
    <3>2. Ahead(i, s, p)
      BY <1>5, <1>12, <2>2, <2>3, <3>1 DEF CacheInv, SafeTokens
    <3> QED BY <1>11, <3>2
  <2>4. CASE i = N
    <3>1. \A k \in j + 1 .. n : ~TakesAt(k, st, c)
      BY <1>6, <2>2, <2>4
    <3>2. cells[st][c] = [pos |-> p, seqs |-> {s}]
      BY <1>5, <1>12, <2>1, <2>2, <3>1 DEF CacheInv, TriedIn
    <3>3. Ahead(N, s, cells[st][c].pos)
      BY <1>9, <1>13, <2>4, <3>2
    <3>4. cells[st][c].pos = p
      BY <3>2
    <3> QED BY <1>11, <2>4, <3>3, <3>4
  <2> QED BY <1>10, <2>3, <2>4
<1>16. \A st, c : Takes(ub, ix, st, c) => stack'[N].old[st][c] = cells[st][c]
  <2> SUFFICES ASSUME NEW st, NEW c, Takes(ub, ix, st, c)
               PROVE  stack'[N].old[st][c] = cells[st][c]
    OBVIOUS
  <2>1. st \in DOMAIN ub /\ c \in Range(ix[st])
    BY DEF Takes
  <2>2. stack'[N].old = [s \in DOMAIN ub |-> [d \in Range(ix[s]) |-> cells[s][d]]]
    BY <1>1, <1>7
  <2> QED BY <2>1, <2>2
<1>17. /\ \A i \in 1 .. n : \A st, c : OldCell(i, st, c)' = OldCell(i, st, c)
       /\ \A st, c : Takes(ub, ix, st, c) => OldCell(N, st, c)' = cells[st][c]
  <2>1. \A i \in 1 .. n : \A st, c : OldCell(i, st, c)' = OldCell(i, st, c)
    <3> SUFFICES ASSUME NEW i \in 1 .. n, NEW st, NEW c
                 PROVE  OldCell(i, st, c)' = OldCell(i, st, c)
      OBVIOUS
    <3>1. i <= Len(stack) /\ i <= Len(stack')
      BY <1>5, <1>6, <1>7
    <3> QED BY <1>7, <3>1 DEF OldCell
  <2>2. N <= Len(stack')
    BY <1>7
  <2>3. \A st, c : OldCell(N, st, c)' = stack'[N].old[st][c]
    BY <2>2 DEF OldCell
  <2> QED BY <1>16, <2>1, <2>3
<1>18. SafeCells'
  <2> SUFFICES ASSUME NEW i \in 1 .. N, NEW st, NEW c, NEW x, x = OldCell(i, st, c)',
                      NEW s \in x.seqs, TakesAt(i, st, c)', s \notin hurt',
                      \A j \in 1 .. i - 1 : ~TakesAt(j, st, c)'
               PROVE  Ahead(i, s, x.pos)'
    BY <1>7, <1>12 DEF SafeCells
  <2>1. CASE i \in 1 .. n
    <3>1. TakesAt(i, st, c) /\ s \notin hurt /\ x = OldCell(i, st, c)
      BY <1>1, <1>8, <1>17, <2>1
    <3>2. \A j \in 1 .. i - 1 : j \in 1 .. n
      BY <1>6
    <3>3. \A j \in 1 .. i - 1 : ~TakesAt(j, st, c)
      BY <1>8, <3>2
    <3>4. Ahead(i, s, x.pos)
      BY <1>5, <1>12, <2>1, <3>1, <3>3 DEF CacheInv, SafeCells
    <3> QED BY <1>11, <3>4
  <2>2. CASE i = N
    <3>1. Takes(ub, ix, st, c) /\ x = cells[st][c]
      BY <1>9, <1>17, <2>2
    <3>2. Ahead(N, s, x.pos)
      BY <1>13, <3>1
    <3> QED BY <1>11, <2>2, <3>2
  <2> QED BY <1>10, <2>1, <2>2
<1>19. Singles'
  <2> SUFFICES ASSUME NEW i \in 1 .. N, NEW st, NEW c, TakesAt(i, st, c)'
               PROVE  Single(OldCell(i, st, c)')
    BY <1>7 DEF Singles, Single
  <2>1. CASE i \in 1 .. n
    <3>1. TakesAt(i, st, c) /\ ~(i > Len(stack))
      BY <1>5, <1>8, <2>1
    <3>2. Single(OldCell(i, st, c))
      BY <1>5, <2>1, <3>1 DEF CacheInv, Singles
    <3> QED BY <1>17, <2>1, <3>2
  <2>2. CASE i = N
    BY <1>9, <1>13, <1>17, <2>2
  <2> QED BY <1>10, <2>1, <2>2
<1>20. \A st \in Streams, c \in Cells : GoodCell(cells[st][c])
  BY DEF TypeInv, CellsGood
<1>21. \A st \in Streams, c \in Cells :
         /\ GoodCell(cells'[st][c])
         /\ \A s, p : Puts(ub, ix, st, c, s, p) =>
               /\ cells'[st][c].seqs \subseteq {s}
               /\ cells'[st][c].seqs # {} => cells'[st][c].pos = p
               /\ Behind(ub, ix, st, s, p) => cells'[st][c] = [pos |-> p, seqs |-> {s}]
         /\ ~Takes(ub, ix, st, c) =>
               /\ Less(cells'[st][c], cells[st][c])
               /\ \A s \in cells[st][c].seqs :
                     s \in cells'[st][c].seqs <=> Behind(ub, ix, st, s, cells[st][c].pos)
         /\ st \notin DOMAIN ub => cells'[st] = cells[st]
  BY <1>1, <1>4, <1>20, Applied
<1>21a. ASSUME NEW st \in Streams, NEW c \in Cells, NEW s, NEW p, Puts(ub, ix, st, c, s, p)
       PROVE  /\ cells'[st][c].seqs \subseteq {s}
              /\ \A r \in cells'[st][c].seqs : r = s /\ cells'[st][c].pos = p
              /\ Behind(ub, ix, st, s, p) => cells'[st][c] = [pos |-> p, seqs |-> {s}]
  <2>1. PICK y : y = cells'[st][c]
    OBVIOUS
  <2>2. \A r, q : Puts(ub, ix, st, c, r, q) =>
           /\ y.seqs \subseteq {r}
           /\ y.seqs # {} => y.pos = q
           /\ Behind(ub, ix, st, r, q) => y = [pos |-> q, seqs |-> {r}]
    BY <1>21, <2>1
  <2>3. /\ y.seqs \subseteq {s}
        /\ \A r \in y.seqs : r = s /\ y.pos = p
        /\ Behind(ub, ix, st, s, p) => y = [pos |-> p, seqs |-> {s}]
    BY <1>21a, <2>2
  <2> QED BY <2>1, <2>3
<1>22. /\ \A st, c, s, p : Puts(ub, ix, st, c, s, p) =>
             /\ Takes(ub, ix, st, c) /\ <<s, p>> \in TokenSet(ub) /\ st \in Streams
             /\ c \in Cells /\ s \in Seqs /\ p \in Positions /\ seq_to_stream(s) = st
       /\ \A st, c : Takes(ub, ix, st, c) =>
             st \in Streams /\ c \in Cells /\ \E s \in Seqs, p \in Positions : Puts(ub, ix, st, c, s, p)
       /\ \A st, c, d, s, p : Puts(ub, ix, st, c, s, p) /\ Puts(ub, ix, st, d, s, p) => c = d
  BY <1>4, SlotRelation
<1>23. \A st \in Streams, c \in Cells : \A s \in cells'[st][c].seqs :
         \/ Puts(ub, ix, st, c, s, cells'[st][c].pos)
         \/ /\ ~Takes(ub, ix, st, c) /\ s \in cells[st][c].seqs
            /\ cells'[st][c].pos = cells[st][c].pos
  BY <1>1, <1>4, <1>20, AppliedSource
<1>24. \A st \in Streams, c \in Cells : \A s, p : Puts(ub, ix, st, c, s, p) =>
          cells'[st][c] = [pos |-> p, seqs |-> {s}]
  <2> SUFFICES ASSUME NEW st \in Streams, NEW c \in Cells, NEW s, NEW p, Puts(ub, ix, st, c, s, p)
               PROVE  cells'[st][c] = [pos |-> p, seqs |-> {s}]
    OBVIOUS
  <2>1. <<s, p>> \in Range(rest)
    BY <1>4, <1>22
  <2>2. Behind(ub, ix, st, s, p)
    <3> SUFFICES ASSUME NEW d \in Cells, cells[st][d].seqs = {s}
                 PROVE  cells[st][d].pos < p
      BY DEF Behind
    <3>1. s \in cells[st][d].seqs
      OBVIOUS
    <3> QED BY <1>12, <2>1, <3>1, BeforeRest
  <2> QED BY <1>21a, <2>2
<1>25. \A st \in Streams, c \in Cells : ~Takes(ub, ix, st, c) =>
          cells[st][c].seqs \ cells'[st][c].seqs \subseteq hurt'
  <2> SUFFICES ASSUME NEW st \in Streams, NEW c \in Cells, ~Takes(ub, ix, st, c),
                      NEW s \in cells[st][c].seqs, s \notin cells'[st][c].seqs
               PROVE  s \in hurt'
    OBVIOUS
  <2>1. CASE st \in DOMAIN ub
    <3>1. c \in Cells \ Range(ix[st])
      BY <2>1 DEF Takes
    <3>2. s \in Bereft(ub, ix)
      BY <2>1, <3>1 DEF Bereft
    <3> QED BY <1>1, <3>2
  <2>2. CASE st \notin DOMAIN ub
    <3>1. cells'[st] = cells[st]
      BY <1>21, <2>2
    <3> QED BY <3>1
  <2> QED BY <2>1, <2>2
<1>26. TriedIn'
  <2> SUFFICES ASSUME NEW j \in 1 .. N, NEW st, NEW c, NEW s, NEW p,
                      PutsAt(j, st, c, s, p)', s \notin hurt',
                      \A k \in j + 1 .. N : ~TakesAt(k, st, c)'
               PROVE  cells'[st][c] = [pos |-> p, seqs |-> {s}]
    BY <1>7 DEF TriedIn
  <2>1. CASE j = N
    <3>1. Puts(ub, ix, st, c, s, p)
      BY <1>9, <2>1
    <3>2. st \in Streams /\ c \in Cells
      BY <1>22, <3>1
    <3> QED BY <1>24, <3>1, <3>2
  <2>2. CASE j \in 1 .. n
    <3>1. PutsAt(j, st, c, s, p) /\ s \notin hurt
      BY <1>1, <1>8, <2>2
    <3>2. N \in j + 1 .. N /\ \A k \in j + 1 .. n : k \in j + 1 .. N /\ k \in 1 .. n
      BY <1>6, <2>2
    <3>3. ~Takes(ub, ix, st, c) /\ \A k \in j + 1 .. n : ~TakesAt(k, st, c)
      BY <1>8, <1>9, <3>2
    <3>4. cells[st][c] = [pos |-> p, seqs |-> {s}]
      BY <1>5, <1>12, <2>2, <3>1, <3>3 DEF CacheInv, TriedIn
    <3>5. st \in Streams /\ c \in Cells
      <4>1. IsLevel(Ub(j), Slot(j))
        BY <1>5, <2>2, LevelsGood DEF TypeInv, DryRunInv
      <4> QED BY <3>1, <4>1, SlotRelation DEF PutsAt
    <3>6. s \in cells'[st][c].seqs
      BY <1>25, <3>3, <3>4, <3>5
    <3>7. cells'[st][c].seqs \subseteq {s} /\ cells'[st][c].pos = p
      <4>1. Less(cells'[st][c], cells[st][c])
        BY <1>21, <3>3, <3>5, Zenon
      <4> QED BY <3>4, <3>6, <4>1 DEF Less
    <3>8. cells'[st][c] = [pos |-> cells'[st][c].pos, seqs |-> cells'[st][c].seqs]
      BY <1>21, <3>5, GoodEmpty
    <3>9. cells'[st][c].seqs = {s}
      BY <3>6, <3>7
    <3> QED BY <3>7, <3>8, <3>9
  <2> QED BY <1>10, <2>1, <2>2
<1>27. TriedBelow'
  <2> SUFFICES ASSUME NEW st \in Streams, NEW c \in Cells, NEW s \in cells'[st][c].seqs, NEW q,
                      q = cells'[st][c].pos
               PROVE  /\ seq_to_stream(s) = st
                      /\ q < decoded[s] \/ \E i \in 1 .. N : InLevel(i, s, q)'
    BY <1>2, <1>3, <1>7 DEF TriedBelow
  <2>1. CASE Puts(ub, ix, st, c, s, q)
    <3>1. seq_to_stream(s) = st /\ <<s, q>> \in TokenSet(ub)
      BY <1>22, <2>1
    <3>2. N \in 1 .. N /\ InLevel(N, s, q)'
      BY <1>6, <1>9, <3>1
    <3> QED BY <3>1, <3>2
  <2>2. CASE s \in cells[st][c].seqs /\ q = cells[st][c].pos
    <3>1. seq_to_stream(s) = st /\ (q < decoded[s] \/ \E i \in 1 .. n : InLevel(i, s, q))
      BY <1>5, <1>12, <2>2 DEF CacheInv, TriedBelow
    <3>2. \A i \in 1 .. n : i \in 1 .. N
      BY <1>6
    <3> QED BY <1>8, <3>1, <3>2
  <2> QED BY <1>23, <2>1, <2>2
<1>28. TriedApart'
  <2> SUFFICES ASSUME NEW st \in Streams, NEW c \in Cells, NEW d \in Cells, NEW s,
                      s \in cells'[st][c].seqs, s \in cells'[st][d].seqs,
                      cells'[st][c].pos = cells'[st][d].pos
               PROVE  c = d
    BY <1>3 DEF TriedApart, Apart
  <2>1. PICK p : p = cells'[st][c].pos
    OBVIOUS
  <2>2. \/ Puts(ub, ix, st, c, s, p)
        \/ s \in cells[st][c].seqs /\ p = cells[st][c].pos
    BY <1>23, <2>1
  <2>3. \/ Puts(ub, ix, st, d, s, p)
        \/ s \in cells[st][d].seqs /\ p = cells[st][d].pos
    BY <1>23, <2>1
  <2>4. Puts(ub, ix, st, c, s, p) \/ Puts(ub, ix, st, d, s, p) => <<s, p>> \in Range(rest)
    BY <1>4, <1>22
  <2>5. <<s, p>> \in Range(rest) => /\ ~(s \in cells[st][c].seqs /\ p = cells[st][c].pos)
                                    /\ ~(s \in cells[st][d].seqs /\ p = cells[st][d].pos)
    <3> SUFFICES ASSUME NEW f \in Cells, <<s, p>> \in Range(rest), s \in cells[st][f].seqs,
                        p = cells[st][f].pos
                 PROVE  FALSE
      OBVIOUS
    <3>1. cells[st][f].pos < p /\ cells[st][f].pos \in Int /\ p \in Int
      BY <1>12, BeforeRest
    <3> QED BY <3>1
  <2>6. CASE Puts(ub, ix, st, c, s, p) /\ Puts(ub, ix, st, d, s, p)
    BY <1>22, <2>6
  <2>7. CASE s \in cells[st][c].seqs /\ p = cells[st][c].pos /\ s \in cells[st][d].seqs /\ p = cells[st][d].pos
    BY <1>12, <2>7 DEF CacheInv, TriedApart, Apart
  <2> QED BY <2>2, <2>3, <2>4, <2>5, <2>6, <2>7
<1>29. TriedSingles'
  <2> SUFFICES ASSUME NEW i \in 1 .. N, NEW st, NEW c, TakesAt(i, st, c)'
               PROVE  Single(cells'[st][c])
    BY <1>7 DEF TriedSingles, Single
  <2>1. CASE Takes(ub, ix, st, c)
    <3>1. PICK r \in Seqs, p \in Positions : Puts(ub, ix, st, c, r, p)
      BY <1>22, <2>1
    <3>2. cells'[st][c].seqs \subseteq {r}
      BY <1>22, <1>21a, <2>1, <3>1
    <3> QED BY <3>2 DEF Single
  <2>2. CASE ~Takes(ub, ix, st, c)
    <3>1. i \in 1 .. n
      BY <1>9, <1>10, <2>2
    <3>2. TakesAt(i, st, c)
      BY <1>8, <3>1
    <3>3. Single(cells[st][c])
      BY <1>5, <1>12, <3>1, <3>2 DEF CacheInv, TriedSingles
    <3>4. st \in Streams /\ c \in Cells
      <4>1. IsLevel(Ub(i), Slot(i))
        BY <1>5, <3>1, LevelsGood DEF TypeInv, DryRunInv
      <4> QED BY <3>2, <4>1, SlotRelation DEF TakesAt
    <3>5. Less(cells'[st][c], cells[st][c])
      BY <1>21, <2>2, <3>4, Zenon
    <3> QED BY <3>3, <3>5 DEF Less, Single
  <2> QED BY <2>1, <2>2
<1> QED BY <1>14, <1>15, <1>18, <1>19, <1>26, <1>27, <1>28, <1>29 DEF CacheInv

-----------------------------------------------------------------------------
(* The window, and no holes.                                               *)

(* Every step keeps what the cells hold.                                   *)
LEMMA CacheStep ==
    ASSUME DryRunInv, DryRunInv', TypeInv, CacheInv, [Next]_vars
    PROVE  CacheInv'
<1>1. ASSUME NEW b \in Batches, Decode(b) PROVE CacheInv'
  BY <1>1, DecodeCache
<1>2. CASE Prepare
  BY <1>2, PrepareCache
<1>3. CASE NoSlot
  BY <1>3, NoSlotCache
<1>4. CASE Undo
  BY <1>4, UndoCache
<1>5. CASE UndoFailed
  BY <1>5, UndoFailedCache
<1>6. CASE SplitAgain
  BY <1>6, SplitAgainCache
<1>7. CASE GiveUp
  BY <1>7, GiveUpCache
<1>8. CASE Apply
  BY <1>8, ApplyCache
<1>9. CASE Computed
  BY <1>9, ComputedCache
<1>10. CASE ComputeFails
  BY <1>10, ComputeFailsCache
<1>11. ASSUME NEW s \in Seqs, NEW p0 \in Positions, Reuse(s, p0) PROVE CacheInv'
  BY <1>11, ReuseCache
<1>12. ASSUME NEW src \in Seqs, NEW dst \in Seqs, Copy(src, dst) PROVE CacheInv'
  BY <1>12, CopyCache
<1>13. CASE UNCHANGED vars
  BY <1>13, SameCache
<1> QED BY <1>1, <1>2, <1>3, <1>4, <1>5, <1>6, <1>7, <1>8, <1>9, <1>10, <1>11, <1>12, <1>13 DEF Next

(* The invariant of the cells holds.                                       *)
THEOREM PlaceCacheInvariant == Spec => []CacheInv
<1>1. Init => CacheInv
  BY InitCache
<1>2. DryRunInv /\ DryRunInv' /\ TypeInv /\ CacheInv /\ [Next]_vars => CacheInv'
  BY CacheStep
<1> QED BY <1>1, <1>2, PlaceDryRunInvariant, PlaceTypeInvariant, PTL DEF Spec

(* A position that the cells have is in one of them.                       *)
LEMMA ShownOnce ==
    ASSUME unified \in BOOLEAN, Apart(cells), NEW s \in Seqs, NEW q, Has(cells, s, q)
    PROVE  Cardinality(Showing(s, q)) = 1
<1>1. PICK st \in Streams : st = seq_to_stream(s)
  BY DEF Streams, seq_to_stream
<1>2. PICK c \in Cells : s \in cells[st][c].seqs /\ cells[st][c].pos = q
  BY <1>1 DEF Has
<1>3. \A d : d \in Showing(s, q) <=> d \in Cells /\ s \in cells[st][d].seqs /\ cells[st][d].pos = q
  BY <1>1 DEF Showing
<1>4. \A d : d \in Showing(s, q) => d = c
  BY <1>2, <1>3 DEF Apart
<1>5. Showing(s, q) = {c}
  BY <1>2, <1>3, <1>4
<1> QED BY <1>5, FS_Singleton

(* The tokens of the ubatch whose graph runs find their windows.           *)
LEMMA CacheSees == DryRunInv /\ TypeInv /\ CacheInv => SeesWindow
<1> SUFFICES ASSUME DryRunInv, TypeInv, CacheInv, NEW s \in Seqs \ hurt, pc = "compute",
                    NEW t \in TokenSet(plan[1].ub), t[1] = s, NEW q \in Window(t[2])
             PROVE  Cardinality(Showing(s, q)) = 1
  BY DEF SeesWindow, SeesWindowOf
<1>1. stack = <<>> /\ plan # <<>> /\ IsSequence(plan)
  BY DEF TypeInv, Control, InDry, PlanType
<1>2. 1 \in 1 .. Len(plan) /\ Ub(1) = plan[1].ub
  BY <1>1 DEF IsSequence, Ub
<1>3. IsLevel(plan[1].ub, plan[1].idxs)
  BY <1>2 DEF TypeInv, PlanType
<1>4. t \in Tokens /\ t = <<t[1], t[2]>>
  BY <1>3, SlotRelation
<1>5. PICK p \in Positions : p = t[2]
  BY <1>4 DEF Tokens
<1>6. InLevel(1, s, p)
  BY <1>2, <1>4, <1>5 DEF InLevel
<1>7. PICK n \in Nat : \A r : InLevel(1, s, r) <=> r \in decoded[s] .. decoded[s] + n - 1
  BY NextPositions
<1>8. decoded[s] \in Nat /\ NSwa \in Nat /\ p \in Nat
  BY PlaceAssumption DEF TypeInv, ScalarType, Positions
<1>9. p \in decoded[s] .. decoded[s] + n - 1
  BY <1>6, <1>7
<1>10. q \in 0 .. p /\ q + NSwa > p
  BY <1>5, <1>8 DEF Window, is_masked_swa
<1>11. Sound(cells) /\ PutIn /\ \A r : InLevel(1, s, r) => Computing(s, r)
  BY DEF CacheInv, Settled, InDry, Computing
<1>12. Has(cells, s, q)
  <2>1. CASE q < decoded[s]
    <3>1. q \in 0 .. decoded[s] - 1 /\ q + NSwa > decoded[s]
      BY <1>8, <1>9, <1>10, <2>1
    <3> QED BY <1>11, <3>1 DEF Sound, Kept
  <2>2. CASE ~(q < decoded[s])
    <3>1. q \in decoded[s] .. decoded[s] + n - 1
      BY <1>8, <1>9, <1>10, <2>2
    <3> QED BY <1>7, <1>11, <3>1 DEF PutIn
  <2> QED BY <2>1, <2>2
<1> QED BY <1>11, <1>12, ShownOnce DEF Sound, DryRunInv

(* When the graph of a ubatch runs, each of its tokens finds every         *)
(* position of its window in exactly one cell, in every sequence that was  *)
(* not rolled back beyond its window and lost nothing to a dry run:        *)
(* whatever the search overwrote, with one stream or several, and however  *)
(* the batch was split.                                                    *)
THEOREM PlaceSeesWindow == Spec => []SeesWindow
  BY PlaceDryRunInvariant, PlaceTypeInvariant, PlaceCacheInvariant, CacheSees, PTL

-----------------------------------------------------------------------------
(***************************************************************************)
(* When a batch fails.  The windows must fit into the cache beside a       *)
(* ubatch; the SWA cache is made so large unless the base cache is smaller.*)
(***************************************************************************)
RoomForWindows == SizeBase >= (NSwa - 1) * NSeq + NUbatch

(* A cell that two sequences share, which unwinding the stack leaves.      *)
FailInv ==
    pc = "failed" => \E st \in Streams, c \in Cells :
        /\ \A i \in 1 .. Len(stack) : ~Covers(i, st, c)
        /\ ~Single(cells[st][c])

(* The sequences of a stream.                                              *)
Owners(st) == {s \in Seqs : seq_to_stream(s) = st}

(* All sequences, or one.                                                  *)
LEMMA OwnersCount ==
    ASSUME NEW st \in Streams, unified \in BOOLEAN
    PROVE  /\ IsFiniteSet(Owners(st))
           /\ Cardinality(Owners(st)) = IF unified THEN NSeq ELSE 1
<1>1. NSeq \in Nat \ {0}
  BY PlaceAssumption
<1>2. CASE unified
  <2>1. Owners(st) = 0 .. NSeq - 1
    BY <1>2 DEF Owners, seq_to_stream, Streams, Seqs
  <2>2. IsFiniteSet(0 .. NSeq - 1) /\ Cardinality(0 .. NSeq - 1) = NSeq
    BY <1>1, FS_Interval
  <2> QED BY <1>2, <2>1, <2>2
<1>3. CASE ~unified
  <2>1. Owners(st) = {st}
    BY <1>3 DEF Owners, seq_to_stream, Streams
  <2> QED BY <1>3, <2>1, FS_Singleton
<1> QED BY <1>2, <1>3

(* Cells that are not shared and cannot be overwritten are in the windows  *)
(* of their sequences.                                                     *)
LEMMA UnusableFew ==
    ASSUME DryRunInv, TypeInv, CacheInv, Trying, NEW st \in Streams,
           \A c \in Cells : Single(cells[st][c]),
           NEW U, U = {c \in Cells : ~can_use(cells[st], c)}
    PROVE  Cardinality(U) <= Cardinality(Owners(st)) * (NSwa - 1)
<1>1. PICK k : k = cells[st]
  OBVIOUS
<1>2. \A c \in Cells : GoodCell(k[c])
  BY <1>1 DEF TypeInv, CellsGood
<1>3. NSwa \in Nat \ {0}
  BY PlaceAssumption
<1>4. ASSUME NEW c \in U
      PROVE  \E s \in Owners(st) :
                k[c].seqs = {s} /\ seq_pos_max(k, s) - k[c].pos \in 0 .. NSwa - 2
  <2>1. c \in Cells /\ ~can_use(k, c) /\ GoodCell(k[c])
    BY <1>1, <1>2
  <2>2. k[c].seqs # {} /\ k[c].seqs \subseteq Seqs
    BY <2>1, GoodEmpty DEF can_use
  <2>3. PICK s \in Seqs : s \in k[c].seqs
    BY <2>2
  <2>4. k[c].seqs = {s}
    BY <1>1, <2>1, <2>3 DEF Single
  <2>5. ~is_masked_swa(k[c].pos, seq_pos_max(k, s) + 1)
    BY <2>1, <2>4 DEF can_use
  <2>6. seq_pos_max(k, s) \in Int /\ k[c].pos <= seq_pos_max(k, s)
    BY <1>2, <2>1, <2>3, LastPosition
  <2>7. k[c].pos \in Int
    BY <2>1, GoodEmpty
  <2>8. seq_pos_max(k, s) - k[c].pos \in 0 .. NSwa - 2
    BY <1>3, <2>5, <2>6, <2>7 DEF is_masked_swa
  <2>9. seq_to_stream(s) = st
    BY <1>1, <2>1, <2>3 DEF CacheInv, TriedBelow
  <2>10. s \in Owners(st)
    BY <2>9 DEF Owners
  <2> QED BY <2>4, <2>8, <2>10
<1> DEFINE Owner(c) == CHOOSE s \in Owners(st) :
              k[c].seqs = {s} /\ seq_pos_max(k, s) - k[c].pos \in 0 .. NSwa - 2
           T == Owners(st) \X (0 .. NSwa - 2)
           f == [c \in U |-> <<Owner(c), seq_pos_max(k, Owner(c)) - k[c].pos>>]
<1>5. \A c \in U : /\ Owner(c) \in Owners(st) /\ k[c].seqs = {Owner(c)}
                   /\ seq_pos_max(k, Owner(c)) - k[c].pos \in 0 .. NSwa - 2
  BY <1>4
<1> HIDE DEF Owner
<1>6. f \in [U -> T]
  BY <1>5
<1>7. IsFiniteSet(Owners(st))
  BY OwnersCount DEF DryRunInv
<1>8. IsFiniteSet(0 .. NSwa - 2) /\ Cardinality(0 .. NSwa - 2) = NSwa - 1
  BY <1>3, FS_Interval
<1>9. IsFiniteSet(T) /\ Cardinality(T) = Cardinality(Owners(st)) * (NSwa - 1)
  BY <1>7, <1>8, FS_Product
<1>10. IsFiniteSet(U)
  BY CellsType, FS_Subset
<1>11. \A c, d \in U : f[c] = f[d] => c = d
  <2> SUFFICES ASSUME NEW c \in U, NEW d \in U, f[c] = f[d] PROVE c = d
    OBVIOUS
  <2>1. Owner(c) = Owner(d) /\ seq_pos_max(k, Owner(c)) - k[c].pos = seq_pos_max(k, Owner(d)) - k[d].pos
    OBVIOUS
  <2>2. PICK s \in Seqs : s = Owner(c)
    BY <1>5 DEF Owners
  <2>3. c \in Cells /\ d \in Cells /\ s \in k[c].seqs /\ s \in k[d].seqs
    BY <1>5, <2>1, <2>2
  <2>4. k[c].pos \in Int /\ k[d].pos \in Int
    BY <1>2, <2>3, GoodEmpty
  <2>5. seq_pos_max(k, s) \in Int
    BY <1>2, <2>3, LastPosition
  <2>6. k[c].pos = k[d].pos
    BY <2>1, <2>2, <2>4, <2>5
  <2> QED BY <1>1, <2>3, <2>6 DEF CacheInv, TriedApart, Apart
<1> HIDE DEF T, f
<1>12. ~(Cardinality(T) < Cardinality(U))
  BY <1>6, <1>9, <1>10, <1>11, FS_PigeonHole
<1>13. Cardinality(T) \in Nat /\ Cardinality(U) \in Nat
  BY <1>9, <1>10, FS_CardinalityType
<1> QED BY <1>9, <1>12, <1>13

(* A batch for which there is no slot finds a shared cell in the way.      *)
LEMMA NoSlotFails ==
    ASSUME RoomForWindows, DryRunInv, TypeInv, CacheInv, NoSlot
    PROVE  FailInv'
<1>1. /\ pc = "prepare" /\ rest # <<>> /\ ~Fits(next_ubatch)
      /\ UNCHANGED <<unified, cells, stack, plan>>
  BY DEF NoSlot, batchVars
<1>2. Splitting /\ Trying /\ plan = <<>>
  BY <1>1 DEF Splitting, Trying, TypeInv, Control, InDry, BatchType, ScalarType, DryRunInv
<1>3. IsUbatch(next_ubatch)
  BY <1>2, NextUbatch
<1>4. PICK st \in DOMAIN next_ubatch :
        Cardinality({c \in Cells : can_use(cells[st], c)}) < NUbatch
  <2>1. \A st \in Streams : heads[st] \in 0 .. NCells
    BY DEF TypeInv, ScalarType
  <2>2. PICK ub : ub = next_ubatch
    OBVIOUS
  <2> QED BY <1>1, <1>3, <2>1, <2>2, SlotMissing
<1>5. st \in Streams
  BY <1>3 DEF IsUbatch
<1>6. PICK V, U : /\ V = {c \in Cells : can_use(cells[st], c)}
                  /\ U = {c \in Cells : ~can_use(cells[st], c)}
  OBVIOUS
<1>7. \E c \in Cells : ~Single(cells[st][c])
  <2> SUFFICES ASSUME \A c \in Cells : Single(cells[st][c]) PROVE FALSE
    OBVIOUS
  <2>1. PICK a : a = Cardinality(Owners(st))
    OBVIOUS
  <2>2. Cardinality(U) <= a * (NSwa - 1)
    BY <1>2, <1>5, <1>6, <2>1, UnusableFew
  <2>3. a = IF unified THEN NSeq ELSE 1
    BY <1>5, <2>1, OwnersCount DEF DryRunInv
  <2>4. NSeq \in Nat \ {0} /\ NSwa \in Nat \ {0} /\ NUbatch \in Nat \ {0} /\ SizeBase \in Nat \ {0}
    BY PlaceAssumption
  <2>5. a \in Nat /\ a <= NSeq
    BY <2>3, <2>4
  <2>6. PICK w \in Nat : w = a * (NSwa - 1)
    BY <2>4, <2>5
  <2>7. w <= (NSwa - 1) * NSeq /\ NSwa * a = w + a
    <3>1. CASE a = NSeq
      BY <2>4, <2>6, <3>1
    <3>2. CASE a = 1
      BY <2>4, <2>6, <3>2
    <3> QED BY <2>3, <3>1, <3>2
  <2>8. PICK x \in Int : x = (NSwa - 1) * NSeq
    BY <2>4
  <2>9. SizeBase >= w + NUbatch
    BY <2>4, <2>7, <2>8 DEF RoomForWindows
  <2>10. NCells >= w + NUbatch
    <3>1. NCells = IF SizeBase < NSwa * a + NUbatch THEN SizeBase ELSE NSwa * a + NUbatch
      BY <2>3 DEF NCells
    <3>2. NCells = IF SizeBase < (w + a) + NUbatch THEN SizeBase ELSE (w + a) + NUbatch
      BY <2>7, <3>1
    <3> QED BY <2>4, <2>5, <2>9, <3>2
  <2>11. Cardinality(Cells) = NCells /\ IsFiniteSet(Cells) /\ NCells \in Nat
    <3>1. NCells \in Nat \ {0}
      BY CellsType
    <3>2. Cardinality(0 .. NCells - 1) = NCells /\ IsFiniteSet(0 .. NCells - 1)
      BY <3>1, FS_Interval
    <3> QED BY <3>1, <3>2 DEF Cells
  <2>12. U = Cells \ V /\ Cells \cap V = V /\ V \in SUBSET Cells
    BY <1>6
  <2>13. Cardinality(U) = NCells - Cardinality(V)
    BY <2>11, <2>12, FS_Difference
  <2>14. Cardinality(V) \in Nat /\ Cardinality(V) < NUbatch
    BY <1>4, <1>6, <2>11, <2>12, FS_Subset, FS_CardinalityType
  <2> QED BY <2>2, <2>4, <2>6, <2>10, <2>11, <2>13, <2>14
<1>8. PICK c \in Cells : ~Single(cells[st][c])
  BY <1>7
<1>9. \A i \in 1 .. Len(stack) : ~Covers(i, st, c)
  <2>1. \A i \in 1 .. Len(stack) : i \in 1 .. Levels
    BY <1>2 DEF Levels, DryRunInv, IsSequence
  <2>2. \A i \in 1 .. Len(stack) : ~TakesAt(i, st, c)
    BY <1>2, <1>8, <2>1 DEF CacheInv, TriedSingles
  <2> QED BY <2>2, CoversTakes DEF DryRunInv, TypeInv
<1> QED BY <1>1, <1>5, <1>8, <1>9, Frame DEF FailInv, Covers

(* Unwinding the stack leaves it there.                                    *)
LEMMA UndoFailedFails ==
    ASSUME DryRunInv, TypeInv, FailInv, UndoFailed
    PROVE  FailInv'
<1>1. pc = "failed" /\ stack # <<>> /\ PutBack /\ stack' = Others /\ unified' = unified
  BY DEF UndoFailed, PutBack
<1>2. PICK st \in Streams, c \in Cells : /\ \A i \in 1 .. Len(stack) : ~Covers(i, st, c)
                                         /\ ~Single(cells[st][c])
  BY <1>1 DEF FailInv
<1>3. /\ Len(stack) \in Nat \ {0} /\ Len(stack') = Len(stack) - 1
      /\ \A i \in 1 .. Len(stack) - 1 : stack'[i] = stack[i]
  BY <1>1, StackRest DEF DryRunInv
<1>4. ~Covers(Len(stack), st, c)
  BY <1>2, <1>3
<1>5. cells'[st][c] = cells[st][c]
  BY <1>1, <1>4, PutBackType DEF TypeInv, ScalarType
<1>6. \A i \in 1 .. Len(stack') : ~Covers(i, st, c)'
  BY <1>2, <1>3 DEF Covers
<1> QED BY <1>1, <1>2, <1>5, <1>6, Frame DEF FailInv, Single

(* A batch is only failed by a shared cell.                                *)
LEMMA FailStep ==
    ASSUME RoomForWindows, DryRunInv, TypeInv, CacheInv, FailInv, [Next]_vars
    PROVE  FailInv'
<1>1. CASE NoSlot
  BY <1>1, NoSlotFails
<1>2. CASE UndoFailed
  BY <1>2, UndoFailedFails
<1>3. CASE pc' # "failed"
  BY <1>3 DEF FailInv
<1>4. CASE UNCHANGED vars
  BY <1>4, Frame DEF vars, FailInv, Covers, Single
<1>5. ASSUME NEW b \in Batches, Decode(b) PROVE pc' # "failed"
  BY <1>5 DEF Decode
<1>6. CASE Prepare
  BY <1>3, <1>6 DEF Prepare
<1>7. CASE Undo
  BY <1>3, <1>7 DEF Undo
<1>8. CASE SplitAgain \/ GiveUp \/ Apply \/ Computed \/ ComputeFails
  BY <1>3, <1>8 DEF SplitAgain, GiveUp, Apply, Computed, ComputeFails
<1>9. ASSUME NEW s \in Seqs, NEW p0 \in Positions, Reuse(s, p0) PROVE pc' # "failed"
  BY <1>9 DEF Reuse
<1>10. ASSUME NEW src \in Seqs, NEW dst \in Seqs, Copy(src, dst) PROVE pc' # "failed"
  BY <1>10 DEF Copy
<1> QED BY <1>1, <1>2, <1>3, <1>4, <1>5, <1>6, <1>7, <1>8, <1>9, <1>10 DEF Next

(* Two sequences make a cell shared.                                       *)
LEMMA FailImplies == TypeInv /\ FailInv => FailsOnlyWhenShared
<1> SUFFICES ASSUME TypeInv, NEW st \in Streams, NEW c \in Cells, ~Single(cells[st][c])
             PROVE  Cardinality(cells[st][c].seqs) > 1
  BY DEF FailInv, FailsOnlyWhenShared
<1>1. PICK S : S = cells[st][c].seqs
  OBVIOUS
<1>2. S \in SUBSET Seqs
  BY <1>1, GoodEmpty DEF TypeInv, CellsGood
<1>3. IsFiniteSet(Seqs)
  <2>1. NSeq \in Nat
    BY PlaceAssumption
  <2> QED BY <2>1, FS_Interval DEF Seqs
<1>4. IsFiniteSet(S) /\ Cardinality(S) \in Nat
  BY <1>2, <1>3, FS_Subset, FS_CardinalityType
<1>5. PICK r \in S, s \in S : r # s
  BY <1>1 DEF Single
<1>6. {r} \in SUBSET S /\ Cardinality({r}) = 1 /\ S # {r}
  BY <1>5, FS_Singleton
<1>7. 1 <= Cardinality(S) /\ Cardinality(S) # 1
  BY <1>4, <1>6, FS_Subset
<1> QED BY <1>1, <1>4, <1>7

(* Where the windows of all sequences and a ubatch fit into the cache,     *)
(* find_slot fails a batch only when two sequences share a cell, wherever  *)
(* the search starts and whatever was decoded, rolled back or purged.      *)
THEOREM PlaceFailsOnlyWhenShared ==
    ASSUME RoomForWindows
    PROVE  Spec => []FailsOnlyWhenShared
<1>1. Init => FailInv
  BY DEF Init, FailInv
<1>2. DryRunInv /\ TypeInv /\ CacheInv /\ FailInv /\ [Next]_vars => FailInv'
  BY RoomForWindows, FailStep
<1> QED BY <1>1, <1>2, PlaceDryRunInvariant, PlaceTypeInvariant, PlaceCacheInvariant,
           FailImplies, PTL DEF Spec

=============================================================================
