---------------------------- MODULE KvTailProofs ----------------------------
(***************************************************************************)
(* The exact tail, for any number of cells, sequences, tail and reserve    *)
(* tokens, ubatch sizes and positions.                                     *)
(*                                                                         *)
(* Between ubatches the invariant is about the tails as commit_seq_cp      *)
(* would leave them: the entries of a sequence stand for cells it has, at  *)
(* their positions and generations, follow them back from the newest       *)
(* without a gap, have a slot each whose row is theirs, and are as many    *)
(* as attention asks for unless the tail is marked degraded.  While a      *)
(* graph runs this holds twice: of the tails that begin_batch kept, for    *)
(* the cells without the ubatch, and of the new ones, for all cells; the   *)
(* writes say which rows the graph will change.                            *)
(*                                                                         *)
(* apply_ubatch is a fold over the tokens.  That the invariant of its loop *)
(* holds after the last one is shown by looking at the least number of     *)
(* tokens after which it would not.                                        *)
(***************************************************************************)
EXTENDS KvTail, QueueLemmas

(* What a tail is.                                                         *)
Tails == [entries : SUBSET Entries, used : SUBSET Slots, degraded : BOOLEAN,
          recovery : 0 .. NTokens - 1]

(* Positions and slots tell the entries of a tail apart, and there is room *)
(* for them in the arena.                                                  *)
Separate(E) ==
    /\ IsFiniteSet(E) /\ Cardinality(E) <= Limit
    /\ \A e, f \in E : e.pos = f.pos \/ e.slot = f.slot => e = f

(* Sequence s of the cells (ps, qs).                                       *)
Has(s, c, ps, qs) == s \in qs[c] /\ ps[c] >= 0

(* The entries of s stand for cells that it has.                           *)
Live(E, s, ps, qs, g) ==
    \A e \in E : Has(s, e.cell, ps, qs) /\ ps[e.cell] = e.pos /\ g[e.cell] = e.gen

(* There is an entry for every cell of s that is newer than an entry.      *)
Suffix(E, s, ps, qs) ==
    \A e \in E, c \in Cells :
        Has(s, c, ps, qs) /\ ps[c] > e.pos => \E f \in E : f.cell = c

(* The tail has the rows attention asks for, or says that it has not and   *)
(* counts the commits since.                                               *)
Covered(t, available) ==
    \/ Cardinality(t.entries) >= NTokens
    \/ Cardinality(t.entries) >= available
    \/ t.degraded /\ t.recovery <= Cardinality(t.entries)

Good(t, s, ps, qs, g) ==
    /\ t \in Tails /\ t.used = SlotsOf(t.entries)
    /\ Separate(t.entries) /\ Live(t.entries, s, ps, qs, g) /\ Suffix(t.entries, s, ps, qs)
    /\ Covered(t, Cardinality(Of(s, ps, qs)))

(* The cells.                                                              *)
CellsType(ps, qs, g) ==
    /\ ps \in [Cells -> -1 .. MaxLen - 1] /\ qs \in [Cells -> SUBSET Seqs]
    /\ g \in [Cells -> 0 .. GenWrap - 1]

Apart(ps, qs) ==
    /\ \A c \in Cells : qs[c] = {} <=> ps[c] = -1
    /\ \A c, d \in Cells : \A s \in qs[c] \cap qs[d] : ps[c] = ps[d] => c = d

(* The rows of the slots in use are those of their cells.                  *)
RowsType(rs) == rs \in [Seqs -> [Slots -> Cells \cup {Stale, Raced}]]

RowsGood(t, r) ==
    /\ \A e \in t.entries : r[e.slot] \in {e.cell, Raced}
    /\ \A i \in Slots \ t.used : r[i] = Stale

(***************************************************************************)
(* Between ubatches.  The tails are good as they are once a pending copy   *)
(* is made.                                                                *)
(***************************************************************************)
PendingType ==
    pending # None =>
        /\ pending.src \in Seqs /\ pending.dst \in Seqs /\ pending.src # pending.dst
        /\ tail[pending.dst].entries = {} /\ tail[pending.dst].used = SlotsOf(pending.entries)
        /\ \A k \in pending.copies : k.src \in Slots

Idle ==
    /\ PendingType
    /\ \A s \in Seqs : /\ Good(CommittedCopy[s], s, pos, seqs, gen)
                       /\ RowsGood(CommittedCopy[s], CopiedRows[s])

(***************************************************************************)
(* While the graph of an ubatch runs.  Taken are its cells; the old tails  *)
(* are good for the cells without them, the new ones for those with them.  *)
(***************************************************************************)
Taken(ub) == {ub[i].cell : i \in DOMAIN ub}
UbSeqs(ub) == {ub[i].seq : i \in DOMAIN ub}
OldPos == [c \in Cells |-> IF c \in Taken(batch.ub) THEN -1 ELSE pos[c]]
OldSeqs == [c \in Cells |-> IF c \in Taken(batch.ub) THEN {} ELSE seqs[c]]

Tokens == [seq : Seqs, cell : Cells, pos : 0 .. MaxLen - 1]

(* The tokens are in cells of their own, after all that was there.         *)
Placed(ub) ==
    /\ DOMAIN ub \subseteq Nat /\ \A i \in DOMAIN ub : ub[i] \in Tokens
    /\ \A i \in DOMAIN ub : /\ pos[ub[i].cell] = ub[i].pos /\ seqs[ub[i].cell] = {ub[i].seq}
    /\ \A i, j \in DOMAIN ub : ub[i].cell = ub[j].cell => i = j
    /\ \A i \in DOMAIN ub, c \in Cells \ Taken(ub) :
          ub[i].seq \in seqs[c] => pos[c] < ub[i].pos

(* An entry is an old one whose slot nobody writes, or is written; the     *)
(* slots of the old tail and of the writes stay in use.                    *)
Written(s, new, old, W) ==
    /\ \A e \in new.entries :
          \/ [seq |-> s, slot |-> e.slot, cell |-> e.cell] \in W
          \/ e \in old.entries /\ \A w \in W : w.seq = s => w.slot # e.slot
    /\ old.used \subseteq new.used
    /\ \A w \in W : w.seq = s => w.slot \in new.used

Running ==
    LET ub == batch.ub IN
    /\ pending = None /\ Placed(ub)
    /\ CellsType(pos, seqs, batch.gen)
    /\ \A c \in Cells \ Taken(ub) : gen[c] = batch.gen[c]
    /\ \A s \in Seqs : /\ Good(batch.tail[s], s, OldPos, OldSeqs, batch.gen)
                       /\ RowsGood(batch.tail[s], rows[s])
                       /\ Good(tail[s], s, pos, seqs, gen)
                       /\ Written(s, tail[s], batch.tail[s], batch.writes)
    /\ batch.affected = UbSeqs(ub)
    /\ \A s \in Seqs \ UbSeqs(ub) : tail[s] = batch.tail[s]
    /\ IsFiniteSet(batch.writes)
    /\ \A w \in batch.writes : w.seq \in UbSeqs(ub) /\ w.slot \in Slots /\ w.cell \in Cells
    /\ batch.current = {[cell |-> ub[i].cell, gen |-> gen[ub[i].cell],
                         pos |-> ub[i].pos, seq |-> ub[i].seq] : i \in DOMAIN ub}

TailInv ==
    /\ CellsType(pos, seqs, gen) /\ Apart(pos, seqs)
    /\ RowsType(rows) /\ tail = [s \in Seqs |-> tail[s]] /\ \A s \in Seqs : tail[s] \in Tails
    /\ IF batch = None THEN Idle ELSE Running

-----------------------------------------------------------------------------
(* The constants.                                                          *)
LEMMA Constants ==
    /\ NTokens \in Nat /\ NTokens > 0 /\ Limit \in Nat /\ Limit >= NTokens /\ MaxLen \in Nat
    /\ Slots \subseteq Nat /\ IsFiniteSet(Slots) /\ Cardinality(Slots) = Limit
    /\ Cells \subseteq Nat /\ IsFiniteSet(Cells)
<1>1. NTokens \in Nat /\ NTokens > 0 /\ Limit \in Nat /\ Limit >= NTokens /\ MaxLen \in Nat
  BY TailAssumption DEF Limit
<1>2. IsFiniteSet(0 .. Limit - 1) /\ Cardinality(0 .. Limit - 1) = Limit
  BY <1>1, FS_Interval
<1>3. IsFiniteSet(0 .. NCells - 1)
  BY TailAssumption, FS_Interval
<1> QED BY <1>1, <1>2, <1>3 DEF Slots, Cells

(* The cells of a sequence are finitely many.                              *)
LEMMA OfFinite ==
    ASSUME NEW s, NEW ps, NEW qs
    PROVE  IsFiniteSet(Of(s, ps, qs)) /\ Cardinality(Of(s, ps, qs)) \in Nat
<1>1. Of(s, ps, qs) \in SUBSET Cells
  BY DEF Of
<1>2. IsFiniteSet(Of(s, ps, qs))
  BY <1>1, Constants, FS_Subset
<1> QED BY <1>2, FS_CardinalityType

(* The smaller of two numbers.                                             *)
LEMMA MinOfTwo ==
    ASSUME NEW a \in Nat, NEW b \in Nat
    PROVE  Min({a, b}) = IF a <= b THEN a ELSE b
<1>1. {a, b} \in SUBSET Nat /\ {a, b} # {}
  OBVIOUS
<1>2. Min({a, b}) \in {a, b} /\ \A q \in {a, b} : Min({a, b}) <= q
  BY <1>1, MinIsLeast
<1>3. PICK m : m = Min({a, b})
  OBVIOUS
<1>4. (m = a \/ m = b) /\ m <= a /\ m <= b
  BY <1>2, <1>3
<1> QED BY <1>3, <1>4

(* A tail stays good when other sequences change.                          *)
LEMMA GoodFrame ==
    ASSUME NEW t, NEW s, NEW ps, NEW qs, NEW g, NEW ps2, NEW qs2, NEW g2,
           Good(t, s, ps, qs, g),
           \A c \in Cells : Has(s, c, ps2, qs2) <=> Has(s, c, ps, qs),
           \A c \in Cells : Has(s, c, ps, qs) => ps2[c] = ps[c] /\ g2[c] = g[c]
    PROVE  Good(t, s, ps2, qs2, g2)
<1>1. Of(s, ps2, qs2) = Of(s, ps, qs)
  BY DEF Of, Has
<1>2. \A e \in t.entries : e.cell \in Cells
  BY DEF Good, Tails, Entries
<1>3. Live(t.entries, s, ps2, qs2, g2)
  BY <1>2 DEF Good, Live
<1>4. Suffix(t.entries, s, ps2, qs2)
  BY <1>2 DEF Good, Suffix
<1> QED BY <1>1, <1>3, <1>4 DEF Good

(* Tails as records.                                                       *)
LEMMA TailFields ==
    ASSUME NEW t \in Tails
    PROVE  /\ t.entries \in SUBSET Entries /\ t.used \in SUBSET Slots
           /\ t.degraded \in BOOLEAN /\ t.recovery \in 0 .. NTokens - 1
           /\ t = [entries |-> t.entries, used |-> t.used,
                   degraded |-> t.degraded, recovery |-> t.recovery]
BY DEF Tails

(* A record of such fields is a tail.                                      *)
LEMMA TailMade ==
    ASSUME NEW E \in SUBSET Entries, NEW U \in SUBSET Slots,
           NEW d \in BOOLEAN, NEW n \in 0 .. NTokens - 1
    PROVE  [entries |-> E, used |-> U, degraded |-> d, recovery |-> n] \in Tails
BY DEF Tails

(* What erasing entries leaves.                                            *)
LEMMA EraseIs ==
    ASSUME NEW t \in Tails, NEW G
    PROVE  EraseEntries(t, G) = [entries |-> t.entries \ G, used |-> t.used \ SlotsOf(G),
                                 degraded |-> t.degraded, recovery |-> t.recovery]
<1>1. t = [entries |-> t.entries, used |-> t.used,
           degraded |-> t.degraded, recovery |-> t.recovery]
  BY TailFields
<1>2. PICK S : S = SlotsOf(G)
  OBVIOUS
<1>3. EraseEntries(t, G) = [t EXCEPT !.entries = t.entries \ G, !.used = t.used \ S]
  BY <1>2 DEF EraseEntries
<1> QED BY <1>1, <1>2, <1>3

(* mark_if_incomplete covers what there is.                                *)
LEMMA MarkCovers ==
    ASSUME NEW t \in Tails, IsFiniteSet(t.entries), NEW n \in Nat
    PROVE  /\ MarkIfIncomplete(t, n) \in Tails /\ Covered(MarkIfIncomplete(t, n), n)
           /\ MarkIfIncomplete(t, n).entries = t.entries /\ MarkIfIncomplete(t, n).used = t.used
<1>1. Cardinality(t.entries) \in Nat /\ NTokens \in Nat /\ NTokens > 0
  BY FS_CardinalityType, Constants
<1>2. Min({NTokens, n}) = IF NTokens <= n THEN NTokens ELSE n
  BY <1>1, MinOfTwo
<1>3. CASE Cardinality(t.entries) < Min({NTokens, n})
  <2>1. MarkIfIncomplete(t, n) = [t EXCEPT !.degraded = TRUE, !.recovery = 0]
    BY <1>3 DEF MarkIfIncomplete
  <2>2. MarkIfIncomplete(t, n) = [entries |-> t.entries, used |-> t.used,
                                  degraded |-> TRUE, recovery |-> 0]
    BY <2>1, TailFields
  <2>3. 0 \in 0 .. NTokens - 1 /\ TRUE \in BOOLEAN
    BY <1>1
  <2>4. MarkIfIncomplete(t, n) \in Tails
    <3>1. [entries |-> t.entries, used |-> t.used, degraded |-> TRUE, recovery |-> 0] \in Tails
      BY <2>3, TailFields, TailMade
    <3> QED BY <2>2, <3>1
  <2> QED BY <1>1, <2>2, <2>4 DEF Covered
<1>4. CASE ~(Cardinality(t.entries) < Min({NTokens, n}))
  <2>1. MarkIfIncomplete(t, n) = t
    BY <1>4 DEF MarkIfIncomplete
  <2> QED BY <1>1, <1>2, <1>4, <2>1 DEF Covered
<1> QED BY <1>3, <1>4

(* What the store's seq_rm leaves.                                         *)
LEMMA RemoveEntriesIs ==
    ASSUME NEW t \in Tails, t.used = SlotsOf(t.entries), Separate(t.entries), NEW p0 \in Nat
    PROVE  LET r == RemoveEntries(t, p0) IN
           /\ r \in Tails /\ r.entries = {e \in t.entries : e.pos < p0}
           /\ r.used = SlotsOf(r.entries) /\ Separate(r.entries)
<1> DEFINE gone == {e \in t.entries : e.pos >= p0}
           left == EraseEntries(t, gone)
           r == RemoveEntries(t, p0)
           all == t.entries \ gone = {} /\ p0 <= 0
<1>1. /\ t.entries \in SUBSET Entries /\ t.used \in SUBSET Slots
      /\ t.degraded \in BOOLEAN /\ t.recovery \in 0 .. NTokens - 1
      /\ t = [entries |-> t.entries, used |-> t.used,
              degraded |-> t.degraded, recovery |-> t.recovery]
  BY TailFields
<1>a. left = [entries |-> t.entries \ gone, used |-> t.used \ SlotsOf(gone),
              degraded |-> t.degraded, recovery |-> t.recovery]
  BY EraseIs
<1>2. /\ r.entries = t.entries \ gone /\ r.used = t.used \ SlotsOf(gone)
      /\ r \in Tails
  <2>1. r = [left EXCEPT !.degraded = @ /\ ~(left.entries = {} /\ p0 <= 0),
                         !.recovery = IF left.entries = {} /\ p0 <= 0 THEN 0 ELSE @]
    BY DEF RemoveEntries
  <2> HIDE DEF left, gone
  <2>2. r = [entries |-> t.entries \ gone, used |-> t.used \ SlotsOf(gone),
             degraded |-> t.degraded /\ ~all, recovery |-> IF all THEN 0 ELSE t.recovery]
    BY <1>a, <2>1
  <2>3. (IF all THEN 0 ELSE t.recovery) \in 0 .. NTokens - 1
    BY <1>1, Constants
  <2>4. (t.degraded /\ ~all) \in BOOLEAN
    OBVIOUS
  <2>5. r \in Tails
    <3>1. t.entries \ gone \in SUBSET Entries /\ t.used \ SlotsOf(gone) \in SUBSET Slots
      BY <1>1
    <3>2. [entries |-> t.entries \ gone, used |-> t.used \ SlotsOf(gone),
           degraded |-> t.degraded /\ ~all, recovery |-> IF all THEN 0 ELSE t.recovery] \in Tails
      BY <2>3, <2>4, <3>1, TailMade
    <3> QED BY <2>2, <3>2
  <2> QED BY <2>2, <2>5
<1>3. \A e \in t.entries : e.pos \in Nat
  BY DEF Tails, Entries
<1> HIDE DEF r, left, all
<1>4. r.entries = {e \in t.entries : e.pos < p0}
  BY <1>2, <1>3
<1>5. r.used = SlotsOf(r.entries)
  <2>1. \A e, f \in t.entries : e.slot = f.slot => e = f
    BY DEF Separate
  <2> QED BY <1>2, <2>1 DEF SlotsOf
<1>6. Separate(r.entries)
  <2>1. r.entries \in SUBSET t.entries
    BY <1>4
  <2>2. IsFiniteSet(r.entries) /\ Cardinality(r.entries) <= Cardinality(t.entries)
    BY <2>1, FS_Subset DEF Separate
  <2>3. Cardinality(r.entries) \in Nat /\ Cardinality(t.entries) \in Nat
    BY <2>2, FS_CardinalityType DEF Separate
  <2> QED BY <2>1, <2>2, <2>3, Constants DEF Separate
<1> QED BY <1>2, <1>4, <1>5, <1>6 DEF r

(* As Suffix, up to position p0.                                           *)
SuffixUpTo(p0, E, s, ps, qs) ==
    \A e \in E, c \in Cells :
        Has(s, c, ps, qs) /\ ps[c] > e.pos /\ ps[c] < p0 => \E f \in E : f.cell = c

(* The cells (ps2, qs2) have of s what (ps, qs) have before p0.            *)
CutAt(p0, s, ps, qs, ps2, qs2) ==
    \A c \in Cells : /\ Has(s, c, ps2, qs2) <=> Has(s, c, ps, qs) /\ ps[c] < p0
                     /\ Has(s, c, ps2, qs2) => ps2[c] = ps[c]

(* seq_rm_unchecked leaves a good tail, if that is true of the entries and *)
(* cells before p0.                                                        *)
LEMMA RemovedTail ==
    ASSUME NEW t \in Tails, t.used = SlotsOf(t.entries), Separate(t.entries),
           NEW s, NEW p0 \in Nat, NEW ps, NEW qs, NEW g, NEW ps2, NEW qs2,
           Live(t.entries, s, ps, qs, g), SuffixUpTo(p0, t.entries, s, ps, qs),
           CutAt(p0, s, ps, qs, ps2, qs2)
    PROVE  LET r == MarkIfIncomplete(RemoveEntries(t, p0), Cardinality(Of(s, ps2, qs2))) IN
           /\ Good(r, s, ps2, qs2, g) /\ r.entries = {e \in t.entries : e.pos < p0}
<1> DEFINE a == RemoveEntries(t, p0)
           n == Cardinality(Of(s, ps2, qs2))
           r == MarkIfIncomplete(a, n)
<1>1. /\ a \in Tails /\ a.entries = {e \in t.entries : e.pos < p0}
      /\ a.used = SlotsOf(a.entries) /\ Separate(a.entries)
  BY RemoveEntriesIs
<1>2. n \in Nat
  BY OfFinite
<1> HIDE DEF a, n
<1>3. r \in Tails /\ Covered(r, n) /\ r.entries = a.entries /\ r.used = a.used
  BY <1>1, <1>2, MarkCovers DEF Separate
<1>4. \A e \in t.entries : e.cell \in Cells /\ e.pos \in Nat
  BY DEF Tails, Entries
<1>5. Live(a.entries, s, ps2, qs2, g)
  BY <1>1, <1>4 DEF Live, CutAt
<1>6. Suffix(a.entries, s, ps2, qs2)
  <2> SUFFICES ASSUME NEW e \in a.entries, NEW c \in Cells, Has(s, c, ps2, qs2), ps2[c] > e.pos
               PROVE  \E f \in a.entries : f.cell = c
    BY DEF Suffix
  <2>1. Has(s, c, ps, qs) /\ ps[c] < p0 /\ ps[c] > e.pos
    BY DEF CutAt
  <2>2. PICK f \in t.entries : f.cell = c
    BY <1>1, <2>1 DEF SuffixUpTo
  <2>3. f.pos = ps[c]
    BY <2>2 DEF Live
  <2> QED BY <1>1, <2>1, <2>2, <2>3
<1>7. Good(r, s, ps2, qs2, g)
  <2> HIDE DEF r
  <2> QED BY <1>1, <1>3, <1>5, <1>6 DEF Good, n
<1> QED BY <1>1, <1>3, <1>7 DEF a, n

(* Nothing to erase.                                                       *)
LEMMA EraseNothing == ASSUME NEW t \in Tails PROVE EraseEntries(t, {}) = t
<1>1. SlotsOf({}) = {}
  BY DEF SlotsOf
<1>2. t = [entries |-> t.entries, used |-> t.used,
           degraded |-> t.degraded, recovery |-> t.recovery]
  BY TailFields
<1>3. EraseEntries(t, {}) = [entries |-> t.entries \ {}, used |-> t.used \ SlotsOf({}),
                             degraded |-> t.degraded, recovery |-> t.recovery]
  BY EraseIs
<1>4. t.entries \ {} = t.entries /\ t.used \ SlotsOf({}) = t.used
  BY <1>1
<1> QED BY <1>2, <1>3, <1>4

(* A tail within its limit is not trimmed.                                 *)
LEMMA TrimNothing == ASSUME NEW t \in Tails, Separate(t.entries) PROVE Trim(t) = t
<1> DEFINE E == t.entries
<1>1. IsFiniteSet(E) /\ Cardinality(E) <= Limit /\ Cardinality(E) \in Nat /\ Limit \in Nat
  BY Constants, FS_CardinalityType DEF Separate
<1>2. \A e \in E : e.pos \in Nat
  BY DEF Tails, Entries
<1>3. ASSUME NEW e \in E
      PROVE  Cardinality({f \in E : f.pos > e.pos}) < Limit
  <2>1. {f \in E : f.pos > e.pos} \in SUBSET (E \ {e})
    BY <1>2
  <2>2. IsFiniteSet(E \ {e}) /\ Cardinality(E \ {e}) = Cardinality(E) - 1
    BY <1>1, FS_RemoveElement
  <2>3. Cardinality({f \in E : f.pos > e.pos}) <= Cardinality(E \ {e})
        /\ IsFiniteSet({f \in E : f.pos > e.pos})
    BY <2>1, <2>2, FS_Subset
  <2>4. Cardinality({f \in E : f.pos > e.pos}) \in Nat
    BY <2>3, FS_CardinalityType
  <2> QED BY <1>1, <2>2, <2>3, <2>4
<1>4. NewestOf(E, Limit) = E
  BY <1>3 DEF NewestOf
<1>5. t.entries \ NewestOf(t.entries, Limit) = {}
  BY <1>4
<1> QED BY <1>5, EraseNothing DEF Trim

(* The victim of an eviction.                                              *)
LEMMA OldestIs ==
    ASSUME NEW E \in SUBSET Entries, E # {}
    PROVE  Oldest(E) \in E /\ \A f \in E : Oldest(E).pos <= f.pos
<1> DEFINE P == {e.pos : e \in E}
<1>1. P \in SUBSET Nat /\ P # {}
  BY DEF Entries
<1>2. Min(P) \in P /\ \A q \in P : Min(P) <= q
  BY <1>1, MinIsLeast
<1>3. PICK e \in E : e.pos = Min(P)
  BY <1>2
<1>4. \A f \in E : e.pos <= f.pos
  BY <1>2, <1>3
<1> QED BY <1>4 DEF Oldest

(* A tail below its limit has a free slot.                                 *)
LEMMA AcquireFree ==
    ASSUME NEW t \in Tails, t.used = SlotsOf(t.entries), Separate(t.entries),
           Cardinality(t.entries) < Limit
    PROVE  Acquire(t) \in Slots \ t.used
<1> DEFINE E == t.entries
           f == [e \in E |-> e.slot]
<1>1. f \in Surjection(E, SlotsOf(E))
  BY DEF Surjection, SlotsOf
<1>2. IsFiniteSet(SlotsOf(E)) /\ Cardinality(SlotsOf(E)) <= Cardinality(E)
  BY <1>1, FS_Surjection DEF Separate
<1>3. Cardinality(E) \in Nat /\ Cardinality(SlotsOf(E)) \in Nat
  BY <1>2, FS_CardinalityType DEF Separate
<1>4. Slots \ t.used # {}
  <2> SUFFICES ASSUME Slots \ t.used = {} PROVE FALSE
    OBVIOUS
  <2>1. t.used = Slots
    BY TailFields
  <2> QED BY <1>2, <1>3, <2>1, Constants
<1>5. Slots \ t.used \in SUBSET Nat
  BY Constants
<1> QED BY <1>4, <1>5, MinIsLeast DEF Acquire

(* In (ps2, qs2, g2) sequence s has one cell more, after all it has.       *)
Added(s, c, v, p, ps, qs, g, ps2, qs2, g2) ==
    /\ c \in Cells /\ v \in 0 .. GenWrap - 1 /\ p \in 0 .. MaxLen - 1
    /\ \A d \in Cells : ps[d] \in Int
    /\ ~Has(s, c, ps, qs) /\ Has(s, c, ps2, qs2) /\ ps2[c] = p /\ g2[c] = v
    /\ \A d \in Cells \ {c} : Has(s, d, ps2, qs2) <=> Has(s, d, ps, qs)
    /\ \A d \in Cells \ {c} : Has(s, d, ps, qs) => ps2[d] = ps[d] /\ g2[d] = g[d]
    /\ \A d \in Cells : Has(s, d, ps, qs) => ps[d] < p

(* A commit leaves a good tail.                                            *)
LEMMA CommitGood ==
    ASSUME NEW t, NEW s, NEW c, NEW v, NEW p,
           NEW ps, NEW qs, NEW g, NEW ps2, NEW qs2, NEW g2,
           Good(t, s, ps, qs, g), Added(s, c, v, p, ps, qs, g, ps2, qs2, g2)
    PROVE  LET r == Commit(t, c, v, p) IN
           /\ Good(r.tail, s, ps2, qs2, g2) /\ r.slot \in Slots
           /\ \A e \in r.tail.entries : \/ e.cell = c /\ e.slot = r.slot
                                        \/ e \in t.entries /\ e.slot # r.slot
           /\ r.tail.used = t.used \cup {r.slot}
<1> DEFINE E == t.entries
           full == Cardinality(E) >= Limit
           slot == IF full THEN Oldest(E).slot ELSE Acquire(t)
           kept == IF full THEN E \ {Oldest(E)} ELSE E
           new == [cell |-> c, gen |-> v, pos |-> p, slot |-> slot]
           clean == t.degraded /\ t.recovery + 1 >= NTokens
           count == IF clean THEN 0 ELSE IF t.degraded THEN t.recovery + 1 ELSE t.recovery
           after == [entries |-> kept \cup {new}, used |-> t.used \cup {slot},
                     degraded |-> t.degraded /\ ~clean, recovery |-> count]
<1>0. /\ c \in Cells /\ v \in 0 .. GenWrap - 1 /\ p \in 0 .. MaxLen - 1
      /\ \A d \in Cells : ps[d] \in Int
      /\ ~Has(s, c, ps, qs) /\ Has(s, c, ps2, qs2) /\ ps2[c] = p /\ g2[c] = v
      /\ \A d \in Cells \ {c} : Has(s, d, ps2, qs2) <=> Has(s, d, ps, qs)
      /\ \A d \in Cells \ {c} : Has(s, d, ps, qs) => ps2[d] = ps[d] /\ g2[d] = g[d]
      /\ \A d \in Cells : Has(s, d, ps, qs) => ps[d] < p
  BY DEF Added
<1>1. Commit(t, c, v, p) = [slot |-> slot, tail |-> after]
  BY DEF Commit
<1>2. /\ t \in Tails /\ t.used = SlotsOf(E) /\ Separate(E)
      /\ Live(E, s, ps, qs, g) /\ Suffix(E, s, ps, qs)
      /\ Covered(t, Cardinality(Of(s, ps, qs)))
  BY DEF Good
<1>3. /\ E \in SUBSET Entries /\ t.used \in SUBSET Slots
      /\ t.degraded \in BOOLEAN /\ t.recovery \in 0 .. NTokens - 1
  BY <1>2, TailFields
<1>4. IsFiniteSet(E) /\ Cardinality(E) \in Nat /\ Cardinality(E) <= Limit
  BY <1>2, FS_CardinalityType DEF Separate
<1>5. full => Oldest(E) \in E /\ \A f \in E : Oldest(E).pos <= f.pos
  <2>1. full => E # {}
    BY <1>4, FS_EmptySet, Constants
  <2> QED BY <1>3, <2>1, OldestIs
<1>6. slot \in Slots /\ \A e \in kept : e.slot # slot
  <2>1. CASE full
    <3>1. \A e, f \in E : e.slot = f.slot => e = f
      BY <1>2 DEF Separate
    <3>2. Oldest(E) \in Entries
      BY <1>3, <1>5, <2>1
    <3> QED BY <1>5, <2>1, <3>1, <3>2 DEF Entries
  <2>2. CASE ~full
    <3>1. slot \in Slots \ t.used
      BY <1>2, <1>4, <2>2, AcquireFree, Constants
    <3> QED BY <1>2, <2>2, <3>1 DEF SlotsOf
  <2> QED BY <2>1, <2>2
<1>7. new \in Entries
  BY <1>0, <1>6 DEF Entries
<1>8. \A e \in E : e.cell \in Cells /\ e.pos \in Nat /\ e.pos < p /\ e.cell # c
  <2>1. \A e \in E : e.cell \in Cells /\ e.pos \in Nat
    BY <1>3 DEF Entries
  <2>2. \A e \in E : Has(s, e.cell, ps, qs) /\ ps[e.cell] = e.pos
    BY <1>2 DEF Live
  <2> QED BY <1>0, <2>1, <2>2
<1>9. kept \subseteq E /\ new.pos = p /\ new.cell = c /\ new.gen = v /\ new.slot = slot
  OBVIOUS
<1>10. IsFiniteSet(kept) /\ Cardinality(kept) = IF full THEN Cardinality(E) - 1 ELSE Cardinality(E)
  BY <1>4, <1>5, FS_RemoveElement
<1>11. new \notin kept
  <2>1. \A e \in kept : e.pos < p /\ e.pos \in Nat
    BY <1>8, <1>9
  <2> QED BY <1>9, <2>1
<1>12. IsFiniteSet(kept \cup {new}) /\ Cardinality(kept \cup {new}) = Cardinality(kept) + 1
  BY <1>10, <1>11, FS_AddElement
<1> HIDE DEF slot, kept, new, full
<1>13. Separate(kept \cup {new})
  <2>1. Cardinality(kept \cup {new}) <= Limit
    BY <1>4, <1>10, <1>12, Constants DEF full
  <2>2. \A e, f \in kept : e.pos = f.pos \/ e.slot = f.slot => e = f
    BY <1>2, <1>9 DEF Separate
  <2>3. \A e \in kept : e.pos # new.pos /\ e.slot # new.slot
    BY <1>6, <1>8, <1>9
  <2> QED BY <1>12, <2>1, <2>2, <2>3 DEF Separate
<1>14. Live(kept \cup {new}, s, ps2, qs2, g2)
  <2>1. ASSUME NEW e \in kept
        PROVE  Has(s, e.cell, ps2, qs2) /\ ps2[e.cell] = e.pos /\ g2[e.cell] = e.gen
    <3>1. e.cell \in Cells \ {c}
      BY <1>8, <1>9
    <3>2. Has(s, e.cell, ps, qs) /\ ps[e.cell] = e.pos /\ g[e.cell] = e.gen
      BY <1>2, <1>9 DEF Live
    <3> QED BY <1>0, <3>1, <3>2
  <2> QED BY <1>0, <1>9, <2>1 DEF Live
<1>15. Suffix(kept \cup {new}, s, ps2, qs2)
  <2> SUFFICES ASSUME NEW e \in kept \cup {new}, NEW d \in Cells,
                      Has(s, d, ps2, qs2), ps2[d] > e.pos
               PROVE  \E f \in kept \cup {new} : f.cell = d
    BY DEF Suffix
  <2>1. CASE d = c
    BY <1>9, <2>1
  <2>2. CASE d # c
    <3>1. Has(s, d, ps, qs) /\ ps[d] = ps2[d] /\ ps[d] < p /\ ps[d] \in Int
      BY <1>0, <2>2
    <3>2. e \in kept
      BY <1>0, <1>9, <3>1
    <3>3. PICK f \in E : f.cell = d
      BY <1>2, <1>9, <3>1, <3>2 DEF Suffix
    <3>4. f.pos = ps[d]
      BY <1>2, <3>3 DEF Live
    <3>5. f \in kept
      <4>1. e.pos \in Nat /\ f.pos \in Nat /\ e.pos < f.pos /\ e \in E
        BY <1>8, <1>9, <3>1, <3>2, <3>4
      <4>2. full => Oldest(E).pos <= e.pos /\ Oldest(E).pos \in Nat
        BY <1>5, <1>8, <4>1
      <4> QED BY <4>1, <4>2 DEF kept
    <3> QED BY <3>3, <3>5
  <2> QED BY <2>1, <2>2
<1>16. Cardinality(Of(s, ps2, qs2)) = Cardinality(Of(s, ps, qs)) + 1
  <2>1. Of(s, ps2, qs2) = Of(s, ps, qs) \cup {c} /\ c \notin Of(s, ps, qs)
    BY <1>0 DEF Of, Has
  <2> QED BY <2>1, OfFinite, FS_AddElement
<1>17. count \in 0 .. NTokens - 1
  BY <1>3, Constants
<1>18. after \in Tails
  <2>1. kept \cup {new} \in SUBSET Entries /\ t.used \cup {slot} \in SUBSET Slots
    BY <1>3, <1>6, <1>7, <1>9
  <2>2. (t.degraded /\ ~clean) \in BOOLEAN
    OBVIOUS
  <2> HIDE DEF clean, count
  <2> QED BY <1>17, <2>1, <2>2, TailMade
<1>19. after.used = SlotsOf(after.entries)
  <2>1. SlotsOf(kept \cup {new}) = SlotsOf(kept) \cup {slot}
    BY <1>9 DEF SlotsOf
  <2>2. t.used \cup {slot} = SlotsOf(kept) \cup {slot}
    BY <1>2, <1>5 DEF SlotsOf, kept, slot
  <2> QED BY <2>1, <2>2
<1>20. Covered(after, Cardinality(Of(s, ps2, qs2)))
  <2> DEFINE k == Cardinality(E)
             k2 == Cardinality(kept \cup {new})
             n == Cardinality(Of(s, ps, qs))
  <2>1. n \in Nat /\ k \in Nat /\ k2 \in Nat /\ NTokens \in Nat /\ NTokens <= Limit
    BY <1>4, <1>12, OfFinite, FS_CardinalityType, Constants
  <2>2. k2 = k + 1 \/ k2 >= NTokens
    <3>1. CASE full
      <4>1. k >= Limit /\ k2 = k - 1 + 1
        BY <1>10, <1>12, <3>1 DEF full
      <4> HIDE DEF k, k2
      <4> QED BY <2>1, <4>1, Constants
    <3>2. CASE ~full
      BY <1>10, <1>12, <3>2
    <3> QED BY <3>1, <3>2
  <2>3. k >= NTokens \/ k >= n \/ (t.degraded /\ t.recovery <= k)
    BY <1>2 DEF Covered
  <2>4. k2 >= NTokens \/ k2 >= n + 1 \/ ((t.degraded /\ ~clean) /\ count <= k2)
    <3> HIDE DEF k, k2, n
    <3> QED BY <1>3, <2>1, <2>2, <2>3
  <2> QED BY <1>16, <2>4 DEF Covered
<1>21. Good(after, s, ps2, qs2, g2)
  <2>1. after.entries = kept \cup {new}
    OBVIOUS
  <2> HIDE DEF after
  <2> QED BY <1>13, <1>14, <1>15, <1>18, <1>19, <1>20, <2>1 DEF Good
<1>22. \A e \in kept \cup {new} : \/ e.cell = c /\ e.slot = slot
                                  \/ e \in E /\ e.slot # slot
  BY <1>6, <1>9
<1>23. after.entries = kept \cup {new} /\ after.used = t.used \cup {slot}
  OBVIOUS
<1> HIDE DEF after
<1>24. Commit(t, c, v, p).slot = slot /\ Commit(t, c, v, p).tail = after
  BY <1>1
<1> QED BY <1>6, <1>21, <1>22, <1>23, <1>24

-----------------------------------------------------------------------------
(* What seq_rm_unchecked does to the cells.                                *)
LEMMA RemovedCells ==
    ASSUME NEW ts, NEW ps, NEW qs, NEW g, NEW from,
           CellsType(ps, qs, g), Apart(ps, qs), \A s \in DOMAIN from : from[s] \in Nat
    PROVE  LET r == Removed(ts, ps, qs, from) IN
           /\ CellsType(r.pos, r.seqs, g) /\ Apart(r.pos, r.seqs)
           /\ \A s, c : c \in Cells =>
                 /\ Has(s, c, r.pos, r.seqs) <=>
                       Has(s, c, ps, qs) /\ ~(s \in DOMAIN from /\ ps[c] >= from[s])
                 /\ Has(s, c, r.pos, r.seqs) => r.pos[c] = ps[c]
           /\ r.tail = [s \in Seqs |->
                 IF s \in DOMAIN from
                 THEN MarkIfIncomplete(RemoveEntries(ts[s], from[s]),
                                       Cardinality(Of(s, r.pos, r.seqs)))
                 ELSE ts[s]]
<1> DEFINE left == [c \in Cells |-> qs[c] \ {s \in DOMAIN from : ps[c] >= from[s]}]
           at == [c \in Cells |-> IF left[c] = {} THEN -1 ELSE ps[c]]
           tl == [s \in Seqs |->
                 IF s \in DOMAIN from
                 THEN MarkIfIncomplete(RemoveEntries(ts[s], from[s]), Cardinality(Of(s, at, left)))
                 ELSE ts[s]]
           r == Removed(ts, ps, qs, from)
<1>1. r.pos = at /\ r.seqs = left /\ r.tail = tl
  BY DEF Removed
<1>2. \A c \in Cells : ps[c] \in -1 .. MaxLen - 1 /\ qs[c] \in SUBSET Seqs
  BY DEF CellsType
<1>3. \A c \in Cells : /\ left[c] = qs[c] \ {s \in DOMAIN from : ps[c] >= from[s]}
                       /\ at[c] = IF left[c] = {} THEN -1 ELSE ps[c]
  OBVIOUS
<1>4. CellsType(at, left, g)
  <2>1. -1 \in -1 .. MaxLen - 1
    BY Constants
  <2>2. at \in [Cells -> -1 .. MaxLen - 1]
    BY <1>2, <2>1
  <2>3. left \in [Cells -> SUBSET Seqs]
    BY <1>2
  <2> QED BY <2>2, <2>3 DEF CellsType
<1>5. \A c \in Cells : left[c] # {} => ps[c] # -1
  BY <1>3 DEF Apart
<1> HIDE DEF left, at
<1>6. Apart(at, left)
  <2>1. \A c \in Cells : left[c] = {} <=> at[c] = -1
    BY <1>3, <1>5
  <2>2. ASSUME NEW c \in Cells, NEW d \in Cells, NEW s \in left[c] \cap left[d], at[c] = at[d]
        PROVE  c = d
    <3>1. s \in qs[c] \cap qs[d] /\ ps[c] = ps[d]
      BY <1>3, <2>2
    <3> QED BY <3>1 DEF Apart
  <2> QED BY <2>1, <2>2 DEF Apart
<1>7. ASSUME NEW s, NEW c \in Cells
      PROVE  /\ Has(s, c, at, left) <=>
                    Has(s, c, ps, qs) /\ ~(s \in DOMAIN from /\ ps[c] >= from[s])
             /\ Has(s, c, at, left) => at[c] = ps[c]
  <2>1. Has(s, c, at, left) => at[c] = ps[c]
    BY <1>3 DEF Has
  <2>2. Has(s, c, at, left) => Has(s, c, ps, qs) /\ ~(s \in DOMAIN from /\ ps[c] >= from[s])
    BY <1>3, <2>1 DEF Has
  <2>3. Has(s, c, ps, qs) /\ ~(s \in DOMAIN from /\ ps[c] >= from[s]) => Has(s, c, at, left)
    BY <1>3 DEF Has
  <2> QED BY <2>1, <2>2, <2>3
<1>8. r.tail = tl
  BY <1>1
<1> HIDE DEF r
<1> QED BY <1>1, <1>4, <1>6, <1>7 DEF r

(* seq_rm of one sequence keeps all tails good.                            *)
LEMMA RemovedOne ==
    ASSUME NEW ts, NEW ps, NEW qs, NEW g, NEW s0 \in Seqs, NEW p0 \in Nat,
           CellsType(ps, qs, g), Apart(ps, qs), \A s \in Seqs : Good(ts[s], s, ps, qs, g),
           NEW from, DOMAIN from = {s0}, from[s0] = p0,
           NEW r, r = Removed(ts, ps, qs, from)
    PROVE  /\ CellsType(r.pos, r.seqs, g) /\ Apart(r.pos, r.seqs)
           /\ r.tail = [s \in Seqs |-> r.tail[s]]
           /\ \A s \in Seqs : Good(r.tail[s], s, r.pos, r.seqs, g)
           /\ r.tail[s0].entries = {e \in ts[s0].entries : e.pos < p0}
           /\ \A s \in Seqs \ {s0} : r.tail[s] = ts[s]
           /\ \A c \in Cells : Has(s0, c, r.pos, r.seqs) <=> Has(s0, c, ps, qs) /\ ps[c] < p0
<1>1. /\ CellsType(r.pos, r.seqs, g) /\ Apart(r.pos, r.seqs)
      /\ \A s, c : c \in Cells =>
            /\ Has(s, c, r.pos, r.seqs) <=>
                  Has(s, c, ps, qs) /\ ~(s \in DOMAIN from /\ ps[c] >= from[s])
            /\ Has(s, c, r.pos, r.seqs) => r.pos[c] = ps[c]
      /\ r.tail = [s \in Seqs |->
            IF s \in DOMAIN from
            THEN MarkIfIncomplete(RemoveEntries(ts[s], from[s]), Cardinality(Of(s, r.pos, r.seqs)))
            ELSE ts[s]]
  <2>1. \A s \in DOMAIN from : from[s] \in Nat
    OBVIOUS
  <2> QED BY ONLY <2>1, r = Removed(ts, ps, qs, from), CellsType(ps, qs, g), Apart(ps, qs), RemovedCells
<1>2. \A c \in Cells : ps[c] \in Int
  BY DEF CellsType
<1>3. /\ \A c \in Cells : Has(s0, c, r.pos, r.seqs) <=> Has(s0, c, ps, qs) /\ ps[c] < p0
      /\ \A c \in Cells : Has(s0, c, r.pos, r.seqs) => r.pos[c] = ps[c]
  BY <1>1, <1>2
<1>4. r.tail[s0] = MarkIfIncomplete(RemoveEntries(ts[s0], p0), Cardinality(Of(s0, r.pos, r.seqs)))
  BY <1>1
<1>5. Good(r.tail[s0], s0, r.pos, r.seqs, g)
      /\ r.tail[s0].entries = {e \in ts[s0].entries : e.pos < p0}
  <2>1. /\ ts[s0] \in Tails /\ ts[s0].used = SlotsOf(ts[s0].entries) /\ Separate(ts[s0].entries)
        /\ Live(ts[s0].entries, s0, ps, qs, g)
    BY DEF Good
  <2>2. SuffixUpTo(p0, ts[s0].entries, s0, ps, qs)
    BY DEF Good, Suffix, SuffixUpTo
  <2>3. CutAt(p0, s0, ps, qs, r.pos, r.seqs)
    BY <1>3 DEF CutAt
  <2>4. PICK t, at, left : t = ts[s0] /\ at = r.pos /\ left = r.seqs
    OBVIOUS
  <2>5. PICK m : m = MarkIfIncomplete(RemoveEntries(t, p0), Cardinality(Of(s0, at, left)))
    OBVIOUS
  <2>6. Good(m, s0, at, left, g) /\ m.entries = {e \in t.entries : e.pos < p0}
    <3>1. /\ t \in Tails /\ t.used = SlotsOf(t.entries) /\ Separate(t.entries)
          /\ Live(t.entries, s0, ps, qs, g) /\ SuffixUpTo(p0, t.entries, s0, ps, qs)
          /\ CutAt(p0, s0, ps, qs, at, left)
      BY <2>1, <2>2, <2>3, <2>4
    <3> QED BY ONLY <2>5, <3>1, p0 \in Nat, RemovedTail
  <2> QED BY <1>4, <2>4, <2>5, <2>6
<1>6. ASSUME NEW s \in Seqs \ {s0}
      PROVE  r.tail[s] = ts[s] /\ Good(r.tail[s], s, r.pos, r.seqs, g)
  <2>1. r.tail[s] = ts[s]
    BY <1>1
  <2>2. /\ \A c \in Cells : Has(s, c, r.pos, r.seqs) <=> Has(s, c, ps, qs)
        /\ \A c \in Cells : Has(s, c, ps, qs) => r.pos[c] = ps[c] /\ g[c] = g[c]
    BY <1>1
  <2>3. Good(ts[s], s, r.pos, r.seqs, g)
    BY <2>2, GoodFrame
  <2> QED BY <2>1, <2>3
<1>7. r.tail = [s \in Seqs |-> r.tail[s]]
  BY <1>1
<1> QED BY <1>1, <1>3, <1>5, <1>6, <1>7

(* The rows of slots not in use are forgotten.                             *)
LEMMA HeldType ==
    ASSUME NEW rs, NEW ts, RowsType(rs)
    PROVE  RowsType(Held(rs, ts))
BY DEF RowsType, Held

(* The rows of the entries that are left stay.                             *)
LEMMA HeldGood ==
    ASSUME NEW rs, NEW ts, NEW s \in Seqs, ts[s] \in Tails, ts[s].used = SlotsOf(ts[s].entries),
           \A e \in ts[s].entries : rs[s][e.slot] \in {e.cell, Raced}
    PROVE  RowsGood(ts[s], Held(rs, ts)[s])
<1>1. \A i \in Slots : Held(rs, ts)[s][i] = IF i \in ts[s].used THEN rs[s][i] ELSE Stale
  BY DEF Held
<1>2. \A e \in ts[s].entries : e.slot \in Slots /\ e.slot \in ts[s].used
  BY DEF Tails, Entries, SlotsOf
<1> QED BY <1>1, <1>2 DEF RowsGood

(* The copies move rows.                                                   *)
LEMMA CopiedType ==
    ASSUME RowsType(rows), PendingType
    PROVE  RowsType(CopiedRows)
<1>1. CASE pending = None
  BY <1>1 DEF CopiedRows
<1>2. CASE pending # None
  <2> DEFINE R == Cells \cup {Stale, Raced}
             new == [i \in Slots |->
                        LET from == {k \in pending.copies : k.dst = i}
                        IN  IF from = {} THEN rows[pending.dst][i]
                            ELSE rows[pending.src][(CHOOSE k \in from : TRUE).src]]
  <2>1. \A s \in Seqs : \A i \in Slots : rows[s][i] \in R
    BY DEF RowsType
  <2>2. \A i \in Slots : new[i] \in R
    <3> SUFFICES ASSUME NEW i \in Slots PROVE new[i] \in R
      OBVIOUS
    <3> DEFINE from == {k \in pending.copies : k.dst = i}
    <3>1. CASE from = {}
      BY <1>2, <2>1, <3>1 DEF PendingType
    <3>2. CASE from # {}
      <4>1. (CHOOSE k \in from : TRUE) \in from
        BY <3>2
      <4>2. (CHOOSE k \in from : TRUE).src \in Slots
        BY <1>2, <4>1 DEF PendingType
      <4>3. new[i] = rows[pending.src][(CHOOSE k \in from : TRUE).src]
        BY <3>2
      <4> QED BY <1>2, <2>1, <4>2, <4>3 DEF PendingType
    <3> QED BY <3>1, <3>2
  <2>3. new \in [Slots -> R]
    BY <2>2
  <2>4. CopiedRows = [rows EXCEPT ![pending.dst] = new]
    BY <1>2 DEF CopiedRows
  <2> HIDE DEF new, R
  <2>5. rows \in [Seqs -> [Slots -> R]]
    BY DEF RowsType, R
  <2>6. CopiedRows \in [Seqs -> [Slots -> R]]
    BY <2>3, <2>4, <2>5
  <2> QED BY <2>6 DEF RowsType, R
<1> QED BY <1>1, <1>2

(* A step that ends with nothing pending and no graph running.             *)
LEMMA IdleAfter ==
    ASSUME batch' = None, pending' = None, CellsType(pos', seqs', gen'), Apart(pos', seqs'),
           tail' = [s \in Seqs |-> tail'[s]],
           \A s \in Seqs : Good(tail'[s], s, pos', seqs', gen'),
           NEW rs, RowsType(rs), rows' = Held(rs, tail'),
           \A s \in Seqs : \A e \in tail'[s].entries : rs[s][e.slot] \in {e.cell, Raced}
    PROVE  TailInv'
<1>1. CommittedCopy' = tail' /\ CopiedRows' = rows'
  BY DEF CommittedCopy, CopiedRows
<1>2. PendingType'
  BY DEF PendingType
<1>3. ASSUME NEW s \in Seqs
      PROVE  tail'[s] \in Tails /\ RowsGood(tail'[s], rows'[s])
  <2>1. tail'[s] \in Tails /\ tail'[s].used = SlotsOf(tail'[s].entries)
    BY DEF Good
  <2> QED BY <2>1, HeldGood
<1>4. RowsType(rows')
  BY HeldType
<1>5. Idle'
  BY <1>1, <1>2, <1>3 DEF Idle
<1> QED BY <1>3, <1>4, <1>5 DEF TailInv

-----------------------------------------------------------------------------
(* In the initial state and after clear nothing is kept.                   *)
LEMMA FreshGood ==
    ASSUME NEW s \in Seqs, NEW ps, NEW qs, NEW g, NEW t \in Tails,
           t.entries = {}, t.used = {}, \A c \in Cells : qs[c] = {}
    PROVE  Good(t, s, ps, qs, g)
<1>1. Of(s, ps, qs) = {}
  BY DEF Of
<1>2. SlotsOf({}) = {} /\ Cardinality({}) = 0 /\ IsFiniteSet({})
  BY FS_EmptySet DEF SlotsOf
<1>3. Separate({})
  BY <1>2, Constants DEF Separate
<1>4. Live({}, s, ps, qs, g) /\ Suffix({}, s, ps, qs)
  BY DEF Live, Suffix
<1>5. Covered(t, Cardinality(Of(s, ps, qs)))
  BY <1>1, <1>2 DEF Covered
<1> QED BY <1>2, <1>3, <1>4, <1>5 DEF Good

(* The tail of a sequence without cells.                                   *)
LEMMA NoTailIs == NoTail \in Tails /\ NoTail.entries = {} /\ NoTail.used = {}
<1>1. {} \in SUBSET Entries /\ {} \in SUBSET Slots /\ FALSE \in BOOLEAN /\ 0 \in 0 .. NTokens - 1
  BY Constants
<1>2. [entries |-> {}, used |-> {}, degraded |-> FALSE, recovery |-> 0] \in Tails
  BY <1>1, TailMade
<1> QED BY <1>2 DEF NoTail

(* The empty cache.                                                        *)
LEMMA EmptyCells ==
    LET ps == [c \in Cells |-> -1]
        qs == [c \in Cells |-> {}]
        g  == [c \in Cells |-> 0]
        rs == [s \in Seqs |-> [i \in Slots |-> Stale]]
    IN  CellsType(ps, qs, g) /\ Apart(ps, qs) /\ RowsType(rs)
<1>1. -1 \in -1 .. MaxLen - 1 /\ 0 \in 0 .. GenWrap - 1
  BY TailAssumption
<1>2. CellsType([c \in Cells |-> -1], [c \in Cells |-> {}], [c \in Cells |-> 0])
  BY <1>1 DEF CellsType
<1>3. Apart([c \in Cells |-> -1], [c \in Cells |-> {}])
  BY DEF Apart
<1>4. RowsType([s \in Seqs |-> [i \in Slots |-> Stale]])
  BY DEF RowsType
<1> QED BY <1>2, <1>3, <1>4

(* The invariant holds at first.                                           *)
LEMMA InitInv == Init => TailInv
<1> SUFFICES ASSUME Init PROVE TailInv
  OBVIOUS
<1>1. CellsType(pos, seqs, gen) /\ Apart(pos, seqs) /\ RowsType(rows)
  BY EmptyCells DEF Init
<1>2. CommittedCopy = tail /\ CopiedRows = rows /\ PendingType /\ batch = None
  BY DEF Init, CommittedCopy, CopiedRows, PendingType
<1>3. tail = [s \in Seqs |-> tail[s]] /\ \A s \in Seqs : tail[s] = NoTail
  BY DEF Init
<1>4. ASSUME NEW s \in Seqs
      PROVE  tail[s] \in Tails /\ Good(tail[s], s, pos, seqs, gen) /\ RowsGood(tail[s], rows[s])
  <2>1. tail[s] \in Tails /\ tail[s].entries = {} /\ tail[s].used = {}
    BY <1>3, NoTailIs
  <2>2. \A c \in Cells : seqs[c] = {}
    BY DEF Init
  <2>3. Good(tail[s], s, pos, seqs, gen)
    BY <2>1, <2>2, FreshGood
  <2>4. RowsGood(tail[s], rows[s])
    BY <2>1 DEF RowsGood, Init
  <2> QED BY <2>1, <2>3, <2>4
<1>5. Idle
  BY <1>2, <1>4 DEF Idle
<1> QED BY <1>1, <1>2, <1>3, <1>4, <1>5 DEF TailInv

(* clear starts afresh.                                                    *)
LEMMA ClearInv == ASSUME Clear PROVE TailInv'
<1>1. CellsType(pos', seqs', gen') /\ Apart(pos', seqs') /\ RowsType(rows')
  BY EmptyCells DEF Clear
<1>2. CommittedCopy' = tail' /\ CopiedRows' = rows' /\ PendingType' /\ batch' = None
  BY DEF Clear, CommittedCopy, CopiedRows, PendingType
<1>3. tail' = [s \in Seqs |-> tail'[s]] /\ \A s \in Seqs : tail'[s] = NoTail
  BY DEF Clear
<1>4. ASSUME NEW s \in Seqs
      PROVE  tail'[s] \in Tails /\ Good(tail'[s], s, pos', seqs', gen') /\ RowsGood(tail'[s], rows'[s])
  <2>1. tail'[s] \in Tails /\ tail'[s].entries = {} /\ tail'[s].used = {}
    BY <1>3, NoTailIs
  <2>2. \A c \in Cells : seqs'[c] = {}
    BY DEF Clear
  <2>3. Good(tail'[s], s, pos', seqs', gen')
    BY <2>1, <2>2, FreshGood
  <2>4. RowsGood(tail'[s], rows'[s])
    BY <2>1 DEF RowsGood, Clear
  <2> QED BY <2>1, <2>3, <2>4
<1>5. Idle'
  BY <1>2, <1>4 DEF Idle
<1> QED BY <1>1, <1>2, <1>3, <1>4, <1>5 DEF TailInv

(* The tails once a pending copy is committed.                             *)
LEMMA CommittedIs ==
    ASSUME TailInv, batch = None
    PROVE  /\ CommittedCopy = [s \in Seqs |-> CommittedCopy[s]]
           /\ \A s \in Seqs : /\ Good(CommittedCopy[s], s, pos, seqs, gen)
                              /\ RowsGood(CommittedCopy[s], CopiedRows[s])
           /\ CellsType(pos, seqs, gen) /\ Apart(pos, seqs) /\ RowsType(CopiedRows)
<1>1. Idle /\ CellsType(pos, seqs, gen) /\ Apart(pos, seqs) /\ RowsType(rows)
      /\ tail = [s \in Seqs |-> tail[s]]
  BY DEF TailInv
<1>2. CommittedCopy = [s \in Seqs |-> CommittedCopy[s]]
  BY <1>1 DEF CommittedCopy
<1>3. RowsType(CopiedRows)
  BY <1>1, CopiedType DEF Idle
<1> QED BY <1>1, <1>2, <1>3 DEF Idle

(* seq_rm, on what the cache has once a pending copy is made.              *)
LEMMA RemovedNow ==
    ASSUME TailInv, batch = None, NEW s0 \in Seqs, NEW p0 \in Nat,
           NEW from, DOMAIN from = {s0}, from[s0] = p0,
           NEW r, r = Removed(CommittedCopy, pos, seqs, from)
    PROVE  /\ CellsType(r.pos, r.seqs, gen) /\ Apart(r.pos, r.seqs)
           /\ r.tail = [s \in Seqs |-> r.tail[s]]
           /\ \A s \in Seqs : /\ Good(r.tail[s], s, r.pos, r.seqs, gen)
                              /\ \A e \in r.tail[s].entries :
                                    CopiedRows[s][e.slot] \in {e.cell, Raced}
           /\ r.tail[s0].entries = {e \in CommittedCopy[s0].entries : e.pos < p0}
           /\ \A s \in Seqs \ {s0} : r.tail[s] = CommittedCopy[s]
           /\ \A c \in Cells : Has(s0, c, r.pos, r.seqs) <=> Has(s0, c, pos, seqs) /\ pos[c] < p0
<1>1. PICK ts : ts = CommittedCopy
  OBVIOUS
<1>2. /\ \A s \in Seqs : Good(ts[s], s, pos, seqs, gen) /\ RowsGood(ts[s], CopiedRows[s])
      /\ CellsType(pos, seqs, gen) /\ Apart(pos, seqs)
  BY <1>1, CommittedIs
<1>3. /\ CellsType(r.pos, r.seqs, gen) /\ Apart(r.pos, r.seqs)
      /\ r.tail = [s \in Seqs |-> r.tail[s]]
      /\ \A s \in Seqs : Good(r.tail[s], s, r.pos, r.seqs, gen)
      /\ r.tail[s0].entries = {e \in ts[s0].entries : e.pos < p0}
      /\ \A s \in Seqs \ {s0} : r.tail[s] = ts[s]
      /\ \A c \in Cells : Has(s0, c, r.pos, r.seqs) <=> Has(s0, c, pos, seqs) /\ pos[c] < p0
  <2>1. PICK ps, qs, g : ps = pos /\ qs = seqs /\ g = gen
    OBVIOUS
  <2>2. \A s \in Seqs : Good(ts[s], s, ps, qs, g)
    BY <1>2, <2>1
  <2>3. CellsType(ps, qs, g) /\ Apart(ps, qs)
    BY <1>2, <2>1
  <2>4. DOMAIN from = {s0} /\ from[s0] = p0 /\ r = Removed(ts, ps, qs, from)
    BY <1>1, <2>1
  <2>5. /\ CellsType(r.pos, r.seqs, g) /\ Apart(r.pos, r.seqs)
        /\ r.tail = [s \in Seqs |-> r.tail[s]]
        /\ \A s \in Seqs : Good(r.tail[s], s, r.pos, r.seqs, g)
        /\ r.tail[s0].entries = {e \in ts[s0].entries : e.pos < p0}
        /\ \A s \in Seqs \ {s0} : r.tail[s] = ts[s]
        /\ \A c \in Cells : Has(s0, c, r.pos, r.seqs) <=> Has(s0, c, ps, qs) /\ ps[c] < p0
    BY ONLY <2>2, <2>3, <2>4, s0 \in Seqs, p0 \in Nat, RemovedOne
  <2> QED BY <2>1, <2>5
<1>4. \A s \in Seqs : r.tail[s].entries \subseteq ts[s].entries
  BY <1>3
<1>5. \A s \in Seqs : \A e \in r.tail[s].entries : CopiedRows[s][e.slot] \in {e.cell, Raced}
  BY <1>2, <1>4 DEF RowsGood
<1> QED BY <1>1, <1>3, <1>5

(* seq_rm.                                                                 *)
LEMMA SeqRmInv ==
    ASSUME TailInv, NEW s0 \in Seqs, NEW p0 \in 0 .. MaxLen - 1, SeqRm(s0, p0)
    PROVE  TailInv'
<1>0. PICK from : from = [x \in {s0} |-> p0]
  OBVIOUS
<1>a. DOMAIN from = {s0} /\ from[s0] = p0
  BY <1>0
<1>1. PICK r : r = Removed(CommittedCopy, pos, seqs, from)
  OBVIOUS
<1>2. /\ batch = None /\ pos' = r.pos /\ seqs' = r.seqs /\ tail' = r.tail
      /\ rows' = Held(CopiedRows, tail') /\ pending' = None /\ gen' = gen /\ batch' = None
  BY <1>0, <1>1 DEF SeqRm
<1>3. p0 \in Nat
  BY Constants
<1>4. /\ CellsType(r.pos, r.seqs, gen) /\ Apart(r.pos, r.seqs)
      /\ r.tail = [s \in Seqs |-> r.tail[s]]
      /\ \A s \in Seqs : /\ Good(r.tail[s], s, r.pos, r.seqs, gen)
                         /\ \A e \in r.tail[s].entries :
                               CopiedRows[s][e.slot] \in {e.cell, Raced}
  BY ONLY TailInv, s0 \in Seqs, <1>a, <1>1, <1>2, <1>3, RemovedNow
<1>5. RowsType(CopiedRows)
  BY <1>2, CommittedIs
<1>6. /\ CellsType(pos', seqs', gen') /\ Apart(pos', seqs') /\ tail' = [s \in Seqs |-> tail'[s]]
      /\ \A s \in Seqs : Good(tail'[s], s, pos', seqs', gen')
      /\ \A s \in Seqs : \A e \in tail'[s].entries : CopiedRows[s][e.slot] \in {e.cell, Raced}
  BY <1>2, <1>4
<1> QED BY <1>2, <1>5, <1>6, IdleAfter

(* The copies are made.                                                    *)
LEMMA UpdateCopiesInv == ASSUME TailInv, UpdateCopies PROVE TailInv'
<1>1. /\ batch = None /\ tail' = CommittedCopy /\ rows' = Held(CopiedRows, tail')
      /\ pending' = None /\ pos' = pos /\ seqs' = seqs /\ gen' = gen /\ batch' = None
  BY DEF UpdateCopies
<1>2. /\ CommittedCopy = [s \in Seqs |-> CommittedCopy[s]]
      /\ \A s \in Seqs : /\ Good(CommittedCopy[s], s, pos, seqs, gen)
                         /\ RowsGood(CommittedCopy[s], CopiedRows[s])
      /\ CellsType(pos, seqs, gen) /\ Apart(pos, seqs) /\ RowsType(CopiedRows)
  BY <1>1, CommittedIs
<1>3. \A s \in Seqs : \A e \in tail'[s].entries : CopiedRows[s][e.slot] \in {e.cell, Raced}
  BY <1>1, <1>2 DEF RowsGood
<1>4. /\ CellsType(pos', seqs', gen') /\ Apart(pos', seqs') /\ tail' = [s \in Seqs |-> tail'[s]]
      /\ \A s \in Seqs : Good(tail'[s], s, pos', seqs', gen')
  BY <1>1, <1>2
<1> QED BY <1>1, <1>2, <1>3, <1>4, IdleAfter

(* The copies fail: the destination is given up.                           *)
LEMMA UpdateFailsInv == ASSUME TailInv, UpdateFails PROVE TailInv'
<1> DEFINE d == pending.dst
           from == [x \in {d} |-> 0]
           r == Removed(CancelledCopy, pos, seqs, from)
<1>1. /\ batch = None /\ pending # None /\ pos' = r.pos /\ seqs' = r.seqs /\ tail' = r.tail
      /\ rows' = Held(rows, tail') /\ pending' = None /\ gen' = gen /\ batch' = None
  BY DEF UpdateFails
<1>2. /\ CellsType(pos, seqs, gen) /\ Apart(pos, seqs) /\ RowsType(rows) /\ PendingType
      /\ tail = [s \in Seqs |-> tail[s]] /\ \A s \in Seqs : tail[s] \in Tails
      /\ \A s \in Seqs : /\ Good(CommittedCopy[s], s, pos, seqs, gen)
                         /\ RowsGood(CommittedCopy[s], CopiedRows[s])
  BY <1>1 DEF TailInv, Idle
<1>3. d \in Seqs /\ tail[d].entries = {} /\ tail[d].used = SlotsOf(pending.entries)
  BY <1>1, <1>2 DEF PendingType
<1>4. \A s \in Seqs \ {d} : /\ CommittedCopy[s] = tail[s] /\ CopiedRows[s] = rows[s]
                            /\ CancelledCopy[s] = tail[s]
  BY <1>1, <1>2, <1>3 DEF CommittedCopy, CopiedRows, CancelledCopy, RowsType
<1>5. /\ CancelledCopy[d] \in Tails /\ CancelledCopy[d].entries = {} /\ CancelledCopy[d].used = {}
  <2>1. CancelledCopy[d] = [tail[d] EXCEPT !.used = tail[d].used \ SlotsOf(pending.entries)]
    BY <1>2, <1>3 DEF CancelledCopy
  <2>2. CancelledCopy[d] = [entries |-> {}, used |-> {}, degraded |-> tail[d].degraded,
                            recovery |-> tail[d].recovery]
    <3>1. tail[d] = [entries |-> tail[d].entries, used |-> tail[d].used,
                     degraded |-> tail[d].degraded, recovery |-> tail[d].recovery]
      BY <1>2, <1>3, TailFields
    <3>2. tail[d].used \ SlotsOf(pending.entries) = {}
      BY <1>3
    <3> QED BY <1>3, <2>1, <3>1, <3>2
  <2>3. /\ {} \in SUBSET Entries /\ {} \in SUBSET Slots
        /\ tail[d].degraded \in BOOLEAN /\ tail[d].recovery \in 0 .. NTokens - 1
    BY <1>2, <1>3, TailFields
  <2>4. [entries |-> {}, used |-> {}, degraded |-> tail[d].degraded,
         recovery |-> tail[d].recovery] \in Tails
    BY <2>3, TailMade
  <2> QED BY <2>2, <2>4
<1>6. /\ CellsType(r.pos, r.seqs, gen) /\ Apart(r.pos, r.seqs)
      /\ \A s, c : c \in Cells =>
            /\ Has(s, c, r.pos, r.seqs) <=>
                  Has(s, c, pos, seqs) /\ ~(s \in DOMAIN from /\ pos[c] >= from[s])
            /\ Has(s, c, r.pos, r.seqs) => r.pos[c] = pos[c]
      /\ r.tail = [s \in Seqs |->
            IF s \in DOMAIN from
            THEN MarkIfIncomplete(RemoveEntries(CancelledCopy[s], from[s]),
                                  Cardinality(Of(s, r.pos, r.seqs)))
            ELSE CancelledCopy[s]]
  <2>1. \A s \in DOMAIN from : from[s] \in Nat
    OBVIOUS
  <2> HIDE DEF from
  <2> QED BY <1>2, <2>1, RemovedCells
<1> HIDE DEF r
<1>7. Good(r.tail[d], d, r.pos, r.seqs, gen) /\ r.tail[d].entries = {}
  <2>1. r.tail[d] = MarkIfIncomplete(RemoveEntries(CancelledCopy[d], 0),
                                     Cardinality(Of(d, r.pos, r.seqs)))
    BY <1>3, <1>6
  <2>2. CutAt(0, d, pos, seqs, r.pos, r.seqs)
    <3>1. \A c \in Cells : pos[c] \in Int
      BY <1>2 DEF CellsType
    <3>2. d \in DOMAIN from /\ from[d] = 0
      OBVIOUS
    <3> HIDE DEF from
    <3> QED BY <1>6, <3>1, <3>2 DEF CutAt
  <2>3. PICK t, at, left : t = CancelledCopy[d] /\ at = r.pos /\ left = r.seqs
    OBVIOUS
  <2>4. PICK m : m = MarkIfIncomplete(RemoveEntries(t, 0), Cardinality(Of(d, at, left)))
    OBVIOUS
  <2>5. Good(m, d, at, left, gen) /\ m.entries = {e \in t.entries : e.pos < 0}
    <3>1. t.used = SlotsOf(t.entries) /\ Separate(t.entries)
      BY <1>5, <2>3, FS_EmptySet, Constants DEF SlotsOf, Separate
    <3>2. Live(t.entries, d, pos, seqs, gen) /\ SuffixUpTo(0, t.entries, d, pos, seqs)
      BY <1>5, <2>3 DEF Live, SuffixUpTo
    <3>3. t \in Tails /\ CutAt(0, d, pos, seqs, at, left) /\ 0 \in Nat
      BY <1>5, <2>2, <2>3
    <3> QED BY ONLY <2>4, <3>1, <3>2, <3>3, RemovedTail
  <2> QED BY <1>5, <2>1, <2>3, <2>4, <2>5
<1>8. ASSUME NEW s \in Seqs \ {d}
      PROVE  r.tail[s] = tail[s] /\ Good(r.tail[s], s, r.pos, r.seqs, gen)
  <2>1. r.tail[s] = tail[s]
    BY <1>4, <1>6
  <2>2. /\ \A c \in Cells : Has(s, c, r.pos, r.seqs) <=> Has(s, c, pos, seqs)
        /\ \A c \in Cells : Has(s, c, pos, seqs) => r.pos[c] = pos[c] /\ gen[c] = gen[c]
    BY <1>6
  <2>3. Good(tail[s], s, pos, seqs, gen)
    BY <1>2, <1>4
  <2>4. Good(tail[s], s, r.pos, r.seqs, gen)
    BY <2>2, <2>3, GoodFrame
  <2> QED BY <2>1, <2>4
<1>9. \A s \in Seqs : \A e \in tail'[s].entries : rows[s][e.slot] \in {e.cell, Raced}
  BY <1>1, <1>2, <1>4, <1>7, <1>8 DEF RowsGood
<1>10. /\ CellsType(pos', seqs', gen') /\ Apart(pos', seqs') /\ tail' = [s \in Seqs |-> tail'[s]]
       /\ \A s \in Seqs : Good(tail'[s], s, pos', seqs', gen')
  <2>1. \A s \in Seqs : Good(r.tail[s], s, r.pos, r.seqs, gen)
    BY <1>7, <1>8
  <2> QED BY <1>1, <1>6, <2>1
<1> QED BY <1>1, <1>2, <1>9, <1>10, IdleAfter

-----------------------------------------------------------------------------
(* The slots prepare_seq_cp takes are free ones, one for each entry.       *)
LEMMA CopySlots ==
    ASSUME NEW E \in SUBSET Entries, Separate(E), NEW P, P = {f.pos : f \in E}
    PROVE  /\ \A e \in E : Nth(Slots, 1 + OrdinalIn(e.pos, P)) \in Slots
           /\ \A e, f \in E : Nth(Slots, 1 + OrdinalIn(e.pos, P)) = Nth(Slots, 1 + OrdinalIn(f.pos, P))
                                 => e = f
<1>1. P \in SUBSET Int /\ \A e \in E : e.pos \in P /\ e.pos \in Nat
  BY DEF Entries
<1>2. IsFiniteSet(P) /\ Cardinality(P) <= Cardinality(E)
  <2> DEFINE h == [e \in E |-> e.pos]
  <2>1. h \in Surjection(E, P)
    BY DEF Surjection
  <2> QED BY <2>1, FS_Surjection DEF Separate
<1>3. Cardinality(P) \in Nat /\ Cardinality(P) <= Limit /\ Limit \in Nat
  <2>1. Cardinality(E) \in Nat /\ Cardinality(P) \in Nat /\ Limit \in Nat
    BY <1>2, FS_CardinalityType, Constants DEF Separate
  <2> QED BY <1>2, <2>1 DEF Separate
<1>4. /\ \A n \in P : OrdinalIn(n, P) \in 0 .. Cardinality(P) - 1
      /\ \A m, n \in P : m < n => OrdinalIn(m, P) < OrdinalIn(n, P)
  BY <1>1, <1>2, NthProperties
<1>5. /\ \A i \in 1 .. Limit : Nth(Slots, i) \in Slots
      /\ \A i, j \in 1 .. Limit : i < j => Nth(Slots, i) < Nth(Slots, j)
  <2>1. Slots \in SUBSET Int
    BY Constants
  <2> QED BY <2>1, NthProperties, Constants
<1>6. \A e \in E : 1 + OrdinalIn(e.pos, P) \in 1 .. Limit
  BY <1>1, <1>3, <1>4
<1>7. ASSUME NEW e \in E, NEW f \in E, e # f
      PROVE  Nth(Slots, 1 + OrdinalIn(e.pos, P)) # Nth(Slots, 1 + OrdinalIn(f.pos, P))
  <2>1. PICK i \in 1 .. Limit, j \in 1 .. Limit :
            i = 1 + OrdinalIn(e.pos, P) /\ j = 1 + OrdinalIn(f.pos, P)
    BY <1>6
  <2>2. e.pos < f.pos \/ f.pos < e.pos
    BY <1>1, <1>7 DEF Separate
  <2>3. i < j \/ j < i
    <3>1. OrdinalIn(e.pos, P) \in Int /\ OrdinalIn(f.pos, P) \in Int
      BY <1>1, <1>3, <1>4
    <3>2. OrdinalIn(e.pos, P) < OrdinalIn(f.pos, P) \/ OrdinalIn(f.pos, P) < OrdinalIn(e.pos, P)
      BY <1>1, <1>4, <2>2
    <3> QED BY <2>1, <3>1, <3>2
  <2>4. Nth(Slots, i) \in Int /\ Nth(Slots, j) \in Int
    <3>1. Nth(Slots, i) \in Slots /\ Nth(Slots, j) \in Slots
      BY <1>5
    <3>2. \A x \in Slots : x \in Int
      BY Constants
    <3> QED BY <3>1, <3>2
  <2>5. Nth(Slots, i) # Nth(Slots, j)
    BY <1>5, <2>3, <2>4
  <2> QED BY <2>1, <2>5
<1> QED BY <1>5, <1>6, <1>7

(* C are the entries of E, in the slots m gives them.                      *)
CopyIs(C, E, m) == C = {[e EXCEPT !.slot = m[e]] : e \in E}

(* The copied entries are the source's, each in a slot of its own.         *)
LEMMA CopiedEntries ==
    ASSUME NEW E \in SUBSET Entries, Separate(E), NEW m \in [E -> Slots],
           \A e, f \in E : m[e] = m[f] => e = f,
           NEW C, CopyIs(C, E, m)
    PROVE  /\ C \in SUBSET Entries /\ Separate(C) /\ Cardinality(C) = Cardinality(E)
           /\ \A f \in C : \E e \in E : f.cell = e.cell /\ f.pos = e.pos /\ f.gen = e.gen /\ f.slot = m[e]
           /\ \A e \in E : \E f \in C : f.cell = e.cell /\ f.pos = e.pos /\ f.gen = e.gen /\ f.slot = m[e]
<1> DEFINE h == [e \in E |-> [cell |-> e.cell, gen |-> e.gen, pos |-> e.pos, slot |-> m[e]]]
<1>1. \A e \in E : /\ e \in Entries
                   /\ [e EXCEPT !.slot = m[e]] =
                        [cell |-> e.cell, gen |-> e.gen, pos |-> e.pos, slot |-> m[e]]
  BY DEF Entries
<1>2. C = {h[e] : e \in E}
  <2>1. \A e \in E : [e EXCEPT !.slot = m[e]] = h[e]
    BY <1>1
  <2>2. \A x : x \in C <=> \E e \in E : x = [e EXCEPT !.slot = m[e]]
    BY DEF CopyIs
  <2> HIDE DEF h
  <2>3. ASSUME NEW x \in C PROVE \E e \in E : x = h[e]
    <3>1. PICK e \in E : x = [e EXCEPT !.slot = m[e]]
      BY <2>2
    <3> QED BY <2>1, <3>1
  <2>4. ASSUME NEW e \in E PROVE h[e] \in C
    <3>1. h[e] = [e EXCEPT !.slot = m[e]]
      BY <2>1
    <3> QED BY <2>2, <3>1
  <2> QED BY <2>3, <2>4
<1>3. \A e \in E : /\ h[e] \in Entries /\ h[e].cell = e.cell /\ h[e].pos = e.pos
                   /\ h[e].gen = e.gen /\ h[e].slot = m[e]
  BY <1>1 DEF Entries
<1>4. h \in [E -> C] /\ \A f \in C : \E e \in E : h[e] = f
  BY <1>2
<1> HIDE DEF h
<1>5. \A e, f \in E : h[e] = h[f] => e = f
  BY <1>3
<1>6. h \in Bijection(E, C)
  BY <1>4, <1>5 DEF Bijection, Injection, IsInjective, Surjection
<1>7. IsFiniteSet(C) /\ Cardinality(C) = Cardinality(E)
  <2>1. IsFiniteSet(E)
    BY DEF Separate
  <2> QED BY <1>6, <2>1, FS_Bijection DEF ExistsBijection
<1>8. C \in SUBSET Entries
  BY <1>3, <1>4
<1>9. \A f \in C : \E e \in E : h[e] = f /\ f.cell = e.cell /\ f.pos = e.pos /\ f.gen = e.gen /\ f.slot = m[e]
  <2> SUFFICES ASSUME NEW f \in C
               PROVE  \E e \in E : h[e] = f /\ f.cell = e.cell /\ f.pos = e.pos /\ f.gen = e.gen /\ f.slot = m[e]
    OBVIOUS
  <2>1. PICK e \in E : h[e] = f
    BY <1>4
  <2> QED BY <1>3, <2>1
<1>10. Separate(C)
  <2> SUFFICES ASSUME NEW a \in C, NEW b \in C, a.pos = b.pos \/ a.slot = b.slot
               PROVE  a = b
    BY <1>7 DEF Separate
  <2>1. PICK e \in E : h[e] = a /\ a.pos = e.pos /\ a.slot = m[e]
    BY <1>9
  <2>2. PICK f \in E : h[f] = b /\ b.pos = f.pos /\ b.slot = m[f]
    BY <1>9
  <2>3. e = f
    BY <2>1, <2>2 DEF Separate
  <2> QED BY <2>1, <2>2, <2>3
<1> QED BY <1>3, <1>4, <1>7, <1>8, <1>9, <1>10

(* A copied tail, with the flags prepare_seq_cp gives it, is good for the  *)
(* cells that are shared.                                                  *)
LEMMA CopiedGood ==
    ASSUME NEW E, NEW src, NEW ps, NEW qs, NEW g,
           E \in SUBSET Entries, Separate(E), Live(E, src, ps, qs, g), Suffix(E, src, ps, qs),
           NEW m \in [E -> Slots], \A e, f \in E : m[e] = m[f] => e = f,
           NEW C, CopyIs(C, E, m),
           NEW dst, NEW qs2, \A c \in Cells : Has(dst, c, ps, qs2) <=> Has(src, c, ps, qs),
           NEW d \in BOOLEAN, NEW n \in 0 .. NTokens - 1, NEW x,
           x = MarkIfIncomplete([entries |-> C, degraded |-> d, recovery |-> n],
                                Cardinality(Of(src, ps, qs)))
    PROVE  Good([entries |-> C, used |-> SlotsOf(C), degraded |-> x.degraded, recovery |-> x.recovery],
                dst, ps, qs2, g)
<1>1. /\ C \in SUBSET Entries /\ Separate(C)
      /\ \A f \in C : \E e \in E : f.cell = e.cell /\ f.pos = e.pos /\ f.gen = e.gen /\ f.slot = m[e]
      /\ \A e \in E : \E f \in C : f.cell = e.cell /\ f.pos = e.pos /\ f.gen = e.gen /\ f.slot = m[e]
  BY CopiedEntries
<1>2. PICK k \in Nat, K \in Nat : k = Cardinality(C) /\ K = Cardinality(Of(src, ps, qs))
  BY <1>1, OfFinite, FS_CardinalityType DEF Separate
<1>3. \A e \in E : e.cell \in Cells /\ e.pos \in Nat
  BY DEF Entries
<1>4. /\ x.degraded \in BOOLEAN /\ x.recovery \in 0 .. NTokens - 1
      /\ k >= NTokens \/ k >= K \/ (x.degraded /\ x.recovery <= k)
  <2>1. Min({NTokens, K}) = IF NTokens <= K THEN NTokens ELSE K
    BY Constants, MinOfTwo
  <2>2. PICK y : y = [entries |-> C, degraded |-> d, recovery |-> n]
    OBVIOUS
  <2>3. Cardinality(y.entries) = k /\ x = MarkIfIncomplete(y, K) /\ y.degraded = d /\ y.recovery = n
    BY <1>2, <2>2
  <2>4. CASE k < Min({NTokens, K})
    <3>1. x = [y EXCEPT !.degraded = TRUE, !.recovery = 0]
      BY <2>3, <2>4 DEF MarkIfIncomplete
    <3>2. "degraded" \in DOMAIN y /\ "recovery" \in DOMAIN y
      BY <2>2
    <3>3. x.degraded = TRUE /\ x.recovery = 0
      BY ONLY <3>1, <3>2
    <3>4. x.degraded \in BOOLEAN /\ x.degraded
      BY <3>3
    <3>5. x.recovery \in 0 .. NTokens - 1 /\ x.recovery <= k
      BY <3>3, Constants
    <3> QED BY <3>4, <3>5
  <2>5. CASE ~(k < Min({NTokens, K}))
    <3>1. x.degraded = d /\ x.recovery = n
      BY <2>3, <2>5 DEF MarkIfIncomplete
    <3> QED BY <2>1, <2>5, <3>1, Constants
  <2> QED BY <2>4, <2>5
<1>5. Of(dst, ps, qs2) = Of(src, ps, qs)
  BY DEF Of, Has
<1>6. Live(C, dst, ps, qs2, g)
  <2> SUFFICES ASSUME NEW f \in C
               PROVE  Has(dst, f.cell, ps, qs2) /\ ps[f.cell] = f.pos /\ g[f.cell] = f.gen
    BY DEF Live
  <2>1. PICK e \in E : f.cell = e.cell /\ f.pos = e.pos /\ f.gen = e.gen
    BY <1>1
  <2>2. Has(src, e.cell, ps, qs) /\ ps[e.cell] = e.pos /\ g[e.cell] = e.gen
    BY DEF Live
  <2> QED BY <1>3, <2>1, <2>2
<1>7. Suffix(C, dst, ps, qs2)
  <2> SUFFICES ASSUME NEW f \in C, NEW c \in Cells, Has(dst, c, ps, qs2), ps[c] > f.pos
               PROVE  \E h \in C : h.cell = c
    BY DEF Suffix
  <2>1. PICK e \in E : f.pos = e.pos
    BY <1>1
  <2>2. PICK h \in E : h.cell = c
    BY <2>1 DEF Suffix
  <2> QED BY <1>1, <2>2
<1>8. SlotsOf(C) \in SUBSET Slots
  BY <1>1 DEF SlotsOf, Entries
<1>9. PICK t : t = [entries |-> C, used |-> SlotsOf(C), degraded |-> x.degraded, recovery |-> x.recovery]
  OBVIOUS
<1>10. t \in Tails /\ t.entries = C /\ t.used = SlotsOf(C)
  BY <1>1, <1>4, <1>8, <1>9, TailMade
<1>11. Covered(t, Cardinality(Of(dst, ps, qs2)))
  BY <1>2, <1>4, <1>5, <1>9 DEF Covered
<1>12. Good(t, dst, ps, qs2, g)
  BY <1>1, <1>6, <1>7, <1>10, <1>11 DEF Good
<1> QED BY <1>9, <1>12

(* The cells once they are shared.                                         *)
LEMMA SharedCells ==
    ASSUME NEW ps, NEW qs, NEW g, NEW src \in Seqs, NEW dst \in Seqs, NEW qs2,
           CellsType(ps, qs, g), Apart(ps, qs), \A c \in Cells : ~Has(dst, c, ps, qs),
           qs2 = [c \in Cells |-> IF c \in Of(src, ps, qs) THEN qs[c] \cup {dst} ELSE qs[c]]
    PROVE  /\ CellsType(ps, qs2, g) /\ Apart(ps, qs2)
           /\ \A c \in Cells : Has(dst, c, ps, qs2) <=> Has(src, c, ps, qs)
           /\ \A s, c : c \in Cells /\ s # dst => (Has(s, c, ps, qs2) <=> Has(s, c, ps, qs))
<1>1. \A c \in Cells : qs2[c] = IF Has(src, c, ps, qs) THEN qs[c] \cup {dst} ELSE qs[c]
  BY DEF Of, Has
<1>2. \A c \in Cells : ps[c] \in -1 .. MaxLen - 1 /\ qs[c] \in SUBSET Seqs
  BY DEF CellsType
<1>3. CellsType(ps, qs2, g)
  <2>1. qs2 \in [Cells -> SUBSET Seqs]
    BY <1>2
  <2> QED BY <2>1 DEF CellsType
<1>4. \A c \in Cells : Has(dst, c, ps, qs2) <=> Has(src, c, ps, qs)
  BY <1>1 DEF Has
<1>5. \A s, c : c \in Cells /\ s # dst => (Has(s, c, ps, qs2) <=> Has(s, c, ps, qs))
  BY <1>1 DEF Has
<1>6. Apart(ps, qs2)
  <2>1. \A c \in Cells : qs2[c] = {} <=> ps[c] = -1
    BY <1>1, <1>2 DEF Apart, Has
  <2>2. ASSUME NEW c \in Cells, NEW d \in Cells, NEW s \in qs2[c] \cap qs2[d], ps[c] = ps[d]
        PROVE  c = d
    <3>1. \A e \in Cells : qs[e] # {} => ps[e] >= 0
      BY <1>2 DEF Apart
    <3>2. CASE s = dst
      <4>1. \A e \in Cells : dst \in qs2[e] => src \in qs[e]
        BY <1>1, <3>1 DEF Has
      <4> QED BY <2>2, <3>2, <4>1 DEF Apart
    <3>3. CASE s # dst
      BY <1>1, <2>2, <3>3 DEF Apart
    <3> QED BY <3>2, <3>3
  <2> QED BY <2>1, <2>2 DEF Apart
<1> QED BY <1>3, <1>4, <1>5, <1>6

(* seq_cp.                                                                 *)
LEMMA CopyStateInv ==
    ASSUME TailInv, NEW src \in Seqs, NEW dst \in Seqs, CopyState(src, dst)
    PROVE  TailInv'
<1>0. PICK from : from = [x \in {dst} |-> 0]
  OBVIOUS
<1>a. DOMAIN from = {dst} /\ from[dst] = 0
  BY <1>0
<1>1. PICK r : r = Removed(CommittedCopy, pos, seqs, from)
  OBVIOUS
<1> DEFINE E == r.tail[src].entries
           P == {f.pos : f \in E}
           slot(e) == Nth(Slots \ r.tail[dst].used, 1 + OrdinalIn(e.pos, P))
           C == {[e EXCEPT !.slot = slot(e)] : e \in E}
           shared == Of(src, r.pos, r.seqs)
           d == r.tail[src].degraded \/ r.tail[dst].degraded
           n == IF d THEN 0 ELSE Min({r.tail[src].recovery, r.tail[dst].recovery})
           x == MarkIfIncomplete([entries |-> C, degraded |-> d, recovery |-> n], Cardinality(shared))
           K == {[src |-> e.slot, dst |-> slot(e)] : e \in E}
<1>2. /\ batch = None /\ src # dst
      /\ pos' = r.pos
      /\ seqs' = [c \in Cells |-> IF c \in shared THEN r.seqs[c] \cup {dst} ELSE r.seqs[c]]
      /\ tail' = [r.tail EXCEPT ![dst].used = @ \cup SlotsOf(C)]
      /\ pending' = [src |-> src, dst |-> dst, entries |-> C, copies |-> K,
                     degraded |-> x.degraded, recovery |-> x.recovery]
      /\ rows' = Held(CopiedRows, tail') /\ gen' = gen /\ batch' = None
  BY <1>0, <1>1 DEF CopyState
<1>3. /\ CellsType(r.pos, r.seqs, gen) /\ Apart(r.pos, r.seqs)
      /\ r.tail = [s \in Seqs |-> r.tail[s]]
      /\ \A s \in Seqs : /\ Good(r.tail[s], s, r.pos, r.seqs, gen)
                         /\ \A e \in r.tail[s].entries :
                               CopiedRows[s][e.slot] \in {e.cell, Raced}
      /\ r.tail[dst].entries = {e \in CommittedCopy[dst].entries : e.pos < 0}
      /\ \A c \in Cells : Has(dst, c, r.pos, r.seqs) <=> Has(dst, c, pos, seqs) /\ pos[c] < 0
  <2>1. /\ DOMAIN from = {dst} /\ from[dst] = 0 /\ 0 \in Nat
        /\ r = Removed(CommittedCopy, pos, seqs, from) /\ batch = None
    BY <1>a, <1>1, <1>2
  <2> QED BY ONLY <2>1, TailInv, dst \in Seqs, RemovedNow
<1>4. r.tail[dst].entries = {} /\ r.tail[dst].used = {}
  <2>1. \A e \in r.tail[dst].entries : e.pos \in Nat
    BY <1>3 DEF Good, Tails, Entries
  <2>2. r.tail[dst].entries = {}
    BY <1>3, <2>1
  <2>3. r.tail[dst].used = SlotsOf(r.tail[dst].entries)
    BY <1>3 DEF Good
  <2> QED BY <2>2, <2>3 DEF SlotsOf
<1>5. \A c \in Cells : ~Has(dst, c, r.pos, r.seqs)
  <2>1. CellsType(pos, seqs, gen)
    BY DEF TailInv
  <2>2. \A c \in Cells : pos[c] \in Int
    BY <2>1 DEF CellsType
  <2>3. \A c \in Cells : ~(Has(dst, c, pos, seqs) /\ pos[c] < 0)
    BY <2>2 DEF Has
  <2> QED BY <1>3, <2>3
<1>6. /\ CellsType(pos', seqs', gen') /\ Apart(pos', seqs')
      /\ \A c \in Cells : Has(dst, c, pos', seqs') <=> Has(src, c, r.pos, r.seqs)
      /\ \A s, c : c \in Cells /\ s # dst => (Has(s, c, pos', seqs') <=> Has(s, c, r.pos, r.seqs))
  <2>1. PICK ps, qs, g, qs2 : ps = r.pos /\ qs = r.seqs /\ g = gen /\ qs2 = seqs'
    OBVIOUS
  <2>2. /\ CellsType(ps, qs2, g) /\ Apart(ps, qs2)
        /\ \A c \in Cells : Has(dst, c, ps, qs2) <=> Has(src, c, ps, qs)
        /\ \A s, c : c \in Cells /\ s # dst => (Has(s, c, ps, qs2) <=> Has(s, c, ps, qs))
    <3>1. /\ CellsType(ps, qs, g) /\ Apart(ps, qs) /\ \A c \in Cells : ~Has(dst, c, ps, qs)
          /\ qs2 = [c \in Cells |-> IF c \in Of(src, ps, qs) THEN qs[c] \cup {dst} ELSE qs[c]]
      BY <1>2, <1>3, <1>5, <2>1
    <3> QED BY ONLY <3>1, src \in Seqs, dst \in Seqs, SharedCells
  <2> QED BY <1>2, <2>1, <2>2
<1>7. /\ r.tail[src] \in Tails /\ r.tail[dst] \in Tails /\ E \in SUBSET Entries /\ Separate(E)
      /\ r.tail[src].used = SlotsOf(E)
      /\ Live(E, src, r.pos, r.seqs, gen) /\ Suffix(E, src, r.pos, r.seqs)
  <2>1. r.tail[src] \in Tails /\ r.tail[dst] \in Tails
    BY <1>3 DEF Good
  <2> QED BY <1>3, <2>1, TailFields DEF Good
<1>8. PICK m \in [E -> Slots] : /\ \A e, f \in E : m[e] = m[f] => e = f
                                /\ \A e \in E : m[e] = slot(e)
  <2>1. Slots \ r.tail[dst].used = Slots
    BY <1>4
  <2>2. PICK Q : Q = P
    OBVIOUS
  <2>3. PICK F : F = E
    OBVIOUS
  <2>4. /\ \A e \in F : Nth(Slots, 1 + OrdinalIn(e.pos, Q)) \in Slots
        /\ \A e, f \in F : Nth(Slots, 1 + OrdinalIn(e.pos, Q)) = Nth(Slots, 1 + OrdinalIn(f.pos, Q))
                              => e = f
    <3>1. F \in SUBSET Entries /\ Separate(F) /\ Q = {f.pos : f \in F}
      BY <1>7, <2>2, <2>3
    <3> QED BY ONLY <3>1, CopySlots
  <2> DEFINE w == [e \in E |-> Nth(Slots, 1 + OrdinalIn(e.pos, Q))]
  <2>5. w \in [E -> Slots]
    BY <2>3, <2>4
  <2>6. \A e, f \in E : w[e] = w[f] => e = f
    BY <2>3, <2>4
  <2>7. \A e \in E : w[e] = slot(e)
    BY <2>1, <2>2
  <2> HIDE DEF w
  <2> QED BY <2>5, <2>6, <2>7
<1>9. CopyIs(C, E, m) /\ K = {[src |-> e.slot, dst |-> m[e]] : e \in E}
  <2> HIDE DEF slot
  <2> QED BY <1>8 DEF CopyIs
<1>10. d \in BOOLEAN /\ n \in 0 .. NTokens - 1
  <2>1. /\ r.tail[src].recovery \in 0 .. NTokens - 1 /\ r.tail[dst].recovery \in 0 .. NTokens - 1
    BY <1>7, TailFields
  <2>2. Min({r.tail[src].recovery, r.tail[dst].recovery}) \in 0 .. NTokens - 1
    BY <2>1, MinOfTwo
  <2> QED BY <2>2, Constants
<1> HIDE DEF slot, C, K, d, n
<1>11. Good([entries |-> C, used |-> SlotsOf(C), degraded |-> x.degraded, recovery |-> x.recovery],
            dst, pos', seqs', gen')
  <2>1. PICK ps, qs, g, qs2, F, y : /\ ps = r.pos /\ qs = r.seqs /\ g = gen /\ qs2 = seqs'
                                    /\ F = E /\ y = x
    OBVIOUS
  <2>2. /\ F \in SUBSET Entries /\ Separate(F) /\ Live(F, src, ps, qs, g) /\ Suffix(F, src, ps, qs)
        /\ m \in [F -> Slots] /\ \A e, f \in F : m[e] = m[f] => e = f
        /\ CopyIs(C, F, m)
        /\ \A c \in Cells : Has(dst, c, ps, qs2) <=> Has(src, c, ps, qs)
        /\ y = MarkIfIncomplete([entries |-> C, degraded |-> d, recovery |-> n],
                                Cardinality(Of(src, ps, qs)))
    BY <1>2, <1>6, <1>7, <1>8, <1>9, <2>1
  <2>3. Good([entries |-> C, used |-> SlotsOf(C), degraded |-> y.degraded, recovery |-> y.recovery],
             dst, ps, qs2, g)
    BY ONLY <1>10, <2>2, CopiedGood
  <2> QED BY <1>2, <2>1, <2>3
<1> HIDE DEF x
<1>12. /\ C \in SUBSET Entries
       /\ \A f \in C : \E e \in E : f.cell = e.cell /\ f.slot = m[e]
       /\ SlotsOf(C) \in SUBSET Slots
  <2>1. C \in SUBSET Entries /\ \A f \in C : \E e \in E : f.cell = e.cell /\ f.slot = m[e]
    BY <1>7, <1>8, <1>9, CopiedEntries
  <2> QED BY <2>1 DEF SlotsOf, Entries
<1>13. /\ tail' = [s \in Seqs |-> tail'[s]] /\ \A s \in Seqs \ {dst} : tail'[s] = r.tail[s]
       /\ tail'[dst] \in Tails /\ tail'[dst].entries = {} /\ tail'[dst].used = SlotsOf(C)
  <2>1. /\ tail' = [s \in Seqs |-> tail'[s]] /\ \A s \in Seqs \ {dst} : tail'[s] = r.tail[s]
        /\ tail'[dst] = [r.tail[dst] EXCEPT !.used = r.tail[dst].used \cup SlotsOf(C)]
    BY <1>2, <1>3
  <2>2. r.tail[dst] = [entries |-> r.tail[dst].entries, used |-> r.tail[dst].used,
                       degraded |-> r.tail[dst].degraded, recovery |-> r.tail[dst].recovery]
    BY <1>7, TailFields
  <2>3. r.tail[dst].used \cup SlotsOf(C) = SlotsOf(C)
    BY <1>4
  <2>4. tail'[dst] = [entries |-> {}, used |-> SlotsOf(C),
                      degraded |-> r.tail[dst].degraded, recovery |-> r.tail[dst].recovery]
    BY <1>4, <2>1, <2>2, <2>3
  <2>5. {} \in SUBSET Entries
    OBVIOUS
  <2>6. tail'[dst] \in Tails
    BY <1>7, <1>12, <2>4, <2>5, TailFields, TailMade
  <2> QED BY <2>1, <2>4, <2>6
<1>14. pending' # None /\ pending'.src = src /\ pending'.dst = dst
       /\ pending'.entries = C /\ pending'.copies = K
       /\ pending'.degraded = x.degraded /\ pending'.recovery = x.recovery
  <2>1. "src" \in DOMAIN pending' /\ "src" \notin DOMAIN None
    BY <1>2 DEF None
  <2> QED BY <1>2, <2>1
<1>15. CommittedCopy' = [tail' EXCEPT ![dst] = [entries |-> C, used |-> SlotsOf(C),
                             degraded |-> x.degraded, recovery |-> x.recovery]]
  <2>1. SlotsOf({}) = {}
    BY DEF SlotsOf
  <2>2. (tail'[dst].used \ SlotsOf(tail'[dst].entries)) \cup SlotsOf(C) = SlotsOf(C)
    BY <1>13, <2>1
  <2> QED BY <1>14, <2>2 DEF CommittedCopy
<1>16. PendingType'
  <2>1. \A k \in K : k.src \in Slots
    BY <1>7, <1>9 DEF Entries
  <2> QED BY <1>2, <1>13, <1>14, <2>1 DEF PendingType
<1>17. RowsType(CopiedRows) /\ RowsType(rows')
  <2>1. RowsType(CopiedRows)
    BY <1>2, CommittedIs
  <2> QED BY <1>2, <2>1, HeldType
<1>18. ASSUME NEW s \in Seqs \ {dst}
       PROVE  /\ CommittedCopy'[s] = tail'[s] /\ CopiedRows'[s] = rows'[s] /\ tail'[s] \in Tails
              /\ Good(tail'[s], s, pos', seqs', gen') /\ RowsGood(tail'[s], rows'[s])
  <2>1. CommittedCopy'[s] = tail'[s] /\ CopiedRows'[s] = rows'[s]
    BY <1>13, <1>14, <1>15, <1>17 DEF CopiedRows, RowsType
  <2>2. Good(r.tail[s], s, r.pos, r.seqs, gen)
    BY <1>3
  <2>3. Good(tail'[s], s, pos', seqs', gen')
    <3>1. /\ \A c \in Cells : Has(s, c, pos', seqs') <=> Has(s, c, r.pos, r.seqs)
          /\ \A c \in Cells : Has(s, c, r.pos, r.seqs) => pos'[c] = r.pos[c] /\ gen'[c] = gen[c]
      BY <1>2, <1>6
    <3>2. Good(r.tail[s], s, pos', seqs', gen')
      BY <2>2, <3>1, GoodFrame
    <3> QED BY <1>13, <3>2
  <2>4. tail'[s] \in Tails /\ tail'[s].used = SlotsOf(tail'[s].entries)
    BY <2>3 DEF Good
  <2>5. RowsGood(tail'[s], rows'[s])
    BY <1>2, <1>3, <1>13, <2>4, HeldGood
  <2> QED BY <2>1, <2>3, <2>4, <2>5
<1>19. RowsGood(CommittedCopy'[dst], CopiedRows'[dst])
  <2>1. \A i \in Slots : CopiedRows'[dst][i] =
            LET of == {k \in K : k.dst = i}
            IN  IF of = {} THEN rows'[dst][i] ELSE rows'[src][(CHOOSE k \in of : TRUE).src]
    BY <1>14, <1>17 DEF CopiedRows, RowsType
  <2>2. ASSUME NEW e \in E
        PROVE  m[e] \in Slots /\ CopiedRows'[dst][m[e]] \in {e.cell, Raced}
    <3> DEFINE of == {k \in K : k.dst = m[e]}
               one == [src |-> e.slot, dst |-> m[e]]
    <3>1. one \in K /\ one.dst = m[e]
      BY <1>9
    <3>2. \A k \in of : k.src = e.slot
      BY <1>8, <1>9
    <3>3. of # {} /\ (CHOOSE k \in of : TRUE) \in of
      BY <3>1
    <3>4. CopiedRows'[dst][m[e]] = rows'[src][e.slot]
      BY <1>8, <2>1, <3>2, <3>3
    <3>5. e.slot \in Slots /\ e.slot \in tail'[src].used
      BY <1>2, <1>7, <1>13 DEF SlotsOf, Entries
    <3>6. rows'[src][e.slot] = CopiedRows[src][e.slot]
      BY <1>2, <3>5 DEF Held
    <3> QED BY <1>3, <1>8, <3>4, <3>6
  <2>3. ASSUME NEW i \in Slots \ SlotsOf(C)
        PROVE  CopiedRows'[dst][i] = Stale
    <3>1. {k \in K : k.dst = i} = {}
      <4> SUFFICES ASSUME NEW k \in K, k.dst = i PROVE FALSE
        OBVIOUS
      <4>1. PICK e \in E : k.dst = m[e]
        BY <1>9
      <4>2. PICK f : f = [e EXCEPT !.slot = m[e]]
        OBVIOUS
      <4>3. e \in Entries
        BY <1>7
      <4>4. f \in C /\ f.slot = m[e]
        BY <1>9, <4>2, <4>3 DEF Entries, CopyIs
      <4> QED BY <4>1, <4>4 DEF SlotsOf
    <3>2. CopiedRows'[dst][i] = rows'[dst][i]
      BY <2>1, <3>1
    <3> QED BY <1>2, <1>13, <3>2 DEF Held
  <2>4. CommittedCopy'[dst].entries = C /\ CommittedCopy'[dst].used = SlotsOf(C)
    BY <1>13, <1>15
  <2>5. \A f \in C : CopiedRows'[dst][f.slot] \in {f.cell, Raced}
    BY <1>12, <2>2
  <2> QED BY <2>3, <2>4, <2>5 DEF RowsGood
<1>20. Good(CommittedCopy'[dst], dst, pos', seqs', gen')
  BY <1>11, <1>13, <1>15
<1>21. Idle'
  BY <1>16, <1>18, <1>19, <1>20 DEF Idle
<1> QED BY <1>2, <1>6, <1>13, <1>17, <1>18, <1>21 DEF TailInv

-----------------------------------------------------------------------------
(* f is what k tokens of ub make of b.                                     *)
IsRun(f, k, ub, b) ==
    /\ f = [i \in 0 .. k |-> f[i]] /\ f[0] = b
    /\ \A i \in 1 .. k : f[i] = ApplyToken(f[i - 1], ub[i])

(* The tokens of an ubatch can be applied one after the other.             *)
LEMMA RunExists ==
    ASSUME NEW n \in Nat, NEW ub, NEW b
    PROVE  \E f : IsRun(f, n, ub, b)
<1> DEFINE Bad == {k \in 0 .. n : ~\E f : IsRun(f, k, ub, b)}
<1> SUFFICES Bad = {}
  <2>1. n \in 0 .. n
    OBVIOUS
  <2> QED BY <2>1
<1> SUFFICES ASSUME Bad # {} PROVE FALSE
  OBVIOUS
<1>1. Bad \in SUBSET Nat
  OBVIOUS
<1>2. PICK k \in Bad : \A q \in Bad : k <= q
  BY <1>1, MinIsLeast
<1>3. k \in 0 .. n /\ ~\E f : IsRun(f, k, ub, b)
  OBVIOUS
<1>4. CASE k = 0
  <2> DEFINE g == [i \in 0 .. 0 |-> b]
  <2>1. g = [i \in 0 .. 0 |-> g[i]] /\ g[0] = b
    OBVIOUS
  <2>2. 1 .. 0 = {}
    OBVIOUS
  <2> HIDE DEF g
  <2>3. IsRun(g, 0, ub, b)
    BY <2>1, <2>2 DEF IsRun
  <2> QED BY <1>3, <1>4, <2>3
<1>5. CASE k # 0
  <2>1. k - 1 \in 0 .. n /\ ~(k <= k - 1) /\ k \in Nat
    BY <1>3, <1>5
  <2>2. k - 1 \notin Bad
    BY <1>2, <2>1
  <2>3. PICK f : IsRun(f, k - 1, ub, b)
    BY <2>1, <2>2
  <2> DEFINE g == [i \in 0 .. k |-> IF i = k THEN ApplyToken(f[k - 1], ub[k]) ELSE f[i]]
  <2>4. g = [i \in 0 .. k |-> g[i]] /\ g[0] = b
    BY <1>3, <1>5, <2>3 DEF IsRun
  <2>5. ASSUME NEW i \in 1 .. k
        PROVE  g[i] = ApplyToken(g[i - 1], ub[i])
    <3>1. CASE i = k
      <4>1. g[i] = ApplyToken(f[k - 1], ub[k]) /\ g[i - 1] = f[k - 1]
        BY <2>1, <3>1
      <4> QED BY <3>1, <4>1
    <3>2. CASE i # k
      <4>1. i \in 1 .. k - 1 /\ i \in 0 .. k /\ i - 1 \in 0 .. k /\ i - 1 # k
        BY <2>1, <3>2
      <4>2. g[i] = f[i] /\ g[i - 1] = f[i - 1]
        BY <3>2, <4>1
      <4>3. f[i] = ApplyToken(f[i - 1], ub[i])
        BY <2>3, <4>1 DEF IsRun
      <4> QED BY <4>2, <4>3
    <3> QED BY <3>1, <3>2
  <2> HIDE DEF g
  <2>6. IsRun(g, k, ub, b)
    BY <2>4, <2>5 DEF IsRun
  <2> QED BY <1>3, <2>6
<1> QED BY <1>4, <1>5

(* What apply_ubatch starts from.                                          *)
Start == [gen |-> gen, tail |-> [s \in Seqs |-> Trim(tail[s])],
          affected |-> {}, current |-> {}, writes |-> {}]

(* The recursion of apply_ubatch.                                          *)
LEMMA AppliedIs ==
    ASSUME NEW n \in Nat, NEW ub
    PROVE  IsRun(Applied(n, ub), n, ub, Start)
<1> DEFINE R(f) == [k \in 0 .. n |-> IF k = 0 THEN Start ELSE ApplyToken(f[k - 1], ub[k])]
<1>1. PICK f : IsRun(f, n, ub, Start)
  BY RunExists
<1>2. f = R(f)
  <2>1. \A k \in 0 .. n : f[k] = IF k = 0 THEN Start ELSE ApplyToken(f[k - 1], ub[k])
    BY <1>1 DEF IsRun
  <2>2. f = [k \in 0 .. n |-> f[k]]
    BY <1>1 DEF IsRun
  <2> QED BY <2>1, <2>2
<1>3. Applied(n, ub) = CHOOSE h : h = R(h)
  BY DEF Applied, Start
<1>4. \E h : h = R(h)
  BY <1>2
<1>5. PICK h : h = CHOOSE x : x = R(x)
  OBVIOUS
<1>6. h = R(h)
  BY <1>4, <1>5
<1>7. h = [i \in 0 .. n |-> h[i]] /\ h[0] = Start
      /\ \A i \in 1 .. n : h[i] = ApplyToken(h[i - 1], ub[i])
  BY <1>6
<1> QED BY <1>3, <1>5, <1>7 DEF IsRun

(* The cells, the sequences and the cell metadata of the first k tokens:   *)
(* new where they are, old elsewhere.                                      *)
CellsTo(ub, k) == {ub[i].cell : i \in 1 .. k}
SeqsTo(ub, k) == {ub[i].seq : i \in 1 .. k}
PutTo(ub, k, old, new) == [c \in Cells |-> IF c \in CellsTo(ub, k) THEN new[c] ELSE old[c]]

(* The tokens of ub are in empty cells of (ps, qs), where (ps2, qs2) has   *)
(* them, after all that is there and in the order of their positions.      *)
Fits(n, ub, ps, qs, ps2, qs2) ==
    /\ \A i \in 1 .. n : /\ ub[i] \in Tokens /\ ps[ub[i].cell] = -1
                         /\ ps2[ub[i].cell] = ub[i].pos /\ qs2[ub[i].cell] = {ub[i].seq}
    /\ \A i, j \in 1 .. n : ub[i].cell = ub[j].cell => i = j
    /\ \A i \in 1 .. n, c \in Cells : Has(ub[i].seq, c, ps, qs) => ps[c] < ub[i].pos
    /\ \A i, j \in 1 .. n : i < j /\ ub[i].seq = ub[j].seq => ub[i].pos < ub[j].pos

(* What is true after k tokens, of tails that were ts and generations that *)
(* were g.                                                                 *)
After(a, k, ub, ps, qs, ps2, qs2, g, ts) ==
    /\ a.gen \in [Cells -> 0 .. GenWrap - 1]
    /\ \A c \in Cells \ CellsTo(ub, k) : a.gen[c] = g[c]
    /\ a.tail = [s \in Seqs |-> a.tail[s]]
    /\ \A s \in Seqs :
          /\ Good(a.tail[s], s, PutTo(ub, k, ps, ps2), PutTo(ub, k, qs, qs2), a.gen)
          /\ Written(s, a.tail[s], ts[s], a.writes)
    /\ \A s \in Seqs \ SeqsTo(ub, k) : a.tail[s] = ts[s]
    /\ a.affected = SeqsTo(ub, k)
    /\ IsFiniteSet(a.writes)
    /\ \A w \in a.writes : w.seq \in SeqsTo(ub, k) /\ w.slot \in Slots /\ w.cell \in Cells
    /\ a.current = {[cell |-> ub[i].cell, gen |-> a.gen[ub[i].cell],
                     pos |-> ub[i].pos, seq |-> ub[i].seq] : i \in 1 .. k}

(* Before the first token.                                                 *)
LEMMA AfterNone ==
    ASSUME NEW ub, NEW ps, NEW qs, NEW ps2, NEW qs2, NEW g, NEW ts, NEW a,
           CellsType(ps, qs, g), ts = [s \in Seqs |-> ts[s]],
           \A s \in Seqs : Good(ts[s], s, ps, qs, g),
           a = [gen |-> g, tail |-> ts, affected |-> {}, current |-> {}, writes |-> {}]
    PROVE  After(a, 0, ub, ps, qs, ps2, qs2, g, ts)
<1>1. 1 .. 0 = {}
  OBVIOUS
<1>2. CellsTo(ub, 0) = {} /\ SeqsTo(ub, 0) = {}
  BY <1>1 DEF CellsTo, SeqsTo
<1>3. PutTo(ub, 0, ps, ps2) = ps /\ PutTo(ub, 0, qs, qs2) = qs
  BY <1>2 DEF PutTo, CellsType
<1>4. a.gen = g /\ a.tail = ts /\ a.affected = {} /\ a.current = {} /\ a.writes = {}
  OBVIOUS
<1>5. \A s \in Seqs : Written(s, a.tail[s], ts[s], a.writes)
  BY <1>4 DEF Written
<1>6. a.current = {[cell |-> ub[i].cell, gen |-> a.gen[ub[i].cell],
                    pos |-> ub[i].pos, seq |-> ub[i].seq] : i \in 1 .. 0}
  BY <1>1, <1>4
<1>7. a.gen \in [Cells -> 0 .. GenWrap - 1]
  BY <1>4 DEF CellsType
<1> QED BY <1>2, <1>3, <1>4, <1>5, <1>6, <1>7, FS_EmptySet DEF After

(* No tail names the cell of the next token: recycle has nothing to do.    *)
LEMMA NothingToRecycle ==
    ASSUME NEW ts, ts = [s \in Seqs |-> ts[s]], NEW c, NEW v, NEW ps, NEW qs, NEW g,
           \A s \in Seqs : Good(ts[s], s, ps, qs, g), \A x : ~Has(x, c, ps, qs)
    PROVE  /\ Recycle(ts, c, v) = ts
           /\ \A s \in Seqs : \A e \in ts[s].entries : e.cell # c
<1>1. \A s \in Seqs : \A e \in ts[s].entries : e.cell # c
  BY DEF Good, Live
<1>2. ASSUME NEW s \in Seqs
      PROVE  EraseEntries(ts[s], {e \in ts[s].entries : e.cell = c /\ e.gen # v}) = ts[s]
  <2>1. {e \in ts[s].entries : e.cell = c /\ e.gen # v} = {}
    BY <1>1
  <2>2. ts[s] \in Tails
    BY DEF Good
  <2>3. EraseEntries(ts[s], {}) = ts[s]
    BY <2>2, EraseNothing
  <2> QED BY <2>1, <2>3
<1>3. Recycle(ts, c, v) = ts
  BY <1>2 DEF Recycle
<1> QED BY <1>1, <1>3

(* One more token.                                                         *)
LEMMA AfterNext ==
    ASSUME NEW n \in Nat, NEW ub, NEW ps, NEW qs, NEW ps2, NEW qs2, NEW g, NEW ts,
           CellsType(ps, qs, g), Fits(n, ub, ps, qs, ps2, qs2),
           NEW j \in Nat, NEW a, After(a, j, ub, ps, qs, ps2, qs2, g, ts),
           NEW k \in 1 .. n, k = j + 1, NEW b, b = ApplyToken(a, ub[k])
    PROVE  After(b, k, ub, ps, qs, ps2, qs2, g, ts)
<1>j. j = k - 1 /\ After(a, k - 1, ub, ps, qs, ps2, qs2, g, ts)
  OBVIOUS
<1>1. PICK P, Q, P2, Q2, s, c :
          /\ P = PutTo(ub, k - 1, ps, ps2) /\ Q = PutTo(ub, k - 1, qs, qs2)
          /\ P2 = PutTo(ub, k, ps, ps2) /\ Q2 = PutTo(ub, k, qs, qs2)
          /\ s = ub[k].seq /\ c = ub[k].cell
  OBVIOUS
<1>2. /\ CellsTo(ub, k) = CellsTo(ub, k - 1) \cup {c} /\ SeqsTo(ub, k) = SeqsTo(ub, k - 1) \cup {s}
      /\ c \in Cells /\ s \in Seqs /\ c \notin CellsTo(ub, k - 1)
      /\ \A x : ~Has(x, c, P, Q)
      /\ Has(s, c, P2, Q2) /\ P2[c] = ub[k].pos
      /\ \A x : x # s => ~Has(x, c, P2, Q2)
      /\ \A x, d : d \in Cells \ {c} => (Has(x, d, P2, Q2) <=> Has(x, d, P, Q)) /\ P2[d] = P[d]
      /\ \A d \in Cells : Has(s, d, P, Q) => P[d] < ub[k].pos
  <2>1. \A i : i \in 1 .. k <=> i \in 1 .. k - 1 \/ i = k
    OBVIOUS
  <2>2. CellsTo(ub, k) = CellsTo(ub, k - 1) \cup {c} /\ SeqsTo(ub, k) = SeqsTo(ub, k - 1) \cup {s}
    BY <1>1, <2>1 DEF CellsTo, SeqsTo
  <2>3. k \in 1 .. n /\ (\A i \in 1 .. k - 1 : i \in 1 .. n /\ i < k)
    OBVIOUS
  <2>4. /\ ub[k] \in Tokens /\ ps[c] = -1 /\ ps2[c] = ub[k].pos /\ qs2[c] = {s}
    BY <1>1 DEF Fits
  <2>5. c \in Cells /\ s \in Seqs /\ ub[k].pos \in Nat
    BY <1>1, <2>4 DEF Tokens
  <2>6. c \notin CellsTo(ub, k - 1)
    <3> SUFFICES ASSUME NEW i \in 1 .. k - 1, ub[i].cell = c PROVE FALSE
      BY DEF CellsTo
    <3> QED BY <1>1, <2>3 DEF Fits
  <2>7. /\ \A d \in Cells : /\ P[d] = IF d \in CellsTo(ub, k - 1) THEN ps2[d] ELSE ps[d]
                            /\ Q[d] = IF d \in CellsTo(ub, k - 1) THEN qs2[d] ELSE qs[d]
                            /\ P2[d] = IF d \in CellsTo(ub, k) THEN ps2[d] ELSE ps[d]
                            /\ Q2[d] = IF d \in CellsTo(ub, k) THEN qs2[d] ELSE qs[d]
    BY <1>1 DEF PutTo
  <2>8. P[c] = -1 /\ P2[c] = ub[k].pos /\ Q2[c] = {s}
    BY <2>2, <2>4, <2>5, <2>6, <2>7
  <2>9. \A d \in Cells \ {c} : P2[d] = P[d] /\ Q2[d] = Q[d]
    BY <2>2, <2>7
  <2>10. \A x : ~Has(x, c, P, Q)
    BY <2>8 DEF Has
  <2>11. Has(s, c, P2, Q2) /\ \A x : x # s => ~Has(x, c, P2, Q2)
    BY <2>5, <2>8 DEF Has
  <2>12. \A x, d : d \in Cells \ {c} => (Has(x, d, P2, Q2) <=> Has(x, d, P, Q)) /\ P2[d] = P[d]
    BY <2>9 DEF Has
  <2>13. ASSUME NEW d \in Cells, Has(s, d, P, Q)
         PROVE  P[d] < ub[k].pos
    <3>1. CASE d \in CellsTo(ub, k - 1)
      <4>1. PICK i \in 1 .. k - 1 : ub[i].cell = d
        BY <3>1 DEF CellsTo
      <4>2. i \in 1 .. n /\ i < k
        BY <2>3
      <4>3. ps2[d] = ub[i].pos /\ qs2[d] = {ub[i].seq}
        BY <4>1, <4>2 DEF Fits
      <4>4. s = ub[i].seq /\ P[d] = ub[i].pos
        BY <2>7, <2>13, <3>1, <4>3 DEF Has
      <4> QED BY <1>1, <4>2, <4>4 DEF Fits
    <3>2. CASE d \notin CellsTo(ub, k - 1)
      <4>1. Has(s, d, ps, qs) /\ P[d] = ps[d]
        BY <2>7, <2>13, <3>2 DEF Has
      <4> QED BY <1>1, <4>1 DEF Fits
    <3> QED BY <3>1, <3>2
  <2> QED BY <2>2, <2>5, <2>6, <2>8, <2>10, <2>11, <2>12, <2>13
<1>3. /\ a.gen \in [Cells -> 0 .. GenWrap - 1]
      /\ \A d \in Cells \ CellsTo(ub, k - 1) : a.gen[d] = g[d]
      /\ a.tail = [x \in Seqs |-> a.tail[x]]
      /\ \A x \in Seqs : Good(a.tail[x], x, P, Q, a.gen) /\ Written(x, a.tail[x], ts[x], a.writes)
      /\ \A x \in Seqs \ SeqsTo(ub, k - 1) : a.tail[x] = ts[x]
      /\ a.affected = SeqsTo(ub, k - 1)
      /\ IsFiniteSet(a.writes)
      /\ \A w \in a.writes : w.seq \in SeqsTo(ub, k - 1) /\ w.slot \in Slots /\ w.cell \in Cells
      /\ a.current = {[cell |-> ub[i].cell, gen |-> a.gen[ub[i].cell],
                       pos |-> ub[i].pos, seq |-> ub[i].seq] : i \in 1 .. k - 1}
  BY <1>j, <1>1 DEF After
<1>4. PICK v \in 0 .. GenWrap - 1 : v = (a.gen[c] + 1) % GenWrap
  <2>1. PICK y \in Nat : y = a.gen[c] + 1
    BY <1>2, <1>3
  <2>2. GenWrap \in Nat \ {0}
    BY TailAssumption
  <2>3. y % GenWrap \in 0 .. GenWrap - 1
    BY <2>2
  <2> QED BY <2>1, <2>3
<1>5. PICK p \in 0 .. MaxLen - 1 : p = ub[k].pos
  BY DEF Fits, Tokens
<1>6. PICK ta, r, w : /\ ta = a.tail /\ r = Commit(ta[s], c, v, p)
                      /\ w = [seq |-> s, slot |-> r.slot, cell |-> c]
  OBVIOUS
<1>7. /\ Recycle(ta, c, v) = ta
      /\ {x \in Seqs : \E e \in ta[x].entries : e.cell = c /\ e.gen # v} = {}
  <2>1. PICK h : h = a.gen
    OBVIOUS
  <2>2. ta = [x \in Seqs |-> ta[x]] /\ \A x \in Seqs : Good(ta[x], x, P, Q, h)
    BY <1>3, <1>6, <2>1
  <2>3. \A x : ~Has(x, c, P, Q)
    BY <1>2
  <2>4. Recycle(ta, c, v) = ta /\ \A x \in Seqs : \A e \in ta[x].entries : e.cell # c
    BY ONLY <2>2, <2>3, NothingToRecycle
  <2> QED BY <2>4
<1>8. b = [gen      |-> [a.gen EXCEPT ![c] = v],
           tail     |-> [ta EXCEPT ![s] = r.tail],
           affected |-> a.affected \cup {s},
           current  |-> a.current \cup {[cell |-> c, gen |-> v, pos |-> p, seq |-> s]},
           writes   |-> a.writes \cup {w}]
  <2>1. /\ b.gen = [a.gen EXCEPT ![c] = v] /\ b.tail = [ta EXCEPT ![s] = r.tail]
        /\ b.affected = a.affected \cup {} \cup {s}
        /\ b.current = a.current \cup {[cell |-> c, gen |-> v, pos |-> p, seq |-> s]}
        /\ b.writes = a.writes \cup {w}
        /\ b = [gen |-> b.gen, tail |-> b.tail, affected |-> b.affected,
                current |-> b.current, writes |-> b.writes]
    BY <1>1, <1>4, <1>5, <1>6, <1>7 DEF ApplyToken
  <2>2. b.affected = a.affected \cup {s}
    BY <2>1
  <2> QED BY <2>1, <2>2
<1>9. /\ b.gen = [a.gen EXCEPT ![c] = v] /\ b.tail = [ta EXCEPT ![s] = r.tail]
      /\ b.affected = a.affected \cup {s} /\ b.writes = a.writes \cup {w}
      /\ b.current = a.current \cup {[cell |-> c, gen |-> v, pos |-> p, seq |-> s]}
  BY <1>8
<1>10. /\ b.gen \in [Cells -> 0 .. GenWrap - 1] /\ b.gen[c] = v
       /\ \A d \in Cells \ {c} : b.gen[d] = a.gen[d]
       /\ b.tail = [x \in Seqs |-> b.tail[x]] /\ b.tail[s] = r.tail
       /\ \A x \in Seqs \ {s} : b.tail[x] = ta[x]
  <2>1. b.gen \in [Cells -> 0 .. GenWrap - 1] /\ b.gen[c] = v
        /\ \A d \in Cells \ {c} : b.gen[d] = a.gen[d]
    BY <1>2, <1>3, <1>9
  <2>2. b.tail = [x \in Seqs |-> b.tail[x]] /\ b.tail[s] = r.tail
        /\ \A x \in Seqs \ {s} : b.tail[x] = ta[x]
    BY <1>2, <1>3, <1>6, <1>9
  <2> QED BY <2>1, <2>2
<1>12. /\ Good(r.tail, s, P2, Q2, b.gen) /\ r.slot \in Slots
       /\ \A e \in r.tail.entries : \/ e.cell = c /\ e.slot = r.slot
                                    \/ e \in ta[s].entries /\ e.slot # r.slot
       /\ r.tail.used = ta[s].used \cup {r.slot}
  <2>1. PICK t, h, h2 : t = ta[s] /\ h = a.gen /\ h2 = b.gen
    OBVIOUS
  <2>2. Good(t, s, P, Q, h) /\ \A d \in Cells : P[d] \in Int
    <3>1. \A d \in Cells : ps[d] \in Int
      BY DEF CellsType
    <3>2. \A d \in CellsTo(ub, k - 1) : ps2[d] \in Int
      <4> SUFFICES ASSUME NEW i \in 1 .. k - 1 PROVE ps2[ub[i].cell] \in Int
        BY DEF CellsTo
      <4>1. i \in 1 .. n
        OBVIOUS
      <4>2. ub[i] \in Tokens /\ ps2[ub[i].cell] = ub[i].pos
        BY <4>1 DEF Fits
      <4> QED BY <4>2 DEF Tokens
    <3>3. \A d \in Cells : P[d] \in Int
      BY <1>1, <3>1, <3>2 DEF PutTo
    <3> QED BY <1>2, <1>3, <1>6, <2>1, <3>3
  <2>3. ~Has(s, c, P, Q) /\ Has(s, c, P2, Q2) /\ P2[c] = p /\ h2[c] = v
    BY <1>2, <1>5, <1>10, <2>1
  <2>4. /\ \A d \in Cells \ {c} : Has(s, d, P2, Q2) <=> Has(s, d, P, Q)
        /\ \A d \in Cells \ {c} : Has(s, d, P, Q) => P2[d] = P[d] /\ h2[d] = h[d]
        /\ \A d \in Cells : Has(s, d, P, Q) => P[d] < p
    BY <1>2, <1>5, <1>10, <2>1
  <2>5. r = Commit(t, c, v, p) /\ c \in Cells
    BY <1>2, <1>6, <2>1
  <2>6. /\ Good(r.tail, s, P2, Q2, h2) /\ r.slot \in Slots
        /\ \A e \in r.tail.entries : \/ e.cell = c /\ e.slot = r.slot
                                     \/ e \in t.entries /\ e.slot # r.slot
        /\ r.tail.used = t.used \cup {r.slot}
    <3>1. Added(s, c, v, p, P, Q, h, P2, Q2, h2)
      BY <2>2, <2>3, <2>4, <2>5 DEF Added
    <3> QED BY ONLY <2>2, <2>5, <3>1, CommitGood
  <2> QED BY <2>1, <2>6
<1>13. ASSUME NEW x \in Seqs \ {s}
       PROVE  Good(b.tail[x], x, P2, Q2, b.gen)
  <2>1. PICK t, h, h2 : t = ta[x] /\ h = a.gen /\ h2 = b.gen
    OBVIOUS
  <2>2. Good(t, x, P, Q, h)
    BY <1>3, <1>6, <2>1
  <2>3. /\ \A d \in Cells : Has(x, d, P2, Q2) <=> Has(x, d, P, Q)
        /\ \A d \in Cells : Has(x, d, P, Q) => P2[d] = P[d] /\ h2[d] = h[d]
    BY <1>2, <1>10, <2>1
  <2>4. Good(t, x, P2, Q2, h2)
    BY ONLY <2>2, <2>3, GoodFrame
  <2> QED BY <1>10, <2>1, <2>4
<1>14. ASSUME NEW x \in Seqs
       PROVE  Written(x, b.tail[x], ts[x], b.writes)
  <2>1. Written(x, ta[x], ts[x], a.writes)
    BY <1>3, <1>6
  <2>2. w.seq = s /\ w.slot = r.slot
    BY <1>6
  <2>3. CASE x # s
    <3>1. b.tail[x] = ta[x] /\ w.seq # x
      BY <1>10, <2>2, <2>3
    <3> QED BY <1>9, <2>1, <3>1 DEF Written
  <2>4. CASE x = s
    <3>1. b.tail[x] = r.tail
      BY <1>10, <2>4
    <3>2. \A e \in r.tail.entries :
              \/ [seq |-> x, slot |-> e.slot, cell |-> e.cell] \in b.writes
              \/ e \in ts[x].entries /\ \A y \in b.writes : y.seq = x => y.slot # e.slot
      <4> SUFFICES ASSUME NEW e \in r.tail.entries
                   PROVE  \/ [seq |-> x, slot |-> e.slot, cell |-> e.cell] \in b.writes
                          \/ e \in ts[x].entries /\ \A y \in b.writes : y.seq = x => y.slot # e.slot
        OBVIOUS
      <4>1. CASE e.cell = c /\ e.slot = r.slot
        <5>1. [seq |-> x, slot |-> e.slot, cell |-> e.cell] = w
          BY <1>6, <2>4, <4>1
        <5> QED BY <1>9, <5>1
      <4>2. CASE e \in ta[x].entries /\ e.slot # r.slot
        BY <1>9, <2>1, <2>2, <4>2 DEF Written
      <4> QED BY <1>12, <2>4, <4>1, <4>2
    <3>3. ts[x].used \subseteq r.tail.used
      BY <1>12, <2>1, <2>4 DEF Written
    <3>4. \A y \in b.writes : y.seq = x => y.slot \in r.tail.used
      BY <1>9, <1>12, <2>1, <2>2, <2>4 DEF Written
    <3> QED BY <3>1, <3>2, <3>3, <3>4 DEF Written
  <2> QED BY <2>3, <2>4
<1>15. b.current = {[cell |-> ub[i].cell, gen |-> b.gen[ub[i].cell],
                     pos |-> ub[i].pos, seq |-> ub[i].seq] : i \in 1 .. k}
  <2> DEFINE item(i) == [cell |-> ub[i].cell, gen |-> b.gen[ub[i].cell],
                         pos |-> ub[i].pos, seq |-> ub[i].seq]
             item1(i) == [cell |-> ub[i].cell, gen |-> a.gen[ub[i].cell],
                          pos |-> ub[i].pos, seq |-> ub[i].seq]
  <2>1. ASSUME NEW i \in 1 .. k - 1
        PROVE  item(i) = item1(i)
    <3>1. i \in 1 .. n
      OBVIOUS
    <3>2. ub[i].cell \in Cells /\ ub[i].cell \in CellsTo(ub, k - 1)
      BY <3>1 DEF Fits, Tokens, CellsTo
    <3>3. b.gen[ub[i].cell] = a.gen[ub[i].cell]
      BY <1>2, <1>10, <3>2
    <3> QED BY <3>3
  <2>2. [cell |-> c, gen |-> v, pos |-> p, seq |-> s] = item(k)
    BY <1>1, <1>5, <1>10
  <2>3. a.current = {item1(i) : i \in 1 .. k - 1}
    BY <1>3
  <2> HIDE DEF item, item1
  <2>4. a.current = {item(i) : i \in 1 .. k - 1}
    BY <2>1, <2>3
  <2>5. b.current = a.current \cup {item(k)}
    BY <1>9, <2>2
  <2>6. \A i : i \in 1 .. k <=> i \in 1 .. k - 1 \/ i = k
    OBVIOUS
  <2>7. b.current = {item(i) : i \in 1 .. k}
    BY <2>4, <2>5, <2>6
  <2> QED BY <2>7 DEF item
<1>16. /\ \A d \in Cells \ CellsTo(ub, k) : b.gen[d] = g[d]
       /\ \A x \in Seqs \ SeqsTo(ub, k) : b.tail[x] = ts[x]
       /\ b.affected = SeqsTo(ub, k)
       /\ \A y \in b.writes : y.seq \in SeqsTo(ub, k) /\ y.slot \in Slots /\ y.cell \in Cells
  <2>1. \A d \in Cells \ CellsTo(ub, k) : b.gen[d] = g[d]
    BY <1>2, <1>3, <1>10
  <2>2. \A x \in Seqs \ SeqsTo(ub, k) : b.tail[x] = ts[x]
    BY <1>2, <1>3, <1>6, <1>10
  <2>3. b.affected = SeqsTo(ub, k)
    BY <1>2, <1>3, <1>9
  <2>4. w.seq = s /\ w.slot = r.slot /\ w.cell = c
    BY <1>6
  <2>5. \A y \in b.writes : y.seq \in SeqsTo(ub, k) /\ y.slot \in Slots /\ y.cell \in Cells
    BY <1>2, <1>3, <1>9, <1>12, <2>4
  <2> QED BY <2>1, <2>2, <2>3, <2>5
<1>17. \A x \in Seqs : Good(b.tail[x], x, P2, Q2, b.gen)
  BY <1>10, <1>12, <1>13
<1>18. IsFiniteSet(b.writes)
  <2>1. PICK W, y : W = a.writes /\ y = w
    OBVIOUS
  <2>2. IsFiniteSet(W) /\ b.writes = W \cup {y}
    BY ONLY <1>3, <1>9, <2>1
  <2> QED BY ONLY <2>2, FS_AddElement
<1> QED BY <1>1, <1>10, <1>14, <1>15, <1>16, <1>17, <1>18 DEF After

(* All tokens.                                                             *)
LEMMA AfterAll ==
    ASSUME NEW n \in Nat, NEW ub, NEW ps, NEW qs, NEW ps2, NEW qs2, NEW g, NEW ts,
           CellsType(ps, qs, g), Fits(n, ub, ps, qs, ps2, qs2), NEW f, NEW b, IsRun(f, n, ub, b),
           After(b, 0, ub, ps, qs, ps2, qs2, g, ts)
    PROVE  After(f[n], n, ub, ps, qs, ps2, qs2, g, ts)
<1> DEFINE Ok(k) == After(f[k], k, ub, ps, qs, ps2, qs2, g, ts)
           Bad == {k \in 0 .. n : ~Ok(k)}
<1> SUFFICES ASSUME Bad # {} PROVE FALSE
  <2>1. n \in 0 .. n
    OBVIOUS
  <2>2. Bad = {} => Ok(n)
    BY <2>1
  <2> QED BY <2>2
<1>1. Bad \in SUBSET Nat
  OBVIOUS
<1>2. PICK k \in Bad : \A q \in Bad : k <= q
  BY <1>1, MinIsLeast
<1>3. k \in 0 .. n /\ ~Ok(k)
  OBVIOUS
<1>4. f[0] = b /\ \A i \in 1 .. n : f[i] = ApplyToken(f[i - 1], ub[i])
  BY DEF IsRun
<1>5. k # 0
  BY <1>3, <1>4
<1>6. PICK j \in Nat : j \in 0 .. n /\ k = j + 1 /\ j = k - 1 /\ ~(k <= j) /\ k \in 1 .. n
  <2>1. k - 1 \in Nat /\ k - 1 \in 0 .. n /\ k = (k - 1) + 1 /\ ~(k <= k - 1) /\ k \in 1 .. n
    BY <1>3, <1>5
  <2> QED BY <2>1
<1>7. Ok(j)
  <2>1. j \notin Bad
    BY <1>2, <1>6
  <2> QED BY <1>6, <2>1
<1>8. PICK a, d : a = f[j] /\ d = f[k]
  OBVIOUS
<1>9. After(a, j, ub, ps, qs, ps2, qs2, g, ts) /\ d = ApplyToken(a, ub[k])
  <2>1. f[k] = ApplyToken(f[k - 1], ub[k])
    BY <1>4, <1>6
  <2> QED BY <1>6, <1>7, <1>8, <2>1
<1>10. After(d, k, ub, ps, qs, ps2, qs2, g, ts)
  <2>1. k \in 1 .. n /\ k = j + 1 /\ j \in Nat /\ n \in Nat
    BY <1>6
  <2>2. CellsType(ps, qs, g) /\ Fits(n, ub, ps, qs, ps2, qs2)
    OBVIOUS
  <2> QED BY ONLY <1>9, <2>1, <2>2, AfterNext
<1> QED BY <1>3, <1>8, <1>10

(* The largest of finitely many numbers.                                   *)
LEMMA MaxIsGreatest ==
    ASSUME NEW b \in Nat, NEW S \in SUBSET (0 .. b), S # {}
    PROVE  Max(S) \in S /\ \A x \in S : x <= Max(S)
<1> DEFINE K == {b - x : x \in S}
<1>1. K \in SUBSET Nat /\ K # {}
  <2>1. \A x \in S : b - x \in Nat
    OBVIOUS
  <2>2. PICK x : x \in S
    OBVIOUS
  <2>3. b - x \in K
    BY <2>2
  <2> QED BY <2>1, <2>3
<1>2. PICK k \in K : \A y \in K : k <= y
  BY <1>1, MinIsLeast
<1>3. PICK m \in S : k = b - m
  OBVIOUS
<1>4. \A x \in S : x <= m
  <2> SUFFICES ASSUME NEW x \in S PROVE x <= m
    OBVIOUS
  <2>1. b - x \in K
    OBVIOUS
  <2>2. b - m <= b - x
    BY <1>2, <1>3, <2>1
  <2> QED BY <2>2
<1>5. \A x \in S : m >= x
  BY <1>4
<1> QED BY <1>5 DEF Max

(* The next position is after all positions of the sequence.               *)
LEMMA NextPosIs ==
    ASSUME CellsType(pos, seqs, gen), NEW s
    PROVE  NextPos(s) \in Nat /\ \A c \in Cells : Has(s, c, pos, seqs) => pos[c] < NextPos(s)
<1> DEFINE O == Of(s, pos, seqs)
           S == {pos[c] : c \in O}
<1>1. \A c \in Cells : pos[c] \in -1 .. MaxLen - 1
  BY DEF CellsType
<1>2. \A c \in O : c \in Cells /\ pos[c] \in 0 .. MaxLen - 1
  BY <1>1 DEF Of
<1>3. \A c \in Cells : Has(s, c, pos, seqs) <=> c \in O
  BY DEF Has, Of
<1>4. Size(s) = Cardinality(O)
  BY DEF Size
<1>5. IsFiniteSet(O)
  BY OfFinite
<1> HIDE DEF O
<1>6. CASE Size(s) = 0
  <2>1. O = {}
    BY <1>4, <1>5, <1>6, FS_EmptySet
  <2> QED BY <1>3, <1>6, <2>1 DEF NextPos
<1>7. CASE Size(s) # 0
  <2>1. O # {}
    BY <1>4, <1>7, FS_EmptySet
  <2>2. PICK b \in Nat : b = MaxLen - 1
    BY TailAssumption
  <2>3. S \in SUBSET (0 .. b) /\ S # {}
    BY <1>2, <2>1, <2>2
  <2>4. Max(S) \in S /\ \A x \in S : x <= Max(S)
    BY <2>3, MaxIsGreatest
  <2>5. NextPos(s) = 1 + Max(S)
    BY <1>7 DEF NextPos, O
  <2>6. PICK m \in Nat : m = Max(S)
    <3>1. \A x \in S : x \in Nat
      BY <2>3
    <3> HIDE DEF S
    <3> QED BY <2>4, <3>1
  <2>7. \A c \in O : pos[c] <= m /\ pos[c] \in Nat
    BY <1>2, <2>4, <2>6
  <2> QED BY <1>3, <2>5, <2>6, <2>7
<1> QED BY <1>6, <1>7

(* The ubatch of sequences q in cells at.                                  *)
UbatchOf(n, q, at) ==
    [i \in 1 .. n |-> [seq |-> q[i], cell |-> at[i],
                       pos |-> NextPos(q[i]) + Cardinality({j \in 1 .. i - 1 : q[j] = q[i]})]]

(* The cells at are different and empty.                                   *)
Found(n, at) ==
    /\ \A i \in 1 .. n : at[i] \in Cells /\ pos[at[i]] = -1
    /\ \A i, j \in 1 .. n : at[i] = at[j] => i = j

(* A sequence's tokens have positions that grow.                           *)
LEMMA UbatchPositions ==
    ASSUME CellsType(pos, seqs, gen), NEW n \in Nat, NEW q \in [1 .. n -> Seqs], NEW at, NEW ub,
           ub = UbatchOf(n, q, at)
    PROVE  /\ \A i \in 1 .. n : ub[i].seq = q[i] /\ ub[i].cell = at[i] /\ ub[i].pos \in Nat
                                /\ ub[i].pos >= NextPos(q[i])
           /\ \A i, j \in 1 .. n : i < j /\ q[i] = q[j] => ub[i].pos < ub[j].pos
<1> DEFINE B(i) == {j \in 1 .. i - 1 : q[j] = q[i]}
<1>1. \A i \in 1 .. n : ub[i].seq = q[i] /\ ub[i].cell = at[i]
                        /\ ub[i].pos = NextPos(q[i]) + Cardinality(B(i))
  BY DEF UbatchOf
<1>2. ASSUME NEW i \in 1 .. n
      PROVE  IsFiniteSet(B(i)) /\ Cardinality(B(i)) \in Nat /\ NextPos(q[i]) \in Nat
  <2>1. B(i) \in SUBSET (1 .. i - 1) /\ 1 \in Int /\ i - 1 \in Int
    OBVIOUS
  <2>2. IsFiniteSet(1 .. i - 1)
    BY <2>1, FS_Interval
  <2>3. IsFiniteSet(B(i))
    BY <2>1, <2>2, FS_Subset
  <2> QED BY <2>3, FS_CardinalityType, NextPosIs
<1>3. ASSUME NEW i \in 1 .. n, NEW j \in 1 .. n, i < j, q[i] = q[j]
      PROVE  Cardinality(B(i)) < Cardinality(B(j))
  <2>1. i \notin B(i) /\ B(i) \cup {i} \in SUBSET B(j)
    BY <1>3
  <2>2. IsFiniteSet(B(i)) /\ IsFiniteSet(B(j)) /\ Cardinality(B(i)) \in Nat /\ Cardinality(B(j)) \in Nat
    BY <1>2
  <2> HIDE DEF B
  <2>3. Cardinality(B(i) \cup {i}) = Cardinality(B(i)) + 1
    BY <2>1, <2>2, FS_AddElement
  <2>4. Cardinality(B(i) \cup {i}) <= Cardinality(B(j))
    BY <2>1, <2>2, FS_Subset
  <2> QED BY <2>2, <2>3, <2>4
<1> HIDE DEF B
<1>4. \A i \in 1 .. n : ub[i].pos \in Nat /\ ub[i].pos >= NextPos(q[i])
  BY <1>1, <1>2
<1>5. ASSUME NEW i \in 1 .. n, NEW j \in 1 .. n, i < j, q[i] = q[j]
      PROVE  ub[i].pos < ub[j].pos
  BY <1>1, <1>2, <1>3, <1>5
<1> QED BY <1>1, <1>4, <1>5

(* What apply_ubatch puts into the cells fits there.                       *)
LEMMA UbatchFits ==
    ASSUME CellsType(pos, seqs, gen), NEW n \in Nat, NEW q \in [1 .. n -> Seqs], NEW at, NEW ub,
           ub = UbatchOf(n, q, at), Found(n, at), \A i \in 1 .. n : ub[i].pos < MaxLen,
           NEW ps2, NEW qs2,
           \A i \in 1 .. n : ps2[at[i]] = ub[i].pos /\ qs2[at[i]] = {q[i]}
    PROVE  Fits(n, ub, pos, seqs, ps2, qs2)
<1>1. /\ \A i \in 1 .. n : ub[i].seq = q[i] /\ ub[i].cell = at[i] /\ ub[i].pos \in Nat
                           /\ ub[i].pos >= NextPos(q[i])
      /\ \A i, j \in 1 .. n : i < j /\ q[i] = q[j] => ub[i].pos < ub[j].pos
  <2>1. CellsType(pos, seqs, gen) /\ n \in Nat /\ q \in [1 .. n -> Seqs] /\ ub = UbatchOf(n, q, at)
    OBVIOUS
  <2> QED BY ONLY <2>1, UbatchPositions
<1>2. ASSUME NEW i \in 1 .. n PROVE ub[i] \in Tokens
  <2>1. ub[i] = [seq |-> q[i], cell |-> at[i],
                 pos |-> NextPos(q[i]) + Cardinality({j \in 1 .. i - 1 : q[j] = q[i]})]
    BY DEF UbatchOf
  <2>2. ub[i] = [seq |-> ub[i].seq, cell |-> ub[i].cell, pos |-> ub[i].pos]
    BY <2>1
  <2>3. ub[i].seq \in Seqs /\ ub[i].cell \in Cells /\ ub[i].pos \in 0 .. MaxLen - 1
    BY <1>1, Constants DEF Found
  <2> QED BY <2>2, <2>3 DEF Tokens
<1>3. ASSUME NEW i \in 1 .. n, NEW c \in Cells, Has(ub[i].seq, c, pos, seqs)
      PROVE  pos[c] < ub[i].pos
  <2>1. pos[c] < NextPos(q[i]) /\ NextPos(q[i]) \in Nat
    BY <1>1, <1>3, NextPosIs
  <2>2. pos[c] \in Int
    BY DEF CellsType
  <2> QED BY <1>1, <2>1, <2>2
<1>4. \A i \in 1 .. n : /\ ub[i] \in Tokens /\ pos[ub[i].cell] = -1
                        /\ ps2[ub[i].cell] = ub[i].pos /\ qs2[ub[i].cell] = {ub[i].seq}
  <2> SUFFICES ASSUME NEW i \in 1 .. n
               PROVE  /\ ub[i] \in Tokens /\ pos[ub[i].cell] = -1
                      /\ ps2[ub[i].cell] = ub[i].pos /\ qs2[ub[i].cell] = {ub[i].seq}
    OBVIOUS
  <2>1. ub[i].seq = q[i] /\ ub[i].cell = at[i] /\ ub[i] \in Tokens
    BY <1>1, <1>2
  <2>2. pos[at[i]] = -1 /\ ps2[at[i]] = ub[i].pos /\ qs2[at[i]] = {q[i]}
    BY DEF Found
  <2> QED BY <2>1, <2>2
<1>5. \A i, j \in 1 .. n : ub[i].cell = ub[j].cell => i = j
  BY <1>1 DEF Found
<1>6. \A i, j \in 1 .. n : i < j /\ ub[i].seq = ub[j].seq => ub[i].pos < ub[j].pos
  BY <1>1
<1> QED BY <1>3, <1>4, <1>5, <1>6 DEF Fits

(* The cells stay apart.                                                   *)
LEMMA FitsApart ==
    ASSUME NEW n \in Nat, NEW ub, NEW ps, NEW qs, NEW ps2, NEW qs2, NEW g, NEW g2,
           CellsType(ps, qs, g), Apart(ps, qs), Fits(n, ub, ps, qs, ps2, qs2),
           ps2 = PutTo(ub, n, ps, ps2), qs2 = PutTo(ub, n, qs, qs2),
           g2 \in [Cells -> 0 .. GenWrap - 1]
    PROVE  CellsType(ps2, qs2, g2) /\ Apart(ps2, qs2)
<1>1. \A c \in Cells : IF c \in CellsTo(ub, n)
                       THEN \E i \in 1 .. n : /\ ub[i].cell = c /\ ub[i] \in Tokens
                                              /\ ps2[c] = ub[i].pos /\ qs2[c] = {ub[i].seq}
                       ELSE ps2[c] = ps[c] /\ qs2[c] = qs[c]
  <2> SUFFICES ASSUME NEW c \in Cells
               PROVE  IF c \in CellsTo(ub, n)
                       THEN \E i \in 1 .. n : /\ ub[i].cell = c /\ ub[i] \in Tokens
                                              /\ ps2[c] = ub[i].pos /\ qs2[c] = {ub[i].seq}
                       ELSE ps2[c] = ps[c] /\ qs2[c] = qs[c]
    OBVIOUS
  <2>1. CASE c \in CellsTo(ub, n)
    <3>1. PICK i \in 1 .. n : ub[i].cell = c
      BY <2>1 DEF CellsTo
    <3> QED BY <2>1, <3>1 DEF Fits
  <2>2. CASE c \notin CellsTo(ub, n)
    <3>1. PutTo(ub, n, ps, ps2)[c] = ps[c] /\ PutTo(ub, n, qs, qs2)[c] = qs[c]
      BY <2>2 DEF PutTo
    <3> QED BY <2>2, <3>1
  <2> QED BY <2>1, <2>2
<1>2. \A c \in Cells : ps[c] \in -1 .. MaxLen - 1 /\ qs[c] \in SUBSET Seqs
  BY DEF CellsType
<1>3. \A c \in Cells : ps2[c] \in -1 .. MaxLen - 1 /\ qs2[c] \in SUBSET Seqs
  BY <1>1, <1>2, Constants DEF Tokens
<1>4. ps2 = [c \in Cells |-> ps2[c]] /\ qs2 = [c \in Cells |-> qs2[c]]
  BY DEF PutTo
<1>5. CellsType(ps2, qs2, g2)
  <2>1. ps2 \in [Cells -> -1 .. MaxLen - 1] /\ qs2 \in [Cells -> SUBSET Seqs]
    BY <1>3, <1>4
  <2> QED BY <2>1 DEF CellsType
<1>6. \A c \in Cells : qs2[c] = {} <=> ps2[c] = -1
  <2> SUFFICES ASSUME NEW c \in Cells PROVE qs2[c] = {} <=> ps2[c] = -1
    OBVIOUS
  <2>1. CASE c \in CellsTo(ub, n)
    BY <1>1, <2>1 DEF Tokens
  <2>2. CASE c \notin CellsTo(ub, n)
    BY <1>1, <2>2 DEF Apart
  <2> QED BY <2>1, <2>2
<1>7. ASSUME NEW c \in Cells, NEW d \in Cells, NEW s \in qs2[c] \cap qs2[d],
             ps2[c] = ps2[d], c \in CellsTo(ub, n)
      PROVE  c = d
  <2>1. PICK i \in 1 .. n : ub[i].cell = c /\ ub[i] \in Tokens /\ ps2[c] = ub[i].pos /\ qs2[c] = {ub[i].seq}
    BY <1>1, <1>7
  <2>2. s = ub[i].seq /\ ub[i].pos \in Nat
    BY <2>1 DEF Tokens
  <2>3. CASE d \in CellsTo(ub, n)
    <3>1. PICK j \in 1 .. n : ub[j].cell = d /\ ub[j] \in Tokens /\ ps2[d] = ub[j].pos /\ qs2[d] = {ub[j].seq}
      BY <1>1, <2>3
    <3>2. ub[j].seq = ub[i].seq /\ ub[j].pos = ub[i].pos
      BY <1>7, <2>1, <2>2, <3>1
    <3>3. ~(i < j) /\ ~(j < i)
      BY <2>2, <3>2 DEF Fits
    <3>4. i = j
      BY <3>3
    <3> QED BY <2>1, <3>1, <3>4
  <2>4. CASE d \notin CellsTo(ub, n)
    <3>1. ps[d] = ub[i].pos /\ s \in qs[d]
      BY <1>1, <1>7, <2>1, <2>4
    <3>2. Has(ub[i].seq, d, ps, qs)
      BY <2>2, <3>1 DEF Has
    <3>3. ps[d] < ub[i].pos
      BY <3>2 DEF Fits
    <3> QED BY <2>2, <3>1, <3>3
  <2> QED BY <2>3, <2>4
<1>8. ASSUME NEW c \in Cells, NEW d \in Cells, NEW s \in qs2[c] \cap qs2[d], ps2[c] = ps2[d]
      PROVE  c = d
  <2>1. CASE c \in CellsTo(ub, n)
    BY <1>7, <1>8, <2>1
  <2>2. CASE d \in CellsTo(ub, n)
    BY <1>7, <1>8, <2>2
  <2>3. CASE c \notin CellsTo(ub, n) /\ d \notin CellsTo(ub, n)
    <3>1. ps[c] = ps[d] /\ s \in qs[c] \cap qs[d]
      BY <1>1, <1>8, <2>3
    <3> QED BY <3>1 DEF Apart
  <2> QED BY <2>1, <2>2, <2>3
<1>9. Apart(ps2, qs2)
  BY <1>6, <1>8 DEF Apart
<1> QED BY <1>5, <1>9

(* apply_ubatch.                                                           *)
LEMMA ApplyUbatchInv ==
    ASSUME TailInv, NEW n \in Nat, NEW q \in [1 .. n -> Seqs], NEW at, Found(n, at),
           ApplyUbatch(n, q, at)
    PROVE  TailInv'
<1>1. PICK ub : ub = UbatchOf(n, q, at)
  OBVIOUS
<1>2. PICK put : put = Applied(n, ub)[n]
  OBVIOUS
<1> DEFINE taken == {at[i] : i \in 1 .. n}
           index(c) == CHOOSE i \in 1 .. n : at[i] = c
<1>3. /\ batch = None /\ pending = None /\ \A i \in 1 .. n : ub[i].pos < MaxLen
      /\ pos' = [c \in Cells |-> IF c \in taken THEN ub[index(c)].pos ELSE pos[c]]
      /\ seqs' = [c \in Cells |-> IF c \in taken THEN {q[index(c)]} ELSE seqs[c]]
      /\ gen' = put.gen /\ tail' = put.tail
      /\ rows' = [s \in Seqs |-> [i \in Slots |->
                    IF rows[s][i] \in taken THEN Stale ELSE rows[s][i]]]
      /\ batch' = [ub |-> ub, tail |-> tail, gen |-> gen, affected |-> put.affected,
                   current |-> put.current, writes |-> put.writes]
      /\ pending' = None
  BY ONLY <1>1, <1>2, ApplyUbatch(n, q, at) DEF ApplyUbatch, UbatchOf
<1>4. /\ CellsType(pos, seqs, gen) /\ Apart(pos, seqs) /\ RowsType(rows)
      /\ tail = [s \in Seqs |-> tail[s]] /\ \A s \in Seqs : tail[s] \in Tails
      /\ \A s \in Seqs : Good(tail[s], s, pos, seqs, gen) /\ RowsGood(tail[s], rows[s])
  BY <1>3 DEF TailInv, Idle, CommittedCopy, CopiedRows
<1>5. \A i \in 1 .. n : index(at[i]) = i
  BY DEF Found
<1>6. /\ \A i \in 1 .. n : pos'[at[i]] = ub[i].pos /\ seqs'[at[i]] = {q[i]}
      /\ \A c \in Cells \ taken : pos'[c] = pos[c] /\ seqs'[c] = seqs[c]
      /\ pos' = [c \in Cells |-> pos'[c]] /\ seqs' = [c \in Cells |-> seqs'[c]]
  <2>1. \A i \in 1 .. n : at[i] \in Cells /\ at[i] \in taken
    BY DEF Found
  <2> HIDE DEF taken, index
  <2> QED BY <1>3, <1>5, <2>1
<1>7. Fits(n, ub, pos, seqs, pos', seqs')
  <2>1. PICK ps2, qs2 : ps2 = pos' /\ qs2 = seqs'
    OBVIOUS
  <2>2. /\ CellsType(pos, seqs, gen) /\ \A i \in 1 .. n : ub[i].pos < MaxLen
        /\ \A i \in 1 .. n : ps2[at[i]] = ub[i].pos /\ qs2[at[i]] = {q[i]}
        /\ n \in Nat /\ q \in [1 .. n -> Seqs] /\ ub = UbatchOf(n, q, at) /\ Found(n, at)
    BY <1>1, <1>3, <1>4, <1>6, <2>1
  <2>3. Fits(n, ub, pos, seqs, ps2, qs2)
    BY ONLY <2>2, UbatchFits
  <2> QED BY <2>1, <2>3
<1>8. \A i \in 1 .. n : ub[i].seq = q[i] /\ ub[i].cell = at[i]
  BY <1>1 DEF UbatchOf
<1>9. DOMAIN ub = 1 .. n /\ CellsTo(ub, n) = taken /\ Taken(ub) = taken /\ UbSeqs(ub) = SeqsTo(ub, n)
  <2>1. DOMAIN ub = 1 .. n
    BY <1>1 DEF UbatchOf
  <2>2. CellsTo(ub, n) = taken
    BY <1>8 DEF CellsTo
  <2> QED BY <2>1, <2>2 DEF Taken, UbSeqs, SeqsTo, CellsTo
<1> HIDE DEF taken, index
<1>10. PutTo(ub, n, pos, pos') = pos' /\ PutTo(ub, n, seqs, seqs') = seqs'
  <2>1. \A c \in Cells : /\ pos'[c] = IF c \in CellsTo(ub, n) THEN pos'[c] ELSE pos[c]
                         /\ seqs'[c] = IF c \in CellsTo(ub, n) THEN seqs'[c] ELSE seqs[c]
    BY <1>6, <1>9
  <2> QED BY <1>6, <2>1 DEF PutTo
<1>11. Start = [gen |-> gen, tail |-> tail, affected |-> {}, current |-> {}, writes |-> {}]
  <2>1. \A s \in Seqs : Trim(tail[s]) = tail[s]
    BY <1>4, TrimNothing DEF Good
  <2>2. [s \in Seqs |-> Trim(tail[s])] = tail
    BY <1>4, <2>1
  <2> QED BY <2>2 DEF Start
<1>12. After(put, n, ub, pos, seqs, pos', seqs', gen, tail)
  <2>1. PICK ps2, qs2, b, f : ps2 = pos' /\ qs2 = seqs' /\ b = Start /\ f = Applied(n, ub)
    OBVIOUS
  <2>2. After(b, 0, ub, pos, seqs, ps2, qs2, gen, tail)
    <3>1. /\ CellsType(pos, seqs, gen) /\ tail = [s \in Seqs |-> tail[s]]
          /\ \A s \in Seqs : Good(tail[s], s, pos, seqs, gen)
          /\ b = [gen |-> gen, tail |-> tail, affected |-> {}, current |-> {}, writes |-> {}]
      BY <1>4, <1>11, <2>1
    <3> QED BY ONLY <3>1, AfterNone
  <2>3. IsRun(f, n, ub, b)
    BY <2>1, AppliedIs
  <2>4. Fits(n, ub, pos, seqs, ps2, qs2) /\ CellsType(pos, seqs, gen) /\ n \in Nat
    BY <1>4, <1>7, <2>1
  <2>5. After(f[n], n, ub, pos, seqs, ps2, qs2, gen, tail)
    BY ONLY <2>2, <2>3, <2>4, AfterAll
  <2> QED BY <1>2, <2>1, <2>5
<1>13. /\ gen' \in [Cells -> 0 .. GenWrap - 1]
       /\ \A c \in Cells \ taken : gen'[c] = gen[c]
       /\ tail' = [s \in Seqs |-> tail'[s]]
       /\ \A s \in Seqs : /\ Good(tail'[s], s, pos', seqs', gen')
                          /\ Written(s, tail'[s], tail[s], put.writes)
       /\ \A s \in Seqs \ UbSeqs(ub) : tail'[s] = tail[s]
       /\ put.affected = UbSeqs(ub) /\ IsFiniteSet(put.writes)
       /\ \A w \in put.writes : w.seq \in UbSeqs(ub) /\ w.slot \in Slots /\ w.cell \in Cells
       /\ put.current = {[cell |-> ub[i].cell, gen |-> gen'[ub[i].cell],
                          pos |-> ub[i].pos, seq |-> ub[i].seq] : i \in DOMAIN ub}
  <2>1. /\ gen' = put.gen /\ tail' = put.tail /\ DOMAIN ub = 1 .. n
        /\ CellsTo(ub, n) = taken /\ UbSeqs(ub) = SeqsTo(ub, n)
    BY <1>3, <1>9
  <2>2. /\ gen' \in [Cells -> 0 .. GenWrap - 1]
        /\ \A c \in Cells \ taken : gen'[c] = gen[c]
        /\ tail' = [s \in Seqs |-> tail'[s]]
    BY <1>12, <2>1 DEF After
  <2>3. \A s \in Seqs : /\ Good(tail'[s], s, pos', seqs', gen')
                         /\ Written(s, tail'[s], tail[s], put.writes)
    BY <1>10, <1>12, <2>1 DEF After
  <2>4. /\ \A s \in Seqs \ UbSeqs(ub) : tail'[s] = tail[s]
        /\ put.affected = UbSeqs(ub) /\ IsFiniteSet(put.writes)
        /\ \A w \in put.writes : w.seq \in UbSeqs(ub) /\ w.slot \in Slots /\ w.cell \in Cells
    BY <1>12, <2>1 DEF After
  <2>5. put.current = {[cell |-> ub[i].cell, gen |-> gen'[ub[i].cell],
                        pos |-> ub[i].pos, seq |-> ub[i].seq] : i \in DOMAIN ub}
    <3>1. put.current = {[cell |-> ub[i].cell, gen |-> put.gen[ub[i].cell],
                          pos |-> ub[i].pos, seq |-> ub[i].seq] : i \in 1 .. n}
      BY <1>12 DEF After
    <3> QED BY <2>1, <3>1
  <2> QED BY <2>2, <2>3, <2>4, <2>5
<1>14. CellsType(pos', seqs', gen') /\ Apart(pos', seqs')
  <2>1. PICK ps2, qs2, g2 : ps2 = pos' /\ qs2 = seqs' /\ g2 = gen'
    OBVIOUS
  <2>2. /\ CellsType(pos, seqs, gen) /\ Apart(pos, seqs) /\ Fits(n, ub, pos, seqs, ps2, qs2)
        /\ ps2 = PutTo(ub, n, pos, ps2) /\ qs2 = PutTo(ub, n, seqs, qs2)
        /\ g2 \in [Cells -> 0 .. GenWrap - 1] /\ n \in Nat
    BY <1>4, <1>7, <1>10, <1>13, <2>1
  <2>3. CellsType(ps2, qs2, g2) /\ Apart(ps2, qs2)
    BY ONLY <2>2, FitsApart
  <2> QED BY <2>1, <2>3
<1>15. \A c \in taken : c \in Cells /\ pos[c] = -1 /\ seqs[c] = {}
  <2>1. \A c \in taken : c \in Cells /\ pos[c] = -1
    BY DEF taken, Found
  <2> QED BY <1>4, <2>1 DEF Apart
<1>16. /\ batch' # None /\ batch'.ub = ub /\ batch'.tail = tail /\ batch'.gen = gen
       /\ batch'.affected = put.affected /\ batch'.current = put.current
       /\ batch'.writes = put.writes
  <2>1. "ub" \in DOMAIN batch' /\ "ub" \notin DOMAIN None
    BY <1>3 DEF None
  <2> QED BY <1>3, <2>1
<1>17. OldPos' = pos /\ OldSeqs' = seqs
  <2>1. \A c \in Cells : /\ (IF c \in Taken(ub) THEN -1 ELSE pos'[c]) = pos[c]
                         /\ (IF c \in Taken(ub) THEN {} ELSE seqs'[c]) = seqs[c]
    BY <1>6, <1>9, <1>15
  <2>2. pos = [c \in Cells |-> pos[c]] /\ seqs = [c \in Cells |-> seqs[c]]
    BY <1>4 DEF CellsType
  <2>3. [c \in Cells |-> IF c \in Taken(ub) THEN -1 ELSE pos'[c]] = pos
    BY <2>1, <2>2
  <2>4. [c \in Cells |-> IF c \in Taken(ub) THEN {} ELSE seqs'[c]] = seqs
    BY <2>1, <2>2
  <2> QED BY <1>16, <2>3, <2>4 DEF OldPos, OldSeqs
<1>18. RowsType(rows')
  <2>1. \A s \in Seqs : \A i \in Slots : rows[s][i] \in Cells \cup {Stale, Raced}
    BY <1>4 DEF RowsType
  <2> QED BY <1>3, <2>1 DEF RowsType
<1>19. ASSUME NEW s \in Seqs
       PROVE  RowsGood(tail[s], rows'[s])
  <2>1. RowsGood(tail[s], rows[s]) /\ Good(tail[s], s, pos, seqs, gen)
    BY <1>4
  <2>2. \A i \in Slots : rows'[s][i] = IF rows[s][i] \in taken THEN Stale ELSE rows[s][i]
    BY <1>3
  <2>3. \A e \in tail[s].entries : e.slot \in Slots /\ e.cell \in Cells /\ e.pos \in Nat /\ pos[e.cell] = e.pos
    BY <2>1 DEF Good, Live, Tails, Entries
  <2>4. Raced \notin taken
    <3>1. Raced \notin Cells
      BY Constants DEF Raced
    <3> QED BY <1>15, <3>1
  <2>5. \A e \in tail[s].entries : e.cell \notin taken
    BY <1>15, <2>3
  <2>6. \A e \in tail[s].entries : rows'[s][e.slot] \in {e.cell, Raced}
    BY <2>1, <2>2, <2>3, <2>4, <2>5 DEF RowsGood
  <2> QED BY <2>1, <2>2, <2>6 DEF RowsGood
<1>20. Placed(ub)'
  <2>1. \A i \in 1 .. n : /\ ub[i] \in Tokens
                          /\ pos'[ub[i].cell] = ub[i].pos /\ seqs'[ub[i].cell] = {ub[i].seq}
    BY <1>7 DEF Fits
  <2>2. \A i, j \in 1 .. n : ub[i].cell = ub[j].cell => i = j
    BY <1>7 DEF Fits
  <2>3. ASSUME NEW i \in 1 .. n, NEW c \in Cells \ Taken(ub), ub[i].seq \in seqs'[c]
        PROVE  pos'[c] < ub[i].pos
    <3>1. pos'[c] = pos[c] /\ ub[i].seq \in seqs[c]
      BY <1>6, <1>9, <2>3
    <3>2. pos[c] >= 0
      BY <1>4, <3>1 DEF Apart, CellsType
    <3>3. Has(ub[i].seq, c, pos, seqs)
      BY <3>1, <3>2 DEF Has
    <3> QED BY <1>7, <3>1, <3>3 DEF Fits
  <2>4. DOMAIN ub \subseteq Nat
    BY <1>9
  <2> QED BY <1>9, <2>1, <2>2, <2>3, <2>4 DEF Placed
<1>21. CellsType(pos', seqs', gen)
  BY <1>4, <1>14 DEF CellsType
<1>22. \A s \in Seqs : /\ Good(tail[s], s, OldPos', OldSeqs', gen)
                       /\ RowsGood(tail[s], rows'[s])
                       /\ Good(tail'[s], s, pos', seqs', gen')
                       /\ Written(s, tail'[s], tail[s], put.writes)
  BY <1>4, <1>13, <1>17, <1>19
<1>23. Running'
  <2> HIDE DEF Good, Written, RowsGood
  <2> QED BY <1>3, <1>9, <1>13, <1>16, <1>20, <1>21, <1>22 DEF Running
<1>24. \A s \in Seqs : tail'[s] \in Tails
  BY <1>13 DEF Good
<1> QED BY <1>13, <1>14, <1>16, <1>18, <1>23, <1>24 DEF TailInv

(* A decode begins.                                                        *)
LEMMA DecodeInv == ASSUME TailInv, Decode PROVE TailInv'
<1>1. PICK n \in 1 .. Min({NUbatch, Cardinality(Empty)}) : \E q \in [1 .. n -> Seqs] :
          ApplyUbatch(n, q, [i \in 1 .. n |-> Nth(Empty, i)])
  BY DEF Decode
<1>2. PICK q \in [1 .. n -> Seqs] : ApplyUbatch(n, q, [i \in 1 .. n |-> Nth(Empty, i)])
  BY <1>1
<1>3. PICK at : at = [i \in 1 .. n |-> Nth(Empty, i)]
  OBVIOUS
<1>4. Empty \in SUBSET Cells /\ Empty \in SUBSET Int /\ IsFiniteSet(Empty)
  <2>1. Empty \in SUBSET Cells
    BY DEF Empty
  <2>2. IsFiniteSet(Empty)
    BY <2>1, Constants, FS_Subset
  <2> QED BY <2>1, <2>2, Constants
<1>5. n \in Nat /\ \A i \in 1 .. n : i \in 1 .. Cardinality(Empty)
  <2>1. Cardinality(Empty) \in Nat /\ NUbatch \in Nat
    BY <1>4, FS_CardinalityType, TailAssumption
  <2>2. Min({NUbatch, Cardinality(Empty)}) = IF NUbatch <= Cardinality(Empty) THEN NUbatch
                                             ELSE Cardinality(Empty)
    BY <2>1, MinOfTwo
  <2> QED BY <2>1, <2>2
<1>6. /\ \A i \in 1 .. Cardinality(Empty) : Nth(Empty, i) \in Empty
      /\ \A i, j \in 1 .. Cardinality(Empty) : i < j => Nth(Empty, i) < Nth(Empty, j)
  BY <1>4, NthProperties
<1>7. Found(n, at)
  <2>1. \A i \in 1 .. n : at[i] = Nth(Empty, i) /\ at[i] \in Empty
    BY <1>3, <1>5, <1>6
  <2>2. ASSUME NEW i \in 1 .. n, NEW j \in 1 .. n, at[i] = at[j]
        PROVE  i = j
    <3>1. at[i] \in Int
      BY <1>4, <2>1
    <3>2. (i < j => at[i] < at[j]) /\ (j < i => at[j] < at[i])
      BY <1>5, <1>6, <2>1
    <3> QED BY <2>2, <3>1, <3>2
  <2> QED BY <2>1, <2>2 DEF Found, Empty
<1> QED BY <1>2, <1>3, <1>5, <1>7, ApplyUbatchInv

-----------------------------------------------------------------------------
(* The graph writes its rows.                                              *)
LEMMA GraphComputesInv == ASSUME TailInv, GraphComputes PROVE TailInv'
<1>1. /\ batch # None /\ batch' = None
      /\ pos' = pos /\ seqs' = seqs /\ gen' = gen /\ tail' = tail /\ pending' = pending
      /\ rows' = [s \in Seqs |-> [i \in Slots |->
                   CASE Writers(s, i) = {} -> rows[s][i]
                     [] Cardinality(Writers(s, i)) = 1 -> (CHOOSE w \in Writers(s, i) : TRUE).cell
                     [] OTHER -> Raced]]
  BY DEF GraphComputes
<1>2. Running /\ RowsType(rows) /\ CellsType(pos, seqs, gen) /\ Apart(pos, seqs)
      /\ tail = [s \in Seqs |-> tail[s]] /\ \A s \in Seqs : tail[s] \in Tails
  BY <1>1 DEF TailInv
<1>3. /\ pending = None /\ IsFiniteSet(batch.writes)
      /\ \A w \in batch.writes : w.cell \in Cells
      /\ \A s \in Seqs : /\ Good(tail[s], s, pos, seqs, gen) /\ RowsGood(batch.tail[s], rows[s])
                         /\ Written(s, tail[s], batch.tail[s], batch.writes)
  BY <1>2 DEF Running
<1>4. ASSUME NEW s \in Seqs, NEW i \in Slots
      PROVE  /\ Writers(s, i) = {} => rows'[s][i] = rows[s][i]
             /\ \A w \in Writers(s, i) : rows'[s][i] \in {w.cell, Raced}
             /\ rows'[s][i] \in Cells \cup {Stale, Raced}
  <2>1. PICK W : W = Writers(s, i)
    OBVIOUS
  <2>2. rows'[s][i] = CASE W = {} -> rows[s][i]
                        [] Cardinality(W) = 1 -> (CHOOSE w \in W : TRUE).cell
                        [] OTHER -> Raced
    BY <1>1, <2>1
  <2>3. W \in SUBSET batch.writes
    BY <2>1 DEF Writers
  <2>4. IsFiniteSet(W)
    BY <1>3, <2>3, FS_Subset
  <2>5. CASE W = {}
    <3>1. rows'[s][i] = rows[s][i] /\ rows[s][i] \in Cells \cup {Stale, Raced}
      BY <1>2, <2>2, <2>5, FS_EmptySet DEF RowsType
    <3> QED BY <2>1, <2>5, <3>1
  <2>6. CASE W # {} /\ Cardinality(W) = 1
    <3>1. PICK w : W = {w}
      BY <2>4, <2>6, FS_Singleton
    <3>2. (CHOOSE x \in W : TRUE) = w
      BY <3>1
    <3>3. rows'[s][i] = w.cell
      BY <2>2, <2>6, <3>2
    <3>4. w.cell \in Cells
      BY <1>3, <2>3, <3>1
    <3> QED BY <2>1, <2>6, <3>1, <3>3, <3>4
  <2>7. CASE W # {} /\ Cardinality(W) # 1
    <3>1. rows'[s][i] = Raced
      BY <2>2, <2>7
    <3> QED BY <2>1, <2>7, <3>1
  <2> QED BY <2>5, <2>6, <2>7
<1>5. RowsType(rows')
  <2>1. rows' = [s \in Seqs |-> [i \in Slots |-> rows'[s][i]]]
    BY <1>1
  <2> QED BY <1>4, <2>1 DEF RowsType
<1>6. ASSUME NEW s \in Seqs
      PROVE  RowsGood(tail[s], rows'[s])
  <2>1. /\ RowsGood(batch.tail[s], rows[s]) /\ Written(s, tail[s], batch.tail[s], batch.writes)
        /\ tail[s] \in Tails
    BY <1>2, <1>3
  <2>2. ASSUME NEW e \in tail[s].entries
        PROVE  rows'[s][e.slot] \in {e.cell, Raced}
    <3>1. e.slot \in Slots
      BY <2>1 DEF Tails, Entries
    <3>2. CASE [seq |-> s, slot |-> e.slot, cell |-> e.cell] \in batch.writes
      <4>1. PICK w \in batch.writes : w.seq = s /\ w.slot = e.slot /\ w.cell = e.cell
        BY <3>2
      <4>2. w \in Writers(s, e.slot)
        BY <4>1 DEF Writers
      <4> QED BY <1>4, <3>1, <4>1, <4>2
    <3>3. CASE e \in batch.tail[s].entries /\ \A w \in batch.writes : w.seq = s => w.slot # e.slot
      <4>1. Writers(s, e.slot) = {}
        BY <3>3 DEF Writers
      <4> QED BY <1>4, <2>1, <3>1, <3>3, <4>1 DEF RowsGood
    <3> QED BY <2>1, <3>2, <3>3 DEF Written
  <2>3. ASSUME NEW i \in Slots \ tail[s].used
        PROVE  rows'[s][i] = Stale
    <3>1. Writers(s, i) = {} /\ i \notin batch.tail[s].used
      BY <2>1 DEF Written, Writers
    <3> QED BY <1>4, <2>1, <3>1 DEF RowsGood
  <2> QED BY <2>2, <2>3 DEF RowsGood
<1>7. CommittedCopy' = tail /\ CopiedRows' = rows' /\ PendingType'
  BY <1>1, <1>3 DEF CommittedCopy, CopiedRows, PendingType
<1>8. Idle'
  BY <1>1, <1>3, <1>6, <1>7 DEF Idle
<1> QED BY <1>1, <1>2, <1>5, <1>8 DEF TailInv

(* What finish_batch leaves of a tail: all of it, or nothing.              *)
LEMMA RolledBackIs ==
    ASSUME NEW modified \in BOOLEAN, NEW s \in Seqs, NEW t, t = batch.tail[s],
           t \in Tails, t.used = SlotsOf(t.entries), NEW x, x = RolledBack(modified)[s]
    PROVE  /\ x \in Tails /\ x.used = SlotsOf(x.entries)
           /\ IF modified /\ s \in batch.affected THEN x.entries = {} ELSE x = t
<1>1. x = IF modified /\ s \in batch.affected
          THEN [t EXCEPT !.entries = {}, !.used = @ \ SlotsOf(t.entries),
                         !.degraded = TRUE, !.recovery = 0]
          ELSE t
  BY DEF RolledBack
<1>2. CASE modified /\ s \in batch.affected
  <2>1. t = [entries |-> t.entries, used |-> t.used,
             degraded |-> t.degraded, recovery |-> t.recovery]
    BY TailFields
  <2>2. PICK U : U = t.used \ SlotsOf(t.entries)
    OBVIOUS
  <2>3. U = {}
    BY <2>2
  <2>4. x = [t EXCEPT !.entries = {}, !.used = U, !.degraded = TRUE, !.recovery = 0]
    BY <1>1, <1>2, <2>2
  <2>5. x = [entries |-> {}, used |-> U, degraded |-> TRUE, recovery |-> 0]
    BY <2>1, <2>4
  <2>6. {} \in SUBSET Entries /\ U \in SUBSET Slots /\ TRUE \in BOOLEAN /\ 0 \in 0 .. NTokens - 1
    BY <2>3, Constants
  <2>7. [entries |-> {}, used |-> U, degraded |-> TRUE, recovery |-> 0] \in Tails
    BY <2>6, TailMade
  <2>8. x \in Tails /\ x.entries = {} /\ x.used = {}
    BY <2>3, <2>5, <2>7
  <2> QED BY <1>2, <2>8 DEF SlotsOf
<1>3. CASE ~(modified /\ s \in batch.affected)
  BY <1>1, <1>3
<1> QED BY <1>2, <1>3

(* The positions the ubatch of a failed graph is removed from.             *)
FirstPos ==
    [s \in UbSeqs(batch.ub) |->
        Min({batch.ub[i].pos : i \in {j \in DOMAIN batch.ub : batch.ub[j].seq = s}})]

(* A sequence's cells before its tokens are the ones it had before.        *)
LEMMA FirstPosCuts ==
    ASSUME TailInv, batch # None, NEW s \in UbSeqs(batch.ub), NEW p0, p0 = FirstPos[s]
    PROVE  /\ p0 \in Nat
           /\ \A c \in Cells : Has(s, c, OldPos, OldSeqs) <=> Has(s, c, pos, seqs) /\ pos[c] < p0
           /\ \A c \in Cells : Has(s, c, OldPos, OldSeqs) => OldPos[c] = pos[c] /\ pos[c] < p0
<1>1. PICK ub : ub = batch.ub
  OBVIOUS
<1> DEFINE I == {j \in DOMAIN ub : ub[j].seq = s}
           S == {ub[i].pos : i \in I}
<1>2. Placed(ub) /\ CellsType(pos, seqs, gen) /\ Apart(pos, seqs)
  BY <1>1 DEF TailInv, Running
<1>3. S \in SUBSET Nat /\ S # {}
  <2>1. \A i \in DOMAIN ub : ub[i].pos \in Nat
    BY <1>2 DEF Placed, Tokens
  <2>2. PICK i \in DOMAIN ub : ub[i].seq = s
    BY <1>1 DEF UbSeqs
  <2>3. ub[i].pos \in S
    BY <2>2
  <2> QED BY <2>1, <2>3
<1>4. p0 = Min(S)
  BY <1>1 DEF FirstPos
<1>5. p0 \in S /\ \A x \in S : p0 <= x
  BY <1>3, <1>4, MinIsLeast
<1>6. PICK k \in DOMAIN ub : ub[k].seq = s /\ p0 = ub[k].pos
  BY <1>5
<1>7. \A i \in DOMAIN ub : ub[i].seq = s => p0 <= ub[i].pos
  BY <1>5
<1>8. p0 \in Nat
  BY <1>3, <1>5
<1>9. ASSUME NEW c \in Cells
      PROVE  /\ Has(s, c, OldPos, OldSeqs) <=> Has(s, c, pos, seqs) /\ pos[c] < p0
             /\ Has(s, c, OldPos, OldSeqs) => OldPos[c] = pos[c] /\ pos[c] < p0
  <2>1. CASE c \in Taken(ub)
    <3>1. PICK i \in DOMAIN ub : ub[i].cell = c
      BY <2>1 DEF Taken
    <3>2. pos[c] = ub[i].pos /\ seqs[c] = {ub[i].seq} /\ ub[i].pos \in Nat
      BY <1>2, <3>1 DEF Placed, Tokens
    <3>3. ~(Has(s, c, pos, seqs) /\ pos[c] < p0)
      BY <1>7, <1>8, <3>2 DEF Has
    <3>4. OldPos[c] = -1
      BY <1>1, <2>1 DEF OldPos
    <3> QED BY <3>3, <3>4 DEF Has
  <2>2. CASE c \notin Taken(ub)
    <3>1. OldPos[c] = pos[c] /\ OldSeqs[c] = seqs[c]
      BY <1>1, <2>2 DEF OldPos, OldSeqs
    <3>2. s \in seqs[c] => pos[c] < p0
      BY <1>2, <1>6, <2>2 DEF Placed
    <3> QED BY <3>1, <3>2 DEF Has
  <2> QED BY <2>1, <2>2
<1> QED BY <1>8, <1>9

(* The graph fails.                                                        *)
LEMMA GraphFailsInv ==
    ASSUME TailInv, NEW modified \in BOOLEAN, GraphFails(modified)
    PROVE  TailInv'
<1>1. PICK r : r = Removed(RolledBack(modified), pos, seqs, FirstPos)
  OBVIOUS
<1> DEFINE rs == [s \in Seqs |-> [i \in Slots |->
                    IF modified /\ Writers(s, i) # {} THEN Stale ELSE rows[s][i]]]
<1>2. /\ batch # None /\ batch' = None /\ pending' = pending /\ gen' = batch.gen
      /\ pos' = r.pos /\ seqs' = r.seqs /\ tail' = r.tail /\ rows' = Held(rs, tail')
  BY <1>1 DEF GraphFails, FirstPos, UbSeqs
<1>3. Running /\ RowsType(rows) /\ Apart(pos, seqs)
  BY <1>2 DEF TailInv
<1>4. /\ pending = None /\ CellsType(pos, seqs, batch.gen) /\ batch.affected = UbSeqs(batch.ub)
      /\ \A w \in batch.writes : w.seq \in UbSeqs(batch.ub)
      /\ \A s \in Seqs : /\ Good(batch.tail[s], s, OldPos, OldSeqs, batch.gen)
                         /\ RowsGood(batch.tail[s], rows[s])
      /\ Placed(batch.ub)
  BY <1>3 DEF Running
<1>5. PICK from, ts : from = FirstPos /\ ts = RolledBack(modified)
  OBVIOUS
<1>6. DOMAIN from = UbSeqs(batch.ub)
  BY <1>5 DEF FirstPos
<1>7. /\ CellsType(r.pos, r.seqs, batch.gen) /\ Apart(r.pos, r.seqs)
      /\ \A s, c : c \in Cells =>
            /\ Has(s, c, r.pos, r.seqs) <=>
                  Has(s, c, pos, seqs) /\ ~(s \in DOMAIN from /\ pos[c] >= from[s])
            /\ Has(s, c, r.pos, r.seqs) => r.pos[c] = pos[c]
      /\ r.tail = [s \in Seqs |->
            IF s \in DOMAIN from
            THEN MarkIfIncomplete(RemoveEntries(ts[s], from[s]), Cardinality(Of(s, r.pos, r.seqs)))
            ELSE ts[s]]
  <2>1. \A s \in DOMAIN from : from[s] \in Nat
    BY <1>2, <1>5, <1>6, FirstPosCuts
  <2>2. PICK g : g = batch.gen
    OBVIOUS
  <2>3. CellsType(pos, seqs, g) /\ Apart(pos, seqs) /\ r = Removed(ts, pos, seqs, from)
    BY <1>1, <1>3, <1>4, <1>5, <2>2
  <2>4. /\ CellsType(r.pos, r.seqs, g) /\ Apart(r.pos, r.seqs)
        /\ \A s, c : c \in Cells =>
              /\ Has(s, c, r.pos, r.seqs) <=>
                    Has(s, c, pos, seqs) /\ ~(s \in DOMAIN from /\ pos[c] >= from[s])
              /\ Has(s, c, r.pos, r.seqs) => r.pos[c] = pos[c]
        /\ r.tail = [s \in Seqs |->
              IF s \in DOMAIN from
              THEN MarkIfIncomplete(RemoveEntries(ts[s], from[s]), Cardinality(Of(s, r.pos, r.seqs)))
              ELSE ts[s]]
    BY ONLY <2>1, <2>3, RemovedCells
  <2> QED BY <2>2, <2>4
<1>8. ASSUME NEW s \in Seqs
      PROVE  /\ ts[s] \in Tails /\ ts[s].used = SlotsOf(ts[s].entries)
             /\ IF modified /\ s \in UbSeqs(batch.ub) THEN ts[s].entries = {}
                ELSE ts[s] = batch.tail[s]
  <2>1. PICK t, x : t = batch.tail[s] /\ x = ts[s]
    OBVIOUS
  <2>2. t \in Tails /\ t.used = SlotsOf(t.entries)
    BY <1>4, <2>1 DEF Good
  <2>3. /\ x \in Tails /\ x.used = SlotsOf(x.entries)
        /\ IF modified /\ s \in batch.affected THEN x.entries = {} ELSE x = t
    BY <1>5, <2>1, <2>2, RolledBackIs
  <2> QED BY <1>4, <2>1, <2>3
<1>9. ASSUME NEW s \in Seqs, s \in UbSeqs(batch.ub)
      PROVE  Good(r.tail[s], s, r.pos, r.seqs, batch.gen) /\ r.tail[s].entries \subseteq ts[s].entries
  <2>1. PICK p0 : p0 = from[s]
    OBVIOUS
  <2>2. /\ p0 \in Nat
        /\ \A c \in Cells : Has(s, c, OldPos, OldSeqs) <=> Has(s, c, pos, seqs) /\ pos[c] < p0
        /\ \A c \in Cells : Has(s, c, OldPos, OldSeqs) => OldPos[c] = pos[c] /\ pos[c] < p0
    BY <1>2, <1>5, <1>9, <2>1, FirstPosCuts
  <2>3. PICK t, g, ps, qs, at, left : /\ t = ts[s] /\ g = batch.gen /\ ps = OldPos /\ qs = OldSeqs
                                      /\ at = r.pos /\ left = r.seqs
    OBVIOUS
  <2>4. PICK m : m = MarkIfIncomplete(RemoveEntries(t, p0), Cardinality(Of(s, at, left)))
    OBVIOUS
  <2>5. r.tail[s] = m
    BY <1>6, <1>7, <1>9, <2>1, <2>3, <2>4
  <2>6. CutAt(p0, s, ps, qs, at, left)
    <3>1. \A c \in Cells : pos[c] \in Int
      BY <1>4 DEF CellsType
    <3>2. \A c \in Cells : /\ Has(s, c, at, left) <=> Has(s, c, pos, seqs) /\ ~(pos[c] >= p0)
                           /\ Has(s, c, at, left) => at[c] = pos[c]
      BY <1>6, <1>7, <1>9, <2>1, <2>3
    <3>3. \A c \in Cells : /\ Has(s, c, ps, qs) <=> Has(s, c, pos, seqs) /\ pos[c] < p0
                           /\ Has(s, c, ps, qs) => ps[c] = pos[c] /\ pos[c] < p0
      BY <2>2, <2>3
    <3> QED BY <2>2, <3>1, <3>2, <3>3 DEF CutAt
  <2>7. /\ t \in Tails /\ t.used = SlotsOf(t.entries) /\ Separate(t.entries)
        /\ Live(t.entries, s, ps, qs, g) /\ SuffixUpTo(p0, t.entries, s, ps, qs)
    <3>1. t \in Tails /\ t.used = SlotsOf(t.entries)
      BY <1>8, <2>3
    <3>2. CASE t = batch.tail[s]
      <4>1. Good(t, s, ps, qs, g)
        BY <1>4, <2>3, <3>2
      <4> QED BY <3>1, <4>1 DEF Good, Suffix, SuffixUpTo
    <3>3. CASE t.entries = {}
      BY <3>1, <3>3, FS_EmptySet, Constants DEF Separate, Live, SuffixUpTo
    <3> QED BY <1>8, <2>3, <3>2, <3>3
  <2>8. Good(m, s, at, left, g) /\ m.entries = {e \in t.entries : e.pos < p0}
    <3>1. p0 \in Nat
      BY <2>2
    <3> QED BY ONLY <2>4, <2>6, <2>7, <3>1, RemovedTail
  <2> QED BY <2>3, <2>5, <2>8
<1>10. ASSUME NEW s \in Seqs, s \notin UbSeqs(batch.ub)
       PROVE  Good(r.tail[s], s, r.pos, r.seqs, batch.gen) /\ r.tail[s] = ts[s]
  <2>1. r.tail[s] = ts[s] /\ ts[s] = batch.tail[s]
    BY <1>6, <1>7, <1>8, <1>10
  <2>2. PICK t, g, ps, qs, at, left : /\ t = ts[s] /\ g = batch.gen /\ ps = OldPos /\ qs = OldSeqs
                                      /\ at = r.pos /\ left = r.seqs
    OBVIOUS
  <2>3. Good(t, s, ps, qs, g)
    BY <1>4, <2>1, <2>2
  <2>4. ASSUME NEW c \in Cells
        PROVE  /\ Has(s, c, at, left) <=> Has(s, c, ps, qs)
               /\ Has(s, c, ps, qs) => at[c] = ps[c] /\ g[c] = g[c]
    <3>1. /\ Has(s, c, at, left) <=> Has(s, c, pos, seqs)
          /\ Has(s, c, at, left) => at[c] = pos[c]
      BY <1>6, <1>7, <1>10, <2>2
    <3>2. CASE c \in Taken(batch.ub)
      <4>1. PICK i \in DOMAIN batch.ub : batch.ub[i].cell = c
        BY <3>2 DEF Taken
      <4>2. seqs[c] = {batch.ub[i].seq} /\ batch.ub[i].seq \in UbSeqs(batch.ub)
        BY <1>4, <4>1 DEF Placed, UbSeqs
      <4>3. ps[c] = -1
        BY <2>2, <3>2 DEF OldPos
      <4> QED BY <1>10, <3>1, <4>2, <4>3 DEF Has
    <3>3. CASE c \notin Taken(batch.ub)
      <4>1. ps[c] = pos[c] /\ qs[c] = seqs[c]
        BY <2>2, <3>3 DEF OldPos, OldSeqs
      <4> QED BY <3>1, <4>1 DEF Has
    <3> QED BY <3>2, <3>3
  <2>5. Good(t, s, at, left, g)
    BY ONLY <2>3, <2>4, GoodFrame
  <2> QED BY <2>1, <2>2, <2>5
<1>11. RowsType(rs)
  <2>1. \A s \in Seqs : \A i \in Slots : rows[s][i] \in Cells \cup {Stale, Raced}
    BY <1>3 DEF RowsType
  <2> QED BY <2>1 DEF RowsType
<1>12. ASSUME NEW s \in Seqs, NEW e \in r.tail[s].entries
       PROVE  rs[s][e.slot] \in {e.cell, Raced}
  <2>1. e \in ts[s].entries
    BY <1>9, <1>10
  <2>2. ts[s] = batch.tail[s] /\ e.slot \in Slots
    BY <1>8, <2>1 DEF Tails, Entries
  <2>3. rows[s][e.slot] \in {e.cell, Raced}
    BY <1>4, <2>1, <2>2 DEF RowsGood
  <2>4. rs[s][e.slot] = IF modified /\ Writers(s, e.slot) # {} THEN Stale ELSE rows[s][e.slot]
    BY <2>2
  <2>5. ~(modified /\ Writers(s, e.slot) # {})
    <3>1. s \in UbSeqs(batch.ub) => ~modified
      BY <1>8, <2>1
    <3> QED BY <1>4, <3>1 DEF Writers
  <2> QED BY <2>3, <2>4, <2>5
<1>13. /\ CellsType(pos', seqs', gen') /\ Apart(pos', seqs') /\ tail' = [s \in Seqs |-> tail'[s]]
       /\ \A s \in Seqs : Good(tail'[s], s, pos', seqs', gen')
       /\ \A s \in Seqs : \A e \in tail'[s].entries : rs[s][e.slot] \in {e.cell, Raced}
  <2>1. \A s \in Seqs : Good(r.tail[s], s, r.pos, r.seqs, batch.gen)
    BY <1>9, <1>10
  <2>2. \A s \in Seqs : \A e \in r.tail[s].entries : rs[s][e.slot] \in {e.cell, Raced}
    BY <1>12
  <2> HIDE DEF rs
  <2> QED BY <1>2, <1>7, <2>1, <2>2
<1> HIDE DEF rs
<1> QED BY <1>2, <1>4, <1>11, <1>13, IdleAfter

-----------------------------------------------------------------------------
(* Every step keeps the invariant.                                         *)
LEMMA TailStep == TailInv /\ [Next]_vars => TailInv'
<1> SUFFICES ASSUME TailInv, [Next]_vars PROVE TailInv'
  OBVIOUS
<1>1. CASE \E s \in Seqs, p0 \in 0 .. MaxLen - 1 : SeqRm(s, p0)
  BY <1>1, SeqRmInv
<1>2. CASE \E src, dst \in Seqs : CopyState(src, dst)
  BY <1>2, CopyStateInv
<1>3. CASE UpdateCopies
  BY <1>3, UpdateCopiesInv
<1>4. CASE UpdateFails
  BY <1>4, UpdateFailsInv
<1>5. CASE Clear
  BY <1>5, ClearInv
<1>6. CASE Decode
  BY <1>6, DecodeInv
<1>7. CASE GraphComputes
  BY <1>7, GraphComputesInv
<1>8. CASE \E modified \in BOOLEAN : GraphFails(modified)
  BY <1>8, GraphFailsInv
<1>9. CASE UNCHANGED vars
  <2>1. /\ pos' = pos /\ seqs' = seqs /\ gen' = gen /\ tail' = tail
        /\ rows' = rows /\ batch' = batch /\ pending' = pending
    BY <1>9 DEF vars
  <2>2. CommittedCopy' = CommittedCopy /\ CopiedRows' = CopiedRows
    BY <2>1 DEF CommittedCopy, CopiedRows
  <2>3. Idle => Idle'
    <3>1. PendingType => PendingType'
      BY <2>1 DEF PendingType
    <3> QED BY <2>1, <2>2, <3>1 DEF Idle
  <2>4. Running => Running'
    <3>1. OldPos' = OldPos /\ OldSeqs' = OldSeqs
      BY <2>1 DEF OldPos, OldSeqs
    <3>2. Placed(batch.ub) => Placed(batch.ub)'
      BY <2>1 DEF Placed
    <3> QED BY <2>1, <3>1, <3>2 DEF Running
  <2> QED BY <2>1, <2>3, <2>4 DEF TailInv
<1> QED BY <1>1, <1>2, <1>3, <1>4, <1>5, <1>6, <1>7, <1>8, <1>9 DEF Next

(* The tails are good for the cells, or will be when the pending copy is   *)
(* made or the running graph ends.                                         *)
THEOREM TailInvariant == Spec => []TailInv
<1>1. Init => TailInv
  BY InitInv
<1>2. TailInv /\ [Next]_vars => TailInv'
  BY TailStep
<1> QED BY <1>1, <1>2, PTL DEF Spec

(* Entries are told apart by their slots.                                  *)
LEMMA SlotsCount ==
    ASSUME NEW E, Separate(E)
    PROVE  Cardinality(SlotsOf(E)) = Cardinality(E)
<1> DEFINE h == [e \in E |-> e.slot]
<1>1. h \in [E -> SlotsOf(E)] /\ \A x \in SlotsOf(E) : \E e \in E : h[e] = x
  BY DEF SlotsOf
<1>2. \A e, f \in E : h[e] = h[f] => e = f
  BY DEF Separate
<1>3. h \in Bijection(E, SlotsOf(E))
  BY <1>1, <1>2 DEF Bijection, Injection, IsInjective, Surjection
<1>4. IsFiniteSet(E)
  BY DEF Separate
<1> QED BY <1>3, <1>4, FS_Bijection DEF ExistsBijection

(* A tail as it is, while a copy may be pending.                           *)
LEMMA TailNow ==
    ASSUME TailInv, NEW s \in Seqs
    PROVE  \/ /\ pending # None /\ pending.dst = s /\ tail[s].entries = {}
              /\ tail[s].used = SlotsOf(pending.entries) /\ Separate(pending.entries)
           \/ /\ ~(pending # None /\ pending.dst = s)
              /\ tail[s].used = SlotsOf(tail[s].entries) /\ Separate(tail[s].entries)
<1>1. tail = [x \in Seqs |-> tail[x]]
  BY DEF TailInv
<1>2. CASE batch # None
  <2>1. pending = None /\ Good(tail[s], s, pos, seqs, gen)
    BY <1>2 DEF TailInv, Running
  <2> QED BY <2>1 DEF Good
<1>3. CASE batch = None
  <2>1. Good(CommittedCopy[s], s, pos, seqs, gen) /\ PendingType
    BY <1>3 DEF TailInv, Idle
  <2>2. CASE pending # None /\ pending.dst = s
    <3>1. CommittedCopy[s].entries = pending.entries
      BY <1>1, <2>2 DEF CommittedCopy
    <3> QED BY <2>1, <2>2, <3>1 DEF PendingType, Good
  <2>3. CASE ~(pending # None /\ pending.dst = s)
    <3>1. CommittedCopy[s] = tail[s]
      BY <1>1, <2>3 DEF CommittedCopy
    <3> QED BY <2>1, <2>3, <3>1 DEF Good
  <2> QED BY <2>2, <2>3
<1> QED BY <1>2, <1>3

(* The types, with the length of a tail and the range of the recovery      *)
(* count: trim and commit keep a tail within its arena.                    *)
THEOREM TailTypeCorrect == Spec => []TypeOK
<1>1. TailInv => TypeOK
  <2> SUFFICES ASSUME TailInv PROVE TypeOK
    OBVIOUS
  <2>1. CellsType(pos, seqs, gen) /\ RowsType(rows) /\ \A s \in Seqs : tail[s] \in Tails
    BY DEF TailInv
  <2>2. ASSUME NEW s \in Seqs
        PROVE  Cardinality(tail[s].entries) <= Limit
    <3>1. Cardinality({}) <= Limit
      BY FS_EmptySet, Constants
    <3> QED BY <3>1, TailNow DEF Separate
  <2>3. \A s \in Seqs : /\ tail[s].entries \subseteq Entries /\ tail[s].used \subseteq Slots
                        /\ tail[s].degraded \in BOOLEAN /\ tail[s].recovery \in 0 .. NTokens - 1
    BY <2>1, TailFields
  <2> QED BY <2>1, <2>2, <2>3 DEF TypeOK, CellsType, RowsType
<1> QED BY <1>1, TailInvariant, PTL

(* The slots in use are the entries' and those of a waiting copy, each     *)
(* taken once: rollback, copy, cancel and failure lose and share none.     *)
THEOREM TailSlotsOwned == Spec => []SlotsOwned
<1>1. TailInv => SlotsOwned
  <2> SUFFICES ASSUME TailInv, NEW s \in Seqs
               PROVE  LET waiting == IF pending # None /\ pending.dst = s THEN pending.entries ELSE {}
                          all == tail[s].entries \cup waiting
                      IN  /\ tail[s].used = SlotsOf(all)
                          /\ Cardinality(SlotsOf(all)) = Cardinality(tail[s].entries) + Cardinality(waiting)
    BY DEF SlotsOwned
  <2>1. Cardinality({}) = 0
    BY FS_EmptySet
  <2>2. \A E : Separate(E) => Cardinality(E) \in Nat
    BY FS_CardinalityType DEF Separate
  <2>3. CASE /\ pending # None /\ pending.dst = s /\ tail[s].entries = {}
             /\ tail[s].used = SlotsOf(pending.entries) /\ Separate(pending.entries)
    <3>1. tail[s].entries \cup pending.entries = pending.entries
      BY <2>3
    <3>2. Cardinality(SlotsOf(pending.entries)) = 0 + Cardinality(pending.entries)
      BY <2>2, <2>3, SlotsCount
    <3> QED BY <2>1, <2>3, <3>1, <3>2
  <2>4. CASE /\ ~(pending # None /\ pending.dst = s)
             /\ tail[s].used = SlotsOf(tail[s].entries) /\ Separate(tail[s].entries)
    <3>1. tail[s].entries \cup {} = tail[s].entries
      OBVIOUS
    <3>2. Cardinality(SlotsOf(tail[s].entries)) = Cardinality(tail[s].entries) + 0
      BY <2>2, <2>4, SlotsCount
    <3> QED BY <2>1, <2>4, <3>1, <3>2
  <2> QED BY <2>3, <2>4, TailNow
<1> QED BY <1>1, TailInvariant, PTL

-----------------------------------------------------------------------------
(* What source_candidates has to choose from, for the tokens of sequence s *)
(* while the graph runs: old entries of cells that are still what they     *)
(* were, and the ubatch.                                                   *)
LEMMA Candidates ==
    ASSUME TailInv, batch # None, NEW s \in Seqs
    PROVE  /\ \A f \in batch.tail[s].entries :
                 /\ f.cell \in Cells \ Taken(batch.ub) /\ f.pos \in Nat /\ f.slot \in Slots
                 /\ s \in seqs[f.cell] /\ pos[f.cell] = f.pos /\ gen[f.cell] = f.gen
                 /\ rows[s][f.slot] \in {f.cell, Raced}
           /\ \A f \in Current(s) : \E j \in DOMAIN batch.ub :
                 /\ batch.ub[j].seq = s /\ f.cell = batch.ub[j].cell /\ f.pos = batch.ub[j].pos
                 /\ f.gen = gen[f.cell] /\ f.slot = -1
                 /\ f.cell \in Taken(batch.ub) /\ f.cell \in Cells /\ f.pos \in Nat
                 /\ s \in seqs[f.cell] /\ pos[f.cell] = f.pos
           /\ \A f, h \in Current(s) : f.cell = h.cell => f = h
           /\ \A c \in Taken(batch.ub) : s \in seqs[c] => \E f \in Current(s) : f.cell = c
<1>1. PICK ub : ub = batch.ub
  OBVIOUS
<1>2. /\ Placed(ub) /\ \A c \in Cells \ Taken(ub) : gen[c] = batch.gen[c]
      /\ Good(batch.tail[s], s, OldPos, OldSeqs, batch.gen) /\ RowsGood(batch.tail[s], rows[s])
      /\ batch.current = {[cell |-> ub[i].cell, gen |-> gen[ub[i].cell],
                           pos |-> ub[i].pos, seq |-> ub[i].seq] : i \in DOMAIN ub}
  BY <1>1 DEF TailInv, Running
<1>3. ASSUME NEW f \in batch.tail[s].entries
      PROVE  /\ f.cell \in Cells \ Taken(ub) /\ f.pos \in Nat /\ f.slot \in Slots
             /\ s \in seqs[f.cell] /\ pos[f.cell] = f.pos /\ gen[f.cell] = f.gen
             /\ rows[s][f.slot] \in {f.cell, Raced}
  <2>1. /\ f.cell \in Cells /\ f.pos \in Nat /\ f.slot \in Slots
        /\ s \in OldSeqs[f.cell] /\ OldPos[f.cell] = f.pos /\ batch.gen[f.cell] = f.gen
    BY <1>2 DEF Good, Tails, Entries, Live, Has
  <2>2. f.cell \notin Taken(ub)
    BY <1>1, <2>1 DEF OldPos
  <2>3. seqs[f.cell] = OldSeqs[f.cell] /\ pos[f.cell] = OldPos[f.cell]
    BY <1>1, <2>1, <2>2 DEF OldPos, OldSeqs
  <2>4. rows[s][f.slot] \in {f.cell, Raced}
    BY <1>2 DEF RowsGood
  <2> QED BY <1>2, <2>1, <2>2, <2>3, <2>4
<1> DEFINE item(j) == [cell |-> ub[j].cell, gen |-> gen[ub[j].cell], pos |-> ub[j].pos, slot |-> -1]
<1>4. \A f \in Current(s) : \E j \in DOMAIN ub : ub[j].seq = s /\ f = item(j)
  <2> SUFFICES ASSUME NEW f \in Current(s) PROVE \E j \in DOMAIN ub : ub[j].seq = s /\ f = item(j)
    OBVIOUS
  <2>1. PICK e \in batch.current : /\ e.seq = s
                                   /\ f = [cell |-> e.cell, gen |-> e.gen, pos |-> e.pos, slot |-> -1]
    BY DEF Current
  <2>2. PICK j \in DOMAIN ub : e = [cell |-> ub[j].cell, gen |-> gen[ub[j].cell],
                                    pos |-> ub[j].pos, seq |-> ub[j].seq]
    BY <1>2
  <2>3. e.cell = ub[j].cell /\ e.gen = gen[ub[j].cell] /\ e.pos = ub[j].pos /\ e.seq = ub[j].seq
    BY <2>2
  <2> QED BY <2>1, <2>3
<1>5. ASSUME NEW j \in DOMAIN ub, ub[j].seq = s
      PROVE  item(j) \in Current(s)
  <2>1. PICK e : e = [cell |-> ub[j].cell, gen |-> gen[ub[j].cell],
                      pos |-> ub[j].pos, seq |-> ub[j].seq]
    OBVIOUS
  <2>2. e \in batch.current
    BY <1>2, <2>1
  <2>3. e.cell = ub[j].cell /\ e.gen = gen[ub[j].cell] /\ e.pos = ub[j].pos /\ e.seq = s
    BY <1>5, <2>1
  <2>4. [cell |-> e.cell, gen |-> e.gen, pos |-> e.pos, slot |-> -1] \in Current(s)
    BY <2>2, <2>3 DEF Current
  <2> QED BY <2>3, <2>4
<1>6. \A j \in DOMAIN ub : /\ item(j).cell = ub[j].cell /\ item(j).pos = ub[j].pos
                           /\ item(j).gen = gen[ub[j].cell] /\ item(j).slot = -1
  OBVIOUS
<1> HIDE DEF item
<1>7. \A j \in DOMAIN ub : /\ ub[j].cell \in Taken(ub) /\ ub[j].cell \in Cells /\ ub[j].pos \in Nat
                           /\ seqs[ub[j].cell] = {ub[j].seq} /\ pos[ub[j].cell] = ub[j].pos
  BY <1>2 DEF Placed, Tokens, Taken
<1>8. ASSUME NEW f \in Current(s)
      PROVE  \E j \in DOMAIN ub :
                 /\ ub[j].seq = s /\ f.cell = ub[j].cell /\ f.pos = ub[j].pos
                 /\ f.gen = gen[f.cell] /\ f.slot = -1
                 /\ f.cell \in Taken(ub) /\ f.cell \in Cells /\ f.pos \in Nat
                 /\ s \in seqs[f.cell] /\ pos[f.cell] = f.pos
  <2>1. PICK j \in DOMAIN ub : ub[j].seq = s /\ f = item(j)
    BY <1>4
  <2> QED BY <1>6, <1>7, <2>1
<1>9. ASSUME NEW f \in Current(s), NEW h \in Current(s), f.cell = h.cell
      PROVE  f = h
  <2>1. PICK j \in DOMAIN ub : f = item(j)
    BY <1>4
  <2>2. PICK k \in DOMAIN ub : h = item(k)
    BY <1>4
  <2>3. j = k
    BY <1>2, <1>6, <1>9, <2>1, <2>2 DEF Placed
  <2> QED BY <2>1, <2>2, <2>3
<1>10. ASSUME NEW c \in Taken(ub), s \in seqs[c]
       PROVE  \E f \in Current(s) : f.cell = c
  <2>1. PICK j \in DOMAIN ub : c = ub[j].cell
    BY DEF Taken
  <2>2. ub[j].seq = s
    BY <1>7, <1>10, <2>1
  <2> QED BY <1>5, <1>6, <2>1, <2>2
<1> QED BY <1>1, <1>3, <1>8, <1>9, <1>10

(* What a query reads for exact is the row of the cell it stands for.      *)
THEOREM TailReadsExact == Spec => []ReadsExact
<1>1. TailInv => ReadsExact
  <2> SUFFICES ASSUME TailInv, batch # None, NEW i \in DOMAIN batch.ub, NEW e \in Exact(i)
               PROVE  /\ pos[e.cell] = e.pos
                      /\ e.slot >= 0 => rows[batch.ub[i].seq][e.slot] \in {e.cell, Raced}
    BY DEF ReadsExact
  <2>1. PICK s : s = batch.ub[i].seq
    OBVIOUS
  <2>2. s \in Seqs
    BY <2>1 DEF TailInv, Running, Placed, Tokens
  <2>3. e \in History(s) \cup Current(s)
    BY <2>1 DEF Exact, NewestOf
  <2>4. CASE e \in History(s)
    <3>1. e \in batch.tail[s].entries
      BY <2>4 DEF History, NewestOf
    <3> QED BY <2>1, <2>2, <3>1, Candidates
  <2>5. CASE e \in Current(s)
    <3>1. e.slot = -1 /\ pos[e.cell] = e.pos
      BY <2>2, <2>5, Candidates
    <3> QED BY <3>1
  <2> QED BY <2>3, <2>4, <2>5
<1> QED BY <1>1, TailInvariant, PTL

(* Two sets that name their members by cells are compared by their cells.  *)
LEMMA CellsCompare ==
    ASSUME NEW A, NEW B, IsFiniteSet(B),
           \A a, b \in A : a.cell = b.cell => a = b,
           \A a, b \in B : a.cell = b.cell => a = b,
           \A a \in A : \E b \in B : b.cell = a.cell
    PROVE  /\ IsFiniteSet(A) /\ Cardinality(A) <= Cardinality(B)
           /\ (\A b \in B : \E a \in A : a.cell = b.cell) => Cardinality(A) = Cardinality(B)
<1> DEFINE h == [a \in A |-> CHOOSE b \in B : b.cell = a.cell]
<1>1. \A a \in A : h[a] \in B /\ h[a].cell = a.cell
  OBVIOUS
<1>2. h \in [A -> B]
  BY <1>1
<1>3. \A a, b \in A : h[a] = h[b] => a = b
  <2> HIDE DEF h
  <2> QED BY <1>1
<1>4. h \in Injection(A, B)
  BY <1>2, <1>3 DEF Injection, IsInjective
<1>5. (\A b \in B : \E a \in A : a.cell = b.cell) => h \in Surjection(A, B)
  <2> HAVE \A b \in B : \E a \in A : a.cell = b.cell
  <2>1. ASSUME NEW b \in B PROVE \E a \in A : h[a] = b
    <3>1. PICK a \in A : a.cell = b.cell
      OBVIOUS
    <3>2. h[a] \in B /\ h[a].cell = b.cell
      BY <1>1, <3>1
    <3>3. h[a] = b
      <4> HIDE DEF h
      <4> QED BY <3>2
    <3> QED BY <3>3
  <2> QED BY <1>2, <2>1 DEF Surjection
<1> HIDE DEF h
<1> QED BY <1>4, <1>5, FS_Injection

(* The cells they stand for.                                               *)
CellsOf(E) == {e.cell : e \in E}

(* The members of S after position p.                                      *)
LaterIn(S, p) == {y \in S : y.pos > p}

(* The newest n of V are the newest n of X when V is what is newest in X,  *)
(* and reaches n back.                                                     *)
LEMMA NewestCoincide ==
    ASSUME NEW V, NEW X, NEW n \in Nat, IsFiniteSet(X),
           \A x \in X : x.pos \in Nat,
           \A v, w \in V : v.cell = w.cell => v = w,
           \A x, y \in X : x.cell = y.cell => x = y,
           \A v \in V : \E x \in X : x.cell = v.cell /\ x.pos = v.pos,
           \A v \in V, x \in X : x.pos > v.pos => \E w \in V : w.cell = x.cell,
           \A x \in X : Cardinality(LaterIn(X, x.pos)) < n => \E v \in V : v.cell = x.cell
    PROVE  CellsOf(NewestOf(V, n)) = CellsOf(NewestOf(X, n))
<1>1. ASSUME NEW v \in V, NEW x \in X, x.cell = v.cell
      PROVE  v \in NewestOf(V, n) <=> x \in NewestOf(X, n)
  <2>1. x.pos = v.pos
    <3>1. PICK y \in X : y.cell = v.cell /\ y.pos = v.pos
      OBVIOUS
    <3>2. y = x
      BY <1>1, <3>1
    <3> QED BY <3>1, <3>2
  <2>2. PICK P, Q : P = {w \in V : w.pos > v.pos} /\ Q = {y \in X : y.pos > x.pos}
    OBVIOUS
  <2>3. /\ IsFiniteSet(Q)
        /\ \A a, b \in P : a.cell = b.cell => a = b
        /\ \A a, b \in Q : a.cell = b.cell => a = b
    <3>1. Q \in SUBSET X
      BY <2>2
    <3>2. IsFiniteSet(Q)
      BY <3>1, FS_Subset
    <3> QED BY <2>2, <3>2
  <2>4. \A a \in P : \E b \in Q : b.cell = a.cell
    BY <2>1, <2>2
  <2>5. \A b \in Q : \E a \in P : a.cell = b.cell
    <3> SUFFICES ASSUME NEW b \in Q PROVE \E a \in P : a.cell = b.cell
      OBVIOUS
    <3>1. b \in X /\ b.pos > v.pos
      BY <2>1, <2>2
    <3>2. PICK w \in V : w.cell = b.cell
      BY <3>1
    <3>3. PICK y \in X : y.cell = w.cell /\ y.pos = w.pos
      OBVIOUS
    <3>4. y = b
      BY <3>1, <3>2, <3>3
    <3> QED BY <2>2, <3>1, <3>2, <3>3, <3>4
  <2>6. Cardinality(P) = Cardinality(Q)
    BY ONLY <2>3, <2>4, <2>5, CellsCompare
  <2> QED BY <2>2, <2>6 DEF NewestOf
<1>2. ASSUME NEW v \in NewestOf(V, n) PROVE v.cell \in CellsOf(NewestOf(X, n))
  <2>1. v \in V
    BY DEF NewestOf
  <2>2. PICK x \in X : x.cell = v.cell
    BY <2>1
  <2> QED BY <1>1, <2>1, <2>2 DEF CellsOf
<1>3. ASSUME NEW x \in NewestOf(X, n) PROVE x.cell \in CellsOf(NewestOf(V, n))
  <2>1. x \in X /\ Cardinality(LaterIn(X, x.pos)) < n
    BY DEF NewestOf, LaterIn
  <2>2. PICK v \in V : v.cell = x.cell
    BY <2>1
  <2> QED BY <1>1, <2>1, <2>2 DEF CellsOf
<1> QED BY <1>2, <1>3 DEF CellsOf

(* The cells a query of sequence s at position p sees.                     *)
SeenUpTo(s, p) ==
    {e \in {[cell |-> c, pos |-> pos[c]] : c \in Of(s, pos, seqs)} : e.pos <= p}

(* They are finitely many, and told apart by their cells.                  *)
LEMMA SeenIs ==
    ASSUME TailInv, NEW s, NEW p, NEW X, X = SeenUpTo(s, p)
    PROVE  /\ IsFiniteSet(X)
           /\ \A x \in X : /\ x.cell \in Cells /\ x.pos \in Nat /\ x.pos <= p
                           /\ s \in seqs[x.cell] /\ x.pos = pos[x.cell]
           /\ \A x, y \in X : x.cell = y.cell => x = y
           /\ \A c \in Cells : Has(s, c, pos, seqs) /\ pos[c] <= p =>
                 \E x \in X : x.cell = c /\ x.pos = pos[c]
<1>1. CellsType(pos, seqs, gen)
  BY DEF TailInv
<1>2. \A c \in Cells : pos[c] \in Int
  BY <1>1 DEF CellsType
<1>3. \A x \in X : /\ x = [cell |-> x.cell, pos |-> pos[x.cell]]
                   /\ x.cell \in Of(s, pos, seqs) /\ x.pos <= p
  BY DEF SeenUpTo
<1>4. \A x \in X : /\ x.cell \in Cells /\ x.pos \in Nat /\ x.pos <= p
                   /\ s \in seqs[x.cell] /\ x.pos = pos[x.cell]
  <2> SUFFICES ASSUME NEW x \in X
               PROVE  /\ x.cell \in Cells /\ x.pos \in Nat /\ x.pos <= p
                      /\ s \in seqs[x.cell] /\ x.pos = pos[x.cell]
    OBVIOUS
  <2>1. x.pos = pos[x.cell]
    BY <1>3
  <2>2. x.cell \in Cells /\ s \in seqs[x.cell] /\ pos[x.cell] >= 0
    BY <1>3 DEF Of
  <2> QED BY <1>2, <1>3, <2>1, <2>2
<1>5. \A x, y \in X : x.cell = y.cell => x = y
  BY <1>3
<1>6. ASSUME NEW c \in Cells, Has(s, c, pos, seqs), pos[c] <= p
      PROVE  \E x \in X : x.cell = c /\ x.pos = pos[c]
  <2>1. c \in Of(s, pos, seqs)
    BY <1>6 DEF Of, Has
  <2>2. [cell |-> c, pos |-> pos[c]] \in X
    BY <1>6, <2>1 DEF SeenUpTo
  <2> QED BY <2>2
<1>7. IsFiniteSet(X)
  <2> DEFINE h == [x \in X |-> x.cell]
  <2>1. h \in [X -> Cells] /\ \A x, y \in X : h[x] = h[y] => x = y
    BY <1>4, <1>5
  <2>2. h \in Injection(X, Cells)
    BY <2>1 DEF Injection, IsInjective
  <2> QED BY <2>2, Constants, FS_Injection
<1> QED BY <1>4, <1>5, <1>6, <1>7

(* What a query may read exact: entries of the old tail that are among its *)
(* newest, and tokens of the ubatch up to its own.                         *)
Visible(s, p) ==
    {e \in History(s) \cup Current(s) :
        e.gen = gen[e.cell] /\ s \in seqs[e.cell] /\ pos[e.cell] <= p /\ e.pos <= p}

(* The old tail, as a query of token i sees it: it is all before the       *)
(* ubatch, follows the cells back without a gap, and is as long as the     *)
(* sequence unless it has N entries or is degraded.                        *)
LEMMA OldTail ==
    ASSUME TailInv, batch # None, NEW i \in DOMAIN batch.ub, NEW s, s = batch.ub[i].seq,
           NEW B, B = batch.tail[s].entries
    PROVE  /\ s \in Seqs /\ batch.ub[i].pos \in Nat /\ IsFiniteSet(B)
           /\ \A e \in B : e.pos < batch.ub[i].pos
           /\ \A e, f \in B : e.cell = f.cell => e = f
           /\ \A c \in Cells \ Taken(batch.ub) : s \in seqs[c] => pos[c] < batch.ub[i].pos
           /\ \A e \in B, c \in Cells \ Taken(batch.ub) :
                 Has(s, c, pos, seqs) /\ pos[c] > e.pos => \E f \in B : f.cell = c
           /\ \A e \in B, c \in Cells : s \in seqs[c] /\ pos[c] = e.pos => e.cell = c
           /\ \A c \in Cells \ Taken(batch.ub) :
                 /\ Has(s, c, pos, seqs) /\ (\A f \in B : f.cell # c)
                 /\ ~batch.tail[s].degraded
                 => Cardinality(B) >= NTokens
<1>1. PICK ub : ub = batch.ub
  OBVIOUS
<1>2. Placed(ub) /\ Apart(pos, seqs)
  BY <1>1 DEF TailInv, Running
<1>3. s \in Seqs /\ ub[i].pos \in Nat
  BY <1>1, <1>2 DEF Placed, Tokens
<1>4. Good(batch.tail[s], s, OldPos, OldSeqs, batch.gen)
  BY <1>3 DEF TailInv, Running
<1>5. /\ Separate(B) /\ Suffix(B, s, OldPos, OldSeqs)
      /\ Covered(batch.tail[s], Cardinality(Of(s, OldPos, OldSeqs)))
  BY <1>4 DEF Good
<1>6. \A f \in B : /\ f.cell \in Cells \ Taken(ub) /\ f.pos \in Nat
                   /\ s \in seqs[f.cell] /\ pos[f.cell] = f.pos
  BY <1>1, <1>3, Candidates
<1>7. \A c \in Cells \ Taken(ub) : s \in seqs[c] => pos[c] < ub[i].pos
  BY <1>1, <1>2 DEF Placed
<1>8. \A e \in B : e.pos < ub[i].pos
  BY <1>6, <1>7
<1>9. \A e, f \in B : e.cell = f.cell => e = f
  <2> SUFFICES ASSUME NEW e \in B, NEW f \in B, e.cell = f.cell PROVE e = f
    OBVIOUS
  <2>1. e.pos = f.pos
    BY <1>6
  <2>2. \A x, y \in B : x.pos = y.pos \/ x.slot = y.slot => x = y
    BY <1>5 DEF Separate
  <2> QED BY <2>1, <2>2
<1>10. \A c \in Cells \ Taken(ub) : /\ OldPos[c] = pos[c] /\ OldSeqs[c] = seqs[c]
                                    /\ Has(s, c, OldPos, OldSeqs) <=> Has(s, c, pos, seqs)
  BY <1>1 DEF OldPos, OldSeqs, Has
<1>11. \A e \in B, c \in Cells \ Taken(ub) :
          Has(s, c, pos, seqs) /\ pos[c] > e.pos => \E f \in B : f.cell = c
  BY <1>5, <1>10 DEF Suffix
<1>12. \A e \in B, c \in Cells : s \in seqs[c] /\ pos[c] = e.pos => e.cell = c
  BY <1>2, <1>6 DEF Apart
<1>13. ASSUME NEW c \in Cells \ Taken(ub), Has(s, c, pos, seqs), \A f \in B : f.cell # c,
              ~batch.tail[s].degraded
       PROVE  Cardinality(B) >= NTokens
  <2>1. PICK K : K = Of(s, OldPos, OldSeqs)
    OBVIOUS
  <2>2. IsFiniteSet(K) /\ Cardinality(K) \in Nat
    BY <2>1, OfFinite
  <2>3. c \in K
    BY <1>10, <1>13, <2>1 DEF Of, Has
  <2>4. \A f \in B : f.cell \in K \ {c}
    BY <1>6, <1>10, <1>13, <2>1 DEF Of
  <2>5. IsFiniteSet(K \ {c}) /\ Cardinality(K \ {c}) = Cardinality(K) - 1
    BY <2>2, <2>3, FS_RemoveElement
  <2> DEFINE h == [f \in B |-> f.cell]
  <2>6. h \in [B -> K \ {c}] /\ \A e, f \in B : h[e] = h[f] => e = f
    BY <1>9, <2>4
  <2>7. h \in Injection(B, K \ {c})
    BY <2>6 DEF Injection, IsInjective
  <2> HIDE DEF h
  <2>8. Cardinality(B) <= Cardinality(K \ {c})
    BY <2>5, <2>7, FS_Injection
  <2>9. IsFiniteSet(B)
    BY <1>5 DEF Separate
  <2>10. Cardinality(B) \in Nat
    BY <2>9, FS_CardinalityType
  <2>11. Cardinality(B) >= NTokens \/ Cardinality(B) >= Cardinality(K)
    BY <1>5, <1>13, <2>1 DEF Covered
  <2> QED BY <2>2, <2>5, <2>8, <2>10, <2>11
<1>14. IsFiniteSet(B)
  BY <1>5 DEF Separate
<1> QED BY <1>1, <1>3, <1>7, <1>8, <1>9, <1>11, <1>12, <1>13, <1>14

(* What is visible is what is newest of what is seen, and is N deep.       *)
LEMMA VisibleIs ==
    ASSUME TailInv, batch # None, NEW i \in DOMAIN batch.ub, NEW s, s = batch.ub[i].seq,
           NEW p, p = batch.ub[i].pos, ~batch.tail[s].degraded,
           NEW V, V = Visible(s, p), NEW X, X = SeenUpTo(s, p)
    PROVE  /\ \A v, w \in V : v.cell = w.cell => v = w
           /\ \A v \in V : \E x \in X : x.cell = v.cell /\ x.pos = v.pos
           /\ \A v \in V, x \in X : x.pos > v.pos => \E w \in V : w.cell = x.cell
           /\ \A x \in X : Cardinality(LaterIn(X, x.pos)) < NTokens =>
                 \E v \in V : v.cell = x.cell
<1>1. PICK B, C, T : B = batch.tail[s].entries /\ C = Current(s) /\ T = Taken(batch.ub)
  OBVIOUS
<1> DEFINE H == {e \in B : Cardinality({f \in B : f.pos > e.pos}) < NTokens}
<1>2. /\ s \in Seqs /\ p \in Nat /\ IsFiniteSet(B)
      /\ \A e \in B : e.pos < p
      /\ \A e, f \in B : e.cell = f.cell => e = f
      /\ \A c \in Cells \ T : s \in seqs[c] => pos[c] < p
      /\ \A e \in B, c \in Cells \ T :
            Has(s, c, pos, seqs) /\ pos[c] > e.pos => \E f \in B : f.cell = c
      /\ \A e \in B, c \in Cells : s \in seqs[c] /\ pos[c] = e.pos => e.cell = c
      /\ \A c \in Cells \ T :
            Has(s, c, pos, seqs) /\ (\A f \in B : f.cell # c) => Cardinality(B) >= NTokens
  BY <1>1, OldTail
<1>3. \A f \in B : /\ f.cell \in Cells \ T /\ f.pos \in Nat /\ s \in seqs[f.cell]
                   /\ pos[f.cell] = f.pos /\ gen[f.cell] = f.gen
  <2>1. s \in Seqs
    BY <1>2
  <2>2. \A f \in batch.tail[s].entries :
           /\ f.cell \in Cells \ Taken(batch.ub) /\ f.pos \in Nat /\ s \in seqs[f.cell]
           /\ pos[f.cell] = f.pos /\ gen[f.cell] = f.gen
    BY <2>1, Candidates
  <2> QED BY <1>1, <2>2
<1>4. /\ \A f \in C : /\ f.cell \in T /\ f.cell \in Cells /\ f.pos \in Nat /\ s \in seqs[f.cell]
                      /\ pos[f.cell] = f.pos /\ gen[f.cell] = f.gen
      /\ \A f, h \in C : f.cell = h.cell => f = h
      /\ \A c \in T : s \in seqs[c] => \E f \in C : f.cell = c
  <2>1. s \in Seqs
    BY <1>2
  <2>2. \A f \in Current(s) :
           /\ f.cell \in Taken(batch.ub) /\ f.cell \in Cells /\ f.pos \in Nat
           /\ s \in seqs[f.cell] /\ pos[f.cell] = f.pos /\ gen[f.cell] = f.gen
    BY <2>1, Candidates
  <2>3. /\ \A f, h \in Current(s) : f.cell = h.cell => f = h
        /\ \A c \in Taken(batch.ub) : s \in seqs[c] => \E f \in Current(s) : f.cell = c
    BY <2>1, Candidates
  <2> QED BY <1>1, <2>2, <2>3
<1>5. \A f \in C, c \in Cells \ T : s \in seqs[c] => pos[c] < f.pos
  <2> SUFFICES ASSUME NEW f \in C, NEW c \in Cells \ T, s \in seqs[c] PROVE pos[c] < f.pos
    OBVIOUS
  <2>0. s \in Seqs /\ f \in Current(s)
    BY <1>1, <1>2
  <2>1. PICK j \in DOMAIN batch.ub : batch.ub[j].seq = s /\ f.pos = batch.ub[j].pos
    BY ONLY <2>0, TailInv, batch # None, Candidates
  <2>2. Placed(batch.ub)
    BY DEF TailInv, Running
  <2> QED BY <1>1, <2>1, <2>2 DEF Placed
<1>6. V = {e \in H \cup C :
             e.gen = gen[e.cell] /\ s \in seqs[e.cell] /\ pos[e.cell] <= p /\ e.pos <= p}
  BY <1>1 DEF Visible, History, NewestOf
<1>7. /\ \A f \in B : Cardinality({g \in B : g.pos > f.pos}) < NTokens => f \in V
      /\ \A f \in C : f.pos <= p => f \in V
      /\ \A v \in V : v \in B \/ v \in C
      /\ \A v \in V : v \in B => Cardinality({g \in B : g.pos > v.pos}) < NTokens \/ v \in C
      /\ \A v \in V : v.pos <= p
  <2>1. \A f \in B : Cardinality({g \in B : g.pos > f.pos}) < NTokens => f \in V
    <3> SUFFICES ASSUME NEW f \in B, Cardinality({g \in B : g.pos > f.pos}) < NTokens PROVE f \in V
      OBVIOUS
    <3>1. f \in H /\ f.pos <= p
      BY <1>2, <1>3
    <3> HIDE DEF H
    <3> QED BY <1>3, <1>6, <3>1
  <2>2. \A f \in C : f.pos <= p => f \in V
    BY <1>4, <1>6
  <2>3. \A v \in V : v \in H \cup C /\ v.pos <= p
    BY <1>6
  <2> QED BY <2>1, <2>2, <2>3
<1> HIDE DEF H
<1>8. /\ IsFiniteSet(X)
      /\ \A x \in X : /\ x.cell \in Cells /\ x.pos \in Nat /\ x.pos <= p
                      /\ s \in seqs[x.cell] /\ x.pos = pos[x.cell]
      /\ \A x, y \in X : x.cell = y.cell => x = y
      /\ \A c \in Cells : Has(s, c, pos, seqs) /\ pos[c] <= p =>
            \E x \in X : x.cell = c /\ x.pos = pos[c]
  BY ONLY TailInv, X = SeenUpTo(s, p), SeenIs
<1>9. \A x \in X : Has(s, x.cell, pos, seqs)
  BY <1>8 DEF Has
<1>10. \A v, w \in V : v.cell = w.cell => v = w
  BY <1>2, <1>3, <1>4, <1>7
<1>11. ASSUME NEW e, e \in B \/ e \in C, e.pos <= p
       PROVE  \E x \in X : x.cell = e.cell /\ x.pos = e.pos
  <2>1. e.cell \in Cells /\ s \in seqs[e.cell] /\ pos[e.cell] = e.pos /\ e.pos \in Nat
    BY <1>3, <1>4, <1>11
  <2>2. Has(s, e.cell, pos, seqs)
    BY <2>1 DEF Has
  <2> QED BY <1>8, <1>11, <2>1, <2>2
<1>12. \A v \in V : \E x \in X : x.cell = v.cell /\ x.pos = v.pos
  BY <1>7, <1>11
<1>13. ASSUME NEW x \in X, x.cell \in T
       PROVE  \E w \in V : w.cell = x.cell
  <2>1. PICK f \in C : f.cell = x.cell
    BY <1>4, <1>8, <1>13
  <2>2. f.pos <= p
    BY <1>4, <1>8, <2>1
  <2> QED BY <1>7, <2>1, <2>2
<1>14. ASSUME NEW v \in V, NEW x \in X, x.pos > v.pos, x.cell \notin T
       PROVE  \E w \in V : w.cell = x.cell
  <2>1. v \notin C
    BY <1>4, <1>5, <1>8, <1>14
  <2>2. v \in B /\ Cardinality({g \in B : g.pos > v.pos}) < NTokens
    BY <1>7, <2>1
  <2>3. PICK f \in B : f.cell = x.cell
    BY <1>2, <1>8, <1>9, <1>14, <2>2
  <2>4. f.pos > v.pos
    BY <1>3, <1>8, <1>14, <2>3
  <2>5. PICK P, Q : P = {g \in B : g.pos > f.pos} /\ Q = {g \in B : g.pos > v.pos}
    OBVIOUS
  <2>6. Q \in SUBSET B
    BY <2>5
  <2>7. P \in SUBSET Q
    BY <1>3, <2>2, <2>4, <2>5
  <2>8. IsFiniteSet(Q)
    BY <1>2, <2>6, FS_Subset
  <2>9. IsFiniteSet(P) /\ Cardinality(P) <= Cardinality(Q)
    BY <2>7, <2>8, FS_Subset
  <2>10. Cardinality(P) \in Nat /\ Cardinality(Q) \in Nat /\ NTokens \in Nat
    BY <2>8, <2>9, FS_CardinalityType, Constants
  <2>11. Cardinality(P) < NTokens
    BY <2>2, <2>5, <2>9, <2>10
  <2> QED BY <1>7, <2>3, <2>5, <2>11
<1>15. ASSUME NEW x \in X, x.cell \notin T, Cardinality(LaterIn(X, x.pos)) < NTokens
       PROVE  \E v \in V : v.cell = x.cell
  <2>1. PICK Q : Q = {y \in X : y.pos > x.pos} /\ Q = LaterIn(X, x.pos)
    BY DEF LaterIn
  <2>2. Q \in SUBSET X
    BY <2>1
  <2>3. IsFiniteSet(Q) /\ \A a, b \in Q : a.cell = b.cell => a = b
    BY <1>8, <2>2, FS_Subset
  <2>4. Cardinality(Q) \in Nat /\ Cardinality(Q) < NTokens /\ NTokens \in Nat
    BY <1>15, <2>1, <2>3, FS_CardinalityType, Constants
  <2>5. ASSUME NEW P \in SUBSET B, \A g \in P : g.pos > x.pos
        PROVE  Cardinality(P) < NTokens
    <3>1. \A a, b \in P : a.cell = b.cell => a = b
      BY <1>2
    <3>2. \A a \in P : \E b \in Q : b.cell = a.cell
      <4> SUFFICES ASSUME NEW a \in P PROVE \E b \in Q : b.cell = a.cell
        OBVIOUS
      <4>1. a \in B /\ a.pos <= p /\ a.pos > x.pos
        BY <1>2, <1>3, <2>5
      <4>2. PICK b \in X : b.cell = a.cell /\ b.pos = a.pos
        BY <1>11, <4>1
      <4> QED BY <2>1, <4>1, <4>2
    <3>3. IsFiniteSet(P) /\ Cardinality(P) <= Cardinality(Q)
      BY ONLY <2>3, <3>1, <3>2, CellsCompare
    <3>4. Cardinality(P) \in Nat
      BY <3>3, FS_CardinalityType
    <3> QED BY <2>4, <3>3, <3>4
  <2>6. CASE \E f \in B : f.cell = x.cell
    <3>1. PICK f \in B : f.cell = x.cell
      BY <2>6
    <3>2. f.pos = x.pos
      BY <1>3, <1>8, <3>1
    <3>3. PICK P : P = {g \in B : g.pos > f.pos}
      OBVIOUS
    <3>4. P \in SUBSET B /\ \A g \in P : g.pos > x.pos
      BY <3>2, <3>3
    <3>5. Cardinality(P) < NTokens
      BY <2>5, <3>4
    <3> QED BY <1>7, <3>1, <3>3, <3>5
  <2>7. CASE \A f \in B : f.cell # x.cell
    <3>1. \A g \in B : g.pos > x.pos
      <4> SUFFICES ASSUME NEW g \in B PROVE g.pos > x.pos
        OBVIOUS
      <4>1. g.pos # x.pos
        BY <1>2, <1>8, <2>7
      <4>2. ~(x.pos > g.pos)
        BY <1>2, <1>8, <1>9, <1>15, <2>7
      <4> QED BY <1>3, <1>8, <4>1, <4>2
    <3>2. Cardinality(B) < NTokens
      BY <2>5, <3>1
    <3>3. Cardinality(B) >= NTokens
      BY <1>2, <1>8, <1>9, <1>15, <2>7
    <3>4. Cardinality(B) \in Nat
      BY <1>2, FS_CardinalityType
    <3> QED BY <2>4, <3>2, <3>3, <3>4
  <2> QED BY <2>6, <2>7
<1>16. \A v \in V, x \in X : x.pos > v.pos => \E w \in V : w.cell = x.cell
  BY <1>13, <1>14
<1>17. \A x \in X : Cardinality(LaterIn(X, x.pos)) < NTokens =>
          \E v \in V : v.cell = x.cell
  BY <1>13, <1>15
<1> QED BY <1>10, <1>12, <1>16, <1>17

(* Unless its tail is marked degraded, a sequence's newest N cells are     *)
(* read exact: a rollback within the reserve, a copy or a failure cannot   *)
(* leave an unmarked gap.                                                  *)
THEOREM TailNewestAreExact == Spec => []NewestAreExact
<1>1. TailInv => NewestAreExact
  <2> SUFFICES ASSUME TailInv, batch # None, NEW i \in DOMAIN batch.ub,
                      NEW s, s = batch.ub[i].seq, ~batch.tail[s].degraded
               PROVE  {e.cell : e \in Exact(i)} =
                      {e.cell : e \in NewestOf(SeenUpTo(s, batch.ub[i].pos), NTokens)}
    BY DEF NewestAreExact, SeenUpTo
  <2>1. PICK p, V, X : p = batch.ub[i].pos /\ V = Visible(s, p) /\ X = SeenUpTo(s, p)
    OBVIOUS
  <2>2. Exact(i) = NewestOf(V, NTokens)
    BY <2>1 DEF Exact, Visible
  <2>3. /\ \A v, w \in V : v.cell = w.cell => v = w
        /\ \A v \in V : \E x \in X : x.cell = v.cell /\ x.pos = v.pos
        /\ \A v \in V, x \in X : x.pos > v.pos => \E w \in V : w.cell = x.cell
        /\ \A x \in X : Cardinality(LaterIn(X, x.pos)) < NTokens =>
              \E v \in V : v.cell = x.cell
    BY <2>1, VisibleIs
  <2>4. /\ IsFiniteSet(X) /\ \A x \in X : x.pos \in Nat
        /\ \A x, y \in X : x.cell = y.cell => x = y
    BY <2>1, SeenIs
  <2>5. NTokens \in Nat
    BY Constants
  <2>6. CellsOf(NewestOf(V, NTokens)) = CellsOf(NewestOf(X, NTokens))
    BY ONLY <2>3, <2>4, <2>5, NewestCoincide
  <2> QED BY <2>1, <2>2, <2>6 DEF CellsOf
<1> QED BY <1>1, TailInvariant, PTL

(* Nobody writes to the rows of a sequence that is not in the ubatch.      *)
LEMMA NoWriters ==
    ASSUME TailInv, batch # None, NEW s \in Seqs \ UbSeqs(batch.ub), NEW i
    PROVE  Writers(s, i) = {}
<1>1. \A w \in batch.writes : w.seq \in UbSeqs(batch.ub)
  BY DEF TailInv, Running
<1> QED BY <1>1 DEF Writers

(* A graph that computes leaves the other tails as they were.              *)
LEMMA ComputesLocal ==
    ASSUME TailInv, GraphComputes, NEW s \in Seqs \ UbSeqs(batch.ub)
    PROVE  tail'[s] = batch.tail[s] /\ rows'[s] = rows[s]
<1>1. batch # None /\ tail' = tail
  BY DEF GraphComputes
<1>2. tail[s] = batch.tail[s] /\ rows \in [Seqs -> [Slots -> Cells \cup {Stale, Raced}]]
  BY <1>1 DEF TailInv, Running, RowsType
<1>3. \A i \in Slots : Writers(s, i) = {}
  BY <1>1, NoWriters
<1>4. rows'[s] = [i \in Slots |->
                   CASE Writers(s, i) = {} -> rows[s][i]
                     [] Cardinality(Writers(s, i)) = 1 -> (CHOOSE w \in Writers(s, i) : TRUE).cell
                     [] OTHER -> Raced]
  BY DEF GraphComputes
<1>5. \A i \in Slots : rows'[s][i] = rows[s][i]
  <2> SUFFICES ASSUME NEW i \in Slots PROVE rows'[s][i] = rows[s][i]
    OBVIOUS
  <2>1. Writers(s, i) = {} /\ Cardinality({}) = 0
    BY <1>3, FS_EmptySet
  <2>2. rows'[s][i] = CASE Writers(s, i) = {} -> rows[s][i]
                        [] Cardinality(Writers(s, i)) = 1 -> (CHOOSE w \in Writers(s, i) : TRUE).cell
                        [] OTHER -> Raced
    BY <1>4
  <2>3. Cardinality(Writers(s, i)) # 1
    BY <2>1
  <2> QED BY <2>1, <2>2, <2>3
<1>6. rows'[s] = [i \in Slots |-> rows'[s][i]] /\ rows[s] = [i \in Slots |-> rows[s][i]]
  BY <1>2, <1>4
<1>7. rows'[s] = rows[s]
  BY <1>5, <1>6
<1> QED BY <1>1, <1>2, <1>7

(* A graph that fails gives the other tails back, rows included.           *)
LEMMA FailsLocal ==
    ASSUME TailInv, NEW modified \in BOOLEAN, GraphFails(modified),
           NEW s \in Seqs \ UbSeqs(batch.ub)
    PROVE  tail'[s] = batch.tail[s] /\ rows'[s] = rows[s]
<1> DEFINE rs == [x \in Seqs |-> [i \in Slots |->
                    IF modified /\ Writers(x, i) # {} THEN Stale ELSE rows[x][i]]]
<1>1. PICK r : r = Removed(RolledBack(modified), pos, seqs, FirstPos)
  OBVIOUS
<1>2. batch # None /\ tail' = r.tail /\ rows' = Held(rs, tail')
  BY <1>1 DEF GraphFails, FirstPos, UbSeqs
<1>3. /\ batch.affected = UbSeqs(batch.ub) /\ RowsGood(batch.tail[s], rows[s])
      /\ rows \in [Seqs -> [Slots -> Cells \cup {Stale, Raced}]]
  BY <1>2 DEF TailInv, Running, RowsType
<1>4. s \notin DOMAIN FirstPos
  BY DEF FirstPos
<1>5. r.tail[s] = RolledBack(modified)[s]
  BY <1>1, <1>4 DEF Removed
<1>6. RolledBack(modified)[s] = batch.tail[s]
  BY <1>3 DEF RolledBack
<1>7. tail'[s] = batch.tail[s]
  BY <1>2, <1>5, <1>6
<1>8. rows'[s] = [i \in Slots |-> IF i \in tail'[s].used THEN rs[s][i] ELSE Stale]
  BY <1>2 DEF Held
<1>9. ASSUME NEW i \in Slots PROVE rows'[s][i] = rows[s][i]
  <2>1. Writers(s, i) = {}
    BY <1>2, NoWriters
  <2>2. rs[s][i] = rows[s][i]
    BY <2>1
  <2>3. i \notin batch.tail[s].used => rows[s][i] = Stale
    BY <1>3 DEF RowsGood
  <2> HIDE DEF rs
  <2> QED BY <1>7, <1>8, <2>2, <2>3
<1> HIDE DEF rs
<1>10. rows'[s] = [i \in Slots |-> rows'[s][i]] /\ rows[s] = [i \in Slots |-> rows[s][i]]
  BY <1>3, <1>8
<1>11. rows'[s] = rows[s]
  BY <1>9, <1>10
<1> QED BY <1>7, <1>11

(* An ubatch, failed or not, costs the sequences in it only: every other   *)
(* tail and its rows are what they were before.                            *)
THEOREM TailFailureIsLocal == Spec => FailureIsLocal
<1>1. TailInv /\ [Next]_vars =>
      [batch # None /\ batch' = None =>
        \A s \in Seqs \ {batch.ub[i].seq : i \in DOMAIN batch.ub} :
            tail'[s] = batch.tail[s] /\ rows'[s] = rows[s]]_vars
  <2> SUFFICES ASSUME TailInv, Next, batch # None, batch' = None, NEW s \in Seqs \ UbSeqs(batch.ub)
               PROVE  tail'[s] = batch.tail[s] /\ rows'[s] = rows[s]
    BY DEF UbSeqs
  <2>1. ASSUME NEW x \in Seqs, NEW p0, SeqRm(x, p0) PROVE FALSE
    BY <2>1 DEF SeqRm
  <2>2. ASSUME NEW src \in Seqs, NEW dst \in Seqs, CopyState(src, dst) PROVE FALSE
    BY <2>2 DEF CopyState
  <2>3. ASSUME UpdateCopies \/ UpdateFails \/ Clear PROVE FALSE
    BY <2>3 DEF UpdateCopies, UpdateFails, Clear
  <2>4. ASSUME Decode PROVE FALSE
    <3>1. PICK n, q, at : ApplyUbatch(n, q, at)
      BY <2>4 DEF Decode
    <3> QED BY <3>1 DEF ApplyUbatch
  <2>5. CASE GraphComputes
    BY <2>5, ComputesLocal
  <2>6. ASSUME NEW modified \in BOOLEAN, GraphFails(modified)
        PROVE  tail'[s] = batch.tail[s] /\ rows'[s] = rows[s]
    BY <2>6, FailsLocal
  <2> QED BY <2>1, <2>2, <2>3, <2>4, <2>5, <2>6 DEF Next
<1> QED BY <1>1, TailInvariant, PTL DEF Spec, FailureIsLocal

=============================================================================
