-------------------------- MODULE KvarnAllocProofs --------------------------
(***************************************************************************)
(* The structured allocator keeps its stage slots apart, and its groups to *)
(* one sequence each, for any group size, cache, ring and batch.           *)
(*                                                                         *)
(* The invariant speaks of the cache as it will be when the batch is in    *)
(* it: the cells before the dry run of prepare() (Base) and the cells      *)
(* found so far (plan) together.  No step of the dry run, of its undoing   *)
(* or of the second, real application of the ubatches changes that; only   *)
(* find_slot and the edits between batches do.                             *)
(*                                                                         *)
(* A second invariant (from Holds on) says where the heads are: a sequence *)
(* fills one group at a time, row by row, in the order of its positions,   *)
(* so that the head that an edit rebuilds from the positions is in that    *)
(* group again.                                                            *)
(*                                                                         *)
(* A third says where the rows are, and so that attention reads what was   *)
(* stored.  It holds if no group loses its stage slot to one that          *)
(* find_slot fills without a slot (StageKept): no ubatch has the tokens of *)
(* a whole group, or there is only one sequence.  Otherwise it does not:   *)
(* see the run kvarn_fills_here.                                           *)
(***************************************************************************)
EXTENDS KvarnAlloc, QueueLemmas

DryRun == {"seed", "find", "emplace"}

(* The cells without the dry run's.                                        *)
Base == IF pc \in DryRun THEN saved[2] ELSE seqs

(* The number of tokens that are in their cells.                           *)
Applied ==
    IF pc \in DryRun THEN FirstOf(UbatchOf(at)) - 1
    ELSE IF pc = "apply" THEN at - 1
    ELSE IF pc \in {"store", "attend"} THEN LastOf(UbatchOf(at))
    ELSE 0

(* Where the phases of a decode stand in the batch.                        *)
Phase ==
    /\ pc \in {"idle", "failed"} => batch = <<>> /\ plan = <<>> /\ at = 1
    /\ pc \notin {"idle", "failed"} => at \in 1 .. Len(batch)
    /\ pc \in {"seed", "emplace", "apply"} => at = FirstOf(UbatchOf(at))
    /\ pc = "attend" => at = LastOf(UbatchOf(at))
    /\ pc \in {"seed", "find"} => Len(plan) = at - 1
    /\ pc = "emplace" => Len(plan) = LastOf(UbatchOf(at))
    /\ pc \in {"apply", "store", "attend"} => Len(plan) = Len(batch)

(* The copy that prepare() has made.                                       *)
SavedCells ==
    /\ pc \in DryRun =>
          /\ saved \in [Cells -> -1 .. MaxLen - 1] \X [Cells -> SUBSET Seqs]
          /\ \A c \in Cells : saved[1][c] = -1 <=> saved[2][c] = {}
    /\ pc \notin DryRun => saved = <<>>

(* The tokens of sequence s after the first n.                             *)
Todo(s, n) == {t \in 1 .. Len(batch) : t > n /\ batch[t] = s}

(* The positions of the tokens still to come are within the bound.         *)
RoomFor(ps, sq, n) ==
    \A s \in Seqs :
        /\ Cardinality(Todo(s, n)) <= MaxLen
        /\ \A c \in Cells : s \in sq[c] => ps[c] + Cardinality(Todo(s, n)) < MaxLen

Room ==
    /\ RoomFor(pos, seqs, Applied)
    /\ pc \in DryRun => RoomFor(saved[1], saved[2], 0)

(* find_slot gives every token a cell of its own.                          *)
OwnCells == \A t, v \in 1 .. Len(plan) : plan[t] = plan[v] => t = v

(* The cells are the base with the applied tokens on top, each in a cell   *)
(* that was free.                                                          *)
Overlay ==
    /\ \A t \in 1 .. Len(plan) : t <= Applied => seqs[plan[t]] = {batch[t]}
    /\ pc \in DryRun =>
          /\ \A t \in 1 .. Len(plan) : saved[2][plan[t]] = {}
          /\ \A c \in Cells :
                \/ seqs[c] = saved[2][c]
                \/ \E t \in 1 .. Len(plan) : t <= Applied /\ plan[t] = c

(* Sequence s has a cell in group g, or will have one.                     *)
Claims(s, g) ==
    \/ \E c \in CellsOf(g) : s \in Base[c]
    \/ \E t \in 1 .. Len(plan) : Group(plan[t]) = g /\ batch[t] = s

(* One sequence to a group, but for what seq_cp has shared and no token    *)
(* goes to.                                                                *)
OneClaim ==
    \A g \in Groups :
        (g \notin copied \/ \E t \in 1 .. Len(plan) : Group(plan[t]) = g) =>
            \A r, s \in Seqs : Claims(r, g) /\ Claims(s, g) => r = s

-----------------------------------------------------------------------------
(* The cells of group g that are occupied, or will be.                     *)
Filled(g) == {c \in CellsOf(g) : Base[c] # {} \/ \E t \in 1 .. Len(plan) : plan[t] = c}

(* Once the batch is in: some rows of the group are in the stage only.     *)
Incomplete(g) == g > 0 /\ Filled(g) # {} /\ Filled(g) # CellsOf(g) /\ ~sealed[g]

(* The group that find_slot has begun without taking a stage slot for it:  *)
(* the rest of the ubatch is one sequence's and is enough to fill it.      *)
Filling(g) ==
    LET k == Len(plan)
        u == UbatchOf(k)
    IN /\ k > 0 /\ k <= Len(batch) /\ plan[k] \in CellsOf(g)
       /\ Filled(g) = G * g .. plan[k]
       /\ \A d \in CellsOf(g) : seqs[d] = {}
       /\ \A t, v \in TokensOf(u) : batch[t] = batch[v]
       /\ LastOf(u) - k >= G * g + G - 1 - plan[k]

(* Two incomplete groups need different stage slots.                       *)
SlotsApart ==
    pc \notin {"failed", "find"} =>
        \A g, h \in Groups :
            Incomplete(g) /\ Incomplete(h) /\ stage_slot(g) = stage_slot(h) => g = h

(* Within a find_slot call the owner of a stage slot is known.             *)
SlotsOwned ==
    pc = "find" => \A g \in Groups :
        /\ Incomplete(g) => owners[stage_slot(g)] = g \/ Filling(g)
        /\ g > 0 /\ sealed[g] => Filled(g) # {}

(* A full group is sealed.                                                 *)
FullSealed ==
    pc # "failed" => \A g \in Groups : g > 0 /\ Filled(g) = CellsOf(g) => sealed[g]

IInv ==
    /\ TypeOK /\ NoStageAlias /\ Phase /\ SavedCells /\ Room /\ OwnCells /\ Overlay
    /\ OneClaim /\ SlotsApart /\ SlotsOwned /\ FullSealed

-----------------------------------------------------------------------------
(* Division with remainder.                                                *)
LEMMA DivMod ==
    ASSUME NEW n \in Nat \ {0}, NEW a \in Nat
    PROVE  /\ a \div n \in Nat /\ n * (a \div n) <= a /\ a < n * (a \div n) + n
           /\ a % n \in 0 .. n - 1 /\ a % n = a - n * (a \div n)
<1>1. a \div n \in Nat
  OBVIOUS
<1>2. n * (a \div n) <= a
  OBVIOUS
<1>3. a < n * (a \div n) + n
  OBVIOUS
<1>4. a % n \in 0 .. n - 1
  OBVIOUS
<1>5. a % n = a - n * (a \div n)
  OBVIOUS
<1> QED BY <1>1, <1>2, <1>3, <1>4, <1>5

(* The quotient is the one number whose multiple is just below.            *)
LEMMA DivUnique ==
    ASSUME NEW n \in Nat \ {0}, NEW q \in Nat, NEW a \in Nat, n * q <= a, a < n * q + n
    PROVE  a \div n = q
  OBVIOUS

(* A smaller factor, a smaller product.                                    *)
LEMMA MulMono ==
    ASSUME NEW n \in Nat, NEW p \in Nat, NEW q \in Nat, p < q
    PROVE  n * p + n <= n * q /\ n * p \in Nat /\ n * q \in Nat
<1>1. p + 1 <= q
  OBVIOUS
<1>2. n * (p + 1) <= n * q
  BY <1>1
<1>3. n * (p + 1) = n * p + n
  OBVIOUS
<1>4. n * p \in Nat /\ n * q \in Nat
  OBVIOUS
<1> QED BY <1>2, <1>3, <1>4

(* A cell is in one group of the cache.                                    *)
LEMMA CellGroup ==
    ASSUME NEW c \in Cells
    PROVE  /\ c \in Nat /\ Group(c) \in Groups /\ c \in CellsOf(Group(c)) /\ Group(c) \in Nat
           /\ Row(c) \in 0 .. G - 1 /\ Row(c) = c - G * Group(c)
<1>1. G \in Nat \ {0} /\ NGroups \in Nat /\ NCells = G * NGroups /\ NCells \in Nat
  BY AllocAssumption DEF NCells
<1>2. c \in Nat /\ c < NCells
  BY <1>1 DEF Cells
<1> DEFINE q == c \div G
<1>3. /\ q \in Nat /\ G * q <= c /\ c < G * q + G
      /\ Row(c) \in 0 .. G - 1 /\ Row(c) = c - G * q
  BY <1>1, <1>2, DivMod DEF Row
<1> HIDE DEF q
<1>4. q < NGroups
  <2> SUFFICES ASSUME ~(q < NGroups) PROVE FALSE
    OBVIOUS
  <2>1. CASE q = NGroups
    BY <1>1, <1>2, <1>3, <2>1
  <2>2. CASE NGroups < q
    <3>1. G * NGroups + G <= G * q
      BY <1>1, <1>3, <2>2, MulMono
    <3>2. G * q \in Nat /\ G * NGroups \in Nat
      BY <1>1, <1>3
    <3> QED BY <1>1, <1>2, <1>3, <3>1, <3>2
  <2> QED BY <1>1, <1>3, <2>1, <2>2
<1>5. q \in Groups
  BY <1>1, <1>3, <1>4 DEF Groups
<1>6. c \in CellsOf(q)
  BY <1>1, <1>2, <1>3 DEF CellsOf
<1>7. q = Group(c)
  BY DEF q, Group
<1> QED BY <1>2, <1>3, <1>5, <1>6, <1>7

(* The cells of a group of the cache are cells, and of that group.         *)
LEMMA GroupCells ==
    ASSUME NEW g \in Groups, NEW c \in CellsOf(g)
    PROVE  c \in Cells /\ Group(c) = g /\ Row(c) = c - G * g
<1>1. G \in Nat \ {0} /\ NGroups \in Nat /\ NCells = G * NGroups /\ NCells \in Nat
  BY AllocAssumption DEF NCells
<1>2. g \in Nat /\ g < NGroups
  BY <1>1 DEF Groups
<1>3. G * g + G <= G * NGroups /\ G * g \in Nat
  BY <1>1, <1>2, MulMono
<1>4. c \in Nat /\ G * g <= c /\ c < G * g + G
  BY <1>1, <1>3 DEF CellsOf
<1>5. c \div G = g
  BY <1>1, <1>2, <1>4, DivUnique
<1>6. c < NCells
  BY <1>1, <1>3, <1>4
<1>7. c \in Cells
  BY <1>1, <1>4, <1>6 DEF Cells
<1>8. Row(c) = c - G * g
  BY <1>1, <1>4, <1>5, DivMod DEF Row
<1> QED BY <1>5, <1>7, <1>8 DEF Group

(* The cells are finitely many, and so are those of a group.               *)
LEMMA FiniteCells ==
    IsFiniteSet(Cells) /\ \A g \in Groups : IsFiniteSet(CellsOf(g)) /\ Cardinality(CellsOf(g)) = G
<1>1. G \in Nat \ {0} /\ NGroups \in Nat /\ NCells \in Int
  BY AllocAssumption DEF NCells
<1>2. IsFiniteSet(Cells)
  BY <1>1, FS_Interval DEF Cells
<1>3. ASSUME NEW g \in Groups
      PROVE  IsFiniteSet(CellsOf(g)) /\ Cardinality(CellsOf(g)) = G
  <2>1. PICK a \in Int : a = G * g
    BY <1>1 DEF Groups
  <2>2. a + G - 1 \in Int /\ ~(a > a + G - 1) /\ (a + G - 1) - a + 1 = G
    BY <1>1, <2>1
  <2>3. IsFiniteSet(a .. (a + G - 1)) /\ Cardinality(a .. (a + G - 1)) = G
    BY <2>1, <2>2, FS_Interval
  <2> QED BY <2>1, <2>3 DEF CellsOf
<1> QED BY <1>2, <1>3

(* The ubatch of a token of the batch: where it begins and ends.           *)
LEMMA UbatchBounds ==
    ASSUME Len(batch) \in Nat, NEW t \in 1 .. Len(batch)
    PROVE  LET u == UbatchOf(t) IN
           /\ u \in Nat /\ FirstOf(u) \in 1 .. t /\ LastOf(u) \in t .. Len(batch)
           /\ LastOf(u) <= FirstOf(u) + NUbatch - 1
           /\ \A v \in FirstOf(u) .. LastOf(u) : UbatchOf(v) = u
           /\ LastOf(u) < Len(batch) => LastOf(u) + 1 = FirstOf(UbatchOf(LastOf(u) + 1))
<1> DEFINE u == UbatchOf(t)
           n == NUbatch
           L == Len(batch)
<1>1. n \in Nat \ {0} /\ t \in Nat /\ t - 1 \in Nat /\ L \in Nat
  BY AllocAssumption
<1>2. u \in Nat /\ n * u <= t - 1 /\ t - 1 < n * u + n
  BY <1>1, DivMod DEF UbatchOf
<1> HIDE DEF u
<1>3. u * n = n * u /\ (u + 1) * n = n * u + n /\ n * u \in Nat
  BY <1>1, <1>2
<1>4. FirstOf(u) = n * u + 1
  BY <1>3 DEF FirstOf
<1>5. LastOf(u) = IF n * u + n <= L THEN n * u + n ELSE L
  BY <1>3 DEF LastOf
<1>6. ASSUME NEW v \in Nat, n * u <= v - 1, v - 1 < n * u + n
      PROVE  UbatchOf(v) = u
  <2>1. v - 1 \in Nat
    BY <1>3, <1>6
  <2> QED BY <1>1, <1>2, <1>6, <2>1, DivUnique DEF UbatchOf
<1>7. LastOf(u) < L => LastOf(u) + 1 = FirstOf(UbatchOf(LastOf(u) + 1))
  <2> SUFFICES ASSUME LastOf(u) < L PROVE LastOf(u) + 1 = FirstOf(UbatchOf(LastOf(u) + 1))
    OBVIOUS
  <2>1. LastOf(u) = n * u + n
    BY <1>5
  <2>2. n * (u + 1) = n * u + n /\ u + 1 \in Nat
    BY <1>1, <1>2
  <2>3. (n * u + n) \in Nat /\ n * (u + 1) <= n * u + n /\ n * u + n < n * (u + 1) + n
    BY <1>1, <1>3, <2>2
  <2>4. (n * u + n) \div n = u + 1
    BY <1>1, <2>2, <2>3, DivUnique
  <2>5. UbatchOf(LastOf(u) + 1) = u + 1
    <3>1. PICK w \in Nat : w = n * u + n
      BY <2>3
    <3>2. w \div n = u + 1 /\ LastOf(u) = w
      BY <2>1, <2>4, <3>1
    <3>3. (w + 1) - 1 = w
      OBVIOUS
    <3>4. UbatchOf(w + 1) = w \div n
      BY <3>3 DEF UbatchOf
    <3> QED BY <3>2, <3>4
  <2>6. FirstOf(u + 1) = n * u + n + 1
    BY <1>3 DEF FirstOf
  <2> QED BY <1>1, <1>3, <2>1, <2>5, <2>6
<1>8. FirstOf(u) \in 1 .. t /\ LastOf(u) \in t .. L /\ LastOf(u) <= FirstOf(u) + n - 1
  BY <1>1, <1>2, <1>3, <1>4, <1>5
<1>9. \A v \in FirstOf(u) .. LastOf(u) : UbatchOf(v) = u
  <2> SUFFICES ASSUME NEW v \in FirstOf(u) .. LastOf(u) PROVE UbatchOf(v) = u
    OBVIOUS
  <2>1. v \in Nat /\ n * u <= v - 1 /\ v - 1 < n * u + n
    BY <1>1, <1>2, <1>3, <1>4, <1>5
  <2> QED BY <1>6, <2>1
<1> QED BY <1>2, <1>7, <1>8, <1>9 DEF u

(* The same bounds, with names for them.                                   *)
LEMMA UbatchExists ==
    ASSUME Len(batch) \in Nat, NEW t \in 1 .. Len(batch)
    PROVE  \E u \in Nat, f \in Nat, l \in Nat :
              /\ u = UbatchOf(t) /\ f = FirstOf(u) /\ l = LastOf(u)
              /\ f \in 1 .. t /\ l \in t .. Len(batch) /\ \A v \in f .. l : UbatchOf(v) = u
<1>1. PICK u : u = UbatchOf(t)
  OBVIOUS
<1>2. /\ u \in Nat /\ FirstOf(u) \in 1 .. t /\ LastOf(u) \in t .. Len(batch)
      /\ \A v \in FirstOf(u) .. LastOf(u) : UbatchOf(v) = u
  BY <1>1, UbatchBounds
<1>3. FirstOf(u) \in Nat /\ LastOf(u) \in Nat
  BY <1>2
<1> QED BY <1>1, <1>2, <1>3

(* Every nonempty set of integers that are bounded has a greatest.         *)
LEMMA MaxExists ==
    ASSUME NEW K \in SUBSET Int, K # {}, NEW b \in Int, \A k \in K : k <= b
    PROVE  \E m \in K : \A k \in K : k <= m
<1> DEFINE D == {b - k : k \in K}
<1>1. D \in SUBSET Nat /\ D # {}
  <2>1. \A k \in K : b - k \in Nat
    OBVIOUS
  <2> QED BY <2>1
<1>2. PICK d \in D : \A e \in D : d <= e
  BY <1>1, MinIsLeast
<1>3. PICK m \in K : d = b - m
  BY <1>2
<1>4. \A k \in K : b - m <= b - k
  BY <1>2, <1>3
<1>5. \A k \in K : k <= m
  BY <1>3, <1>4
<1> QED BY <1>5

(* Two disjoint parts of a finite set.                                     *)
LEMMA CardSplit ==
    ASSUME NEW T, IsFiniteSet(T), NEW A, NEW B, A \subseteq T, B \subseteq T, A \cap B = {}
    PROVE  /\ Cardinality(A) \in Nat /\ Cardinality(B) \in Nat /\ Cardinality(T) \in Nat
           /\ Cardinality(A) + Cardinality(B) <= Cardinality(T)
<1>1. IsFiniteSet(A) /\ IsFiniteSet(B)
  BY FS_Subset
<1>2. Cardinality(A) \in Nat /\ Cardinality(B) \in Nat /\ Cardinality(T) \in Nat
  BY <1>1, FS_CardinalityType
<1>3. Cardinality(A \cup B) = Cardinality(A) + Cardinality(B) - Cardinality(A \cap B)
  BY <1>1, FS_Union
<1>4. Cardinality(A \cap B) = 0
  BY FS_EmptySet
<1>5. Cardinality(A \cup B) <= Cardinality(T)
  BY FS_Subset
<1> QED BY <1>2, <1>3, <1>4, <1>5

(* seq_pos_max is the position of a cell of the sequence and no less than  *)
(* any, -1 when it has none.                                               *)
LEMMA SeqPosMax ==
    ASSUME NEW sq \in [Cells -> SUBSET Seqs], NEW ps \in [Cells -> -1 .. MaxLen - 1], NEW s
    PROVE  /\ seq_pos_max(sq, ps, s) \in -1 .. MaxLen - 1
           /\ \A c \in Cells : s \in sq[c] => ps[c] <= seq_pos_max(sq, ps, s)
           /\ \/ seq_pos_max(sq, ps, s) = -1
              \/ \E c \in Cells : s \in sq[c] /\ seq_pos_max(sq, ps, s) = ps[c]
<1> DEFINE held == {ps[c] : c \in {d \in Cells : s \in sq[d]}}
           m == CHOOSE p \in held : \A q \in held : q <= p
<1>1. MaxLen \in Nat \ {0}
  BY AllocAssumption
<1>2. held \subseteq -1 .. MaxLen - 1
  OBVIOUS
<1>3. seq_pos_max(sq, ps, s) = IF held = {} THEN -1 ELSE m
  BY DEF seq_pos_max
<1>4. CASE held = {}
  <2>1. \A c \in Cells : s \notin sq[c]
    BY <1>4
  <2> QED BY <1>1, <1>3, <1>4, <2>1
<1>5. CASE held # {}
  <2>1. MaxLen - 1 \in Int /\ held \in SUBSET Int /\ \A k \in held : k <= MaxLen - 1
    BY <1>1, <1>2
  <2>2. \E p \in held : \A q \in held : q <= p
    <3> HIDE DEF held
    <3> QED BY <1>5, <2>1, MaxExists
  <2>3. m \in held /\ \A q \in held : q <= m
    <3> HIDE DEF held
    <3> QED BY <2>2
  <2>4. \A c \in Cells : s \in sq[c] => ps[c] \in held
    OBVIOUS
  <2>5. \E c \in Cells : s \in sq[c] /\ m = ps[c]
    <3> HIDE DEF m
    <3> QED BY <2>3
  <2> HIDE DEF held, m
  <2> QED BY <1>2, <1>3, <1>5, <2>3, <2>4, <2>5
<1> QED BY <1>4, <1>5

(* The rebuilt head is just after the newest cell, or 0.                   *)
LEMMA RebuiltNewest ==
    ASSUME NEW sq \in [Cells -> SUBSET Seqs], NEW ps \in [Cells -> -1 .. MaxLen - 1], NEW s
    PROVE  \/ rebuilt(sq, ps, s) = 0 /\ \A c \in Cells : s \notin sq[c]
           \/ \E c \in Cells :
                /\ rebuilt(sq, ps, s) = c + 1 /\ s \in sq[c]
                /\ \A d \in Cells :
                      s \in sq[d] => ps[d] < ps[c] \/ (ps[d] = ps[c] /\ c <= d)
<1> DEFINE held == {c \in Cells : s \in sq[c]}
           newest == {c \in held : \A d \in held :
                         ps[d] < ps[c] \/ (ps[d] = ps[c] /\ c <= d)}
<1>1. NCells \in Nat /\ Cells \subseteq Nat /\ \A c \in Cells : c + 1 \in 0 .. NCells
  BY AllocAssumption DEF NCells, Cells
<1>2. rebuilt(sq, ps, s) = IF held = {} THEN 0 ELSE (CHOOSE c \in newest : TRUE) + 1
  BY DEF rebuilt
<1>3. CASE held = {}
  BY <1>1, <1>2, <1>3
<1>4. CASE held # {}
  <2> DEFINE m == seq_pos_max(sq, ps, s)
             top == {c \in held : ps[c] = m}
  <2>1. /\ m \in -1 .. MaxLen - 1
        /\ \A c \in Cells : s \in sq[c] => ps[c] <= m
        /\ m = -1 \/ \E c \in Cells : s \in sq[c] /\ m = ps[c]
    BY SeqPosMax
  <2> HIDE DEF m
  <2>2. \A c \in held : ps[c] \in -1 .. MaxLen - 1 /\ ps[c] <= m
    BY <2>1
  <2>3. MaxLen \in Nat
    BY AllocAssumption
  <2>4. top # {}
    <3>1. CASE m = -1
      <4>1. PICK c \in held : TRUE
        BY <1>4
      <4>2. ps[c] = m
        BY <2>2, <2>3, <3>1, <4>1
      <4> QED BY <4>1, <4>2
    <3>2. CASE \E c \in Cells : s \in sq[c] /\ m = ps[c]
      BY <3>2
    <3> QED BY <2>1, <3>1, <3>2
  <2>5. top \in SUBSET Nat
    BY <1>1
  <2>6. PICK c \in top : \A d \in top : c <= d
    <3> HIDE DEF top
    <3> QED BY <2>4, <2>5, MinIsLeast
  <2>7. ASSUME NEW d \in held PROVE ps[d] < ps[c] \/ (ps[d] = ps[c] /\ c <= d)
    <3>1. ps[d] \in Int /\ m \in Int /\ ps[d] <= m /\ ps[c] = m
      BY <2>1, <2>2, <2>3, <2>6
    <3>2. CASE ps[d] = m
      BY <2>6, <3>1, <3>2
    <3>3. CASE ps[d] < m
      BY <3>1, <3>3
    <3> QED BY <3>1, <3>2, <3>3
  <2>8. newest # {} /\ newest \subseteq Cells
    BY <2>6, <2>7
  <2>9. PICK n : n = (CHOOSE x \in newest : TRUE)
    OBVIOUS
  <2>10. n \in newest
    <3> HIDE DEF newest
    <3> QED BY <2>8, <2>9
  <2>11. /\ n \in Cells /\ s \in sq[n]
         /\ \A d \in Cells : s \in sq[d] => ps[d] < ps[n] \/ (ps[d] = ps[n] /\ n <= d)
    BY <2>10
  <2> HIDE DEF newest, held
  <2> QED BY <1>2, <1>4, <2>9, <2>11
<1> QED BY <1>3, <1>4

(* So it is within the cache.                                              *)
LEMMA RebuiltInCache ==
    ASSUME NEW sq \in [Cells -> SUBSET Seqs], NEW ps \in [Cells -> -1 .. MaxLen - 1], NEW s
    PROVE  rebuilt(sq, ps, s) \in 0 .. NCells
<1>1. NCells \in Nat /\ \A c \in Cells : c + 1 \in 0 .. NCells
  BY AllocAssumption DEF NCells, Cells
<1> QED BY <1>1, RebuiltNewest

(* The last token of a set of tokens.                                      *)
LEMMA LastChosen ==
    ASSUME NEW K, K \subseteq Nat, K # {}, NEW b \in Nat, \A k \in K : k <= b
    PROVE  LET m == CHOOSE t \in K : \A v \in K : v <= t
           IN  m \in K /\ \A v \in K : v <= m
<1>1. K \in SUBSET Int /\ b \in Int
  OBVIOUS
<1>2. \E t \in K : \A v \in K : v <= t
  BY <1>1, MaxExists
<1> QED BY <1>2

(* Nothing is nearer than the head itself.                                 *)
LEMMA NoDistance ==
    ASSUME NEW h \in Cells, NEW c \in Cells, Distance(h, c) <= Distance(h, h)
    PROVE  c = h
<1>1. NCells \in Nat \ {0}
  BY AllocAssumption DEF NCells, Cells
<1>2. Distance(h, h) = 0
  <2>1. h - h = 0 /\ 0 % NCells = 0
    BY <1>1 DEF Cells
  <2> QED BY <2>1 DEF Distance
<1>3. c - h \in Int /\ c \in 0 .. NCells - 1 /\ h \in 0 .. NCells - 1
  BY <1>1 DEF Cells
<1>4. (c - h) % NCells \in Nat
  BY <1>1, <1>3
<1>5. (c - h) % NCells = 0
  BY <1>2, <1>4 DEF Distance
<1> QED BY <1>1, <1>3, <1>5

(* The cell find_slot takes: of the acceptable ones, the first from the    *)
(* head on.                                                                *)
LEMMA NearestChosen ==
    ASSUME NEW K \in SUBSET Cells, K # {}, NEW h \in 0 .. NCells,
           NEW c, c = CHOOSE x \in K : \A d \in K : Distance(h, x) <= Distance(h, d)
    PROVE  c \in K /\ (h \in K => c = h) /\ \A d \in K : Distance(h, c) <= Distance(h, d)
<1> DEFINE D == {Distance(h, x) : x \in K}
<1>1. NCells \in Nat \ {0}
  BY AllocAssumption DEF NCells, Cells
<1>2. \A d \in K : Distance(h, d) \in Nat
  <2> SUFFICES ASSUME NEW d \in K PROVE Distance(h, d) \in Nat
    OBVIOUS
  <2>1. d - h \in Int
    BY <1>1 DEF Cells
  <2> QED BY <1>1, <2>1 DEF Distance
<1>3. D \in SUBSET Nat /\ D # {}
  BY <1>2
<1>4. PICK e \in D : \A f \in D : e <= f
  BY <1>3, MinIsLeast
<1>5. \E x \in K : \A d \in K : Distance(h, x) <= Distance(h, d)
  BY <1>4
<1>6. c \in K /\ \A d \in K : Distance(h, c) <= Distance(h, d)
  BY <1>5
<1>7. ASSUME h \in K PROVE c = h
  <2>1. h \in Cells /\ c \in Cells /\ Distance(h, c) <= Distance(h, h)
    BY <1>6, <1>7
  <2> QED BY <2>1, NoDistance
<1> QED BY <1>6, <1>7

-----------------------------------------------------------------------------
(* The invariant holds at the start.                                       *)
LEMMA InitInv == Init => IInv
<1> SUFFICES ASSUME Init PROVE IInv
  OBVIOUS
<1>1. /\ pc = "idle" /\ batch = <<>> /\ plan = <<>> /\ at = 1 /\ saved = <<>> /\ copied = {}
      /\ pos = [c \in Cells |-> -1] /\ seqs = [c \in Cells |-> {}]
      /\ Len(batch) = 0 /\ Len(plan) = 0
  BY DEF Init, NoBatch
<1>2. /\ MaxLen \in Nat \ {0} /\ MaxBatch \in Nat \ {0} /\ NCells \in Nat
      /\ G \in Nat \ {0, 1} /\ NGroups \in Nat
  BY AllocAssumption DEF NCells
<1>3. TypeOK
  <2>1. /\ heads \in [Seqs -> 0 .. NCells] /\ sealed \in [Groups -> BOOLEAN]
        /\ owners \in [Slots -> Groups \cup {NoGroup}] /\ staged = {} /\ recorded = {}
    BY <1>2 DEF Init, NoOwners
  <2>2. /\ pos \in [Cells -> -1 .. MaxLen - 1] /\ seqs \in [Cells -> SUBSET Seqs]
        /\ at \in 1 .. MaxBatch
    BY <1>1, <1>2
  <2> QED BY <1>1, <1>2, <2>1, <2>2 DEF TypeOK
<1>4. NoStageAlias /\ Phase /\ SavedCells /\ OwnCells
  BY <1>1 DEF NoStageAlias, Phase, SavedCells, OwnCells, DryRun
<1>5. Room
  <2>1. \A s \in Seqs, n \in Nat : Todo(s, n) = {}
    BY <1>1 DEF Todo
  <2>2. Applied = 0
    BY <1>1 DEF Applied, DryRun
  <2>3. \A s \in Seqs : Cardinality(Todo(s, 0)) = 0
    BY <2>1, FS_EmptySet
  <2>4. RoomFor(pos, seqs, 0)
    BY <1>1, <1>2, <2>3 DEF RoomFor
  <2> QED BY <1>1, <2>2, <2>4 DEF Room, DryRun
<1>6. Overlay
  BY <1>1 DEF Overlay, DryRun
<1>7. \A g \in Groups : \A c \in CellsOf(g) : Base[c] = {}
  BY <1>1, GroupCells DEF Base, DryRun
<1>8. OneClaim
  <2>1. \A g \in Groups, s \in Seqs : ~Claims(s, g)
    BY <1>1, <1>7 DEF Claims
  <2> QED BY <2>1 DEF OneClaim
<1>9. \A g \in Groups : Filled(g) = {}
  BY <1>1, <1>7 DEF Filled
<1>10. \A g \in Groups : CellsOf(g) # {}
  BY <1>2, FiniteCells, FS_EmptySet
<1>11. SlotsApart /\ SlotsOwned /\ FullSealed
  BY <1>1, <1>9, <1>10 DEF SlotsApart, SlotsOwned, FullSealed, Incomplete
<1> QED BY <1>3, <1>4, <1>5, <1>6, <1>8, <1>11 DEF IInv

-----------------------------------------------------------------------------
(* What apply_ubatch does to the cells.                                    *)
LEMMA ApplyCells ==
    ASSUME TypeOK, OwnCells, NEW u, TokensOf(u) \subseteq 1 .. Len(plan), apply_ubatch(u)
    PROVE  /\ \A t \in TokensOf(u) :
                 seqs'[plan[t]] = {batch[t]} /\ pos'[plan[t]] = NewPos(u, t)
           /\ \A c \in Cells : (\A t \in TokensOf(u) : plan[t] # c) =>
                 seqs'[c] = seqs[c] /\ pos'[c] = pos[c]
           /\ DOMAIN seqs' = Cells /\ DOMAIN pos' = Cells
<1> DEFINE tok(c) == CHOOSE t \in TokensOf(u) : plan[t] = c
           cells == {plan[t] : t \in TokensOf(u)}
<1>1. /\ pos' = [c \in Cells |-> IF c \in cells THEN NewPos(u, tok(c)) ELSE pos[c]]
      /\ seqs' = [c \in Cells |-> IF c \in cells THEN {batch[tok(c)]} ELSE seqs[c]]
  BY DEF apply_ubatch
<1>2. \A t \in TokensOf(u) : plan[t] \in Cells
  BY DEF TypeOK
<1>3. ASSUME NEW t \in TokensOf(u) PROVE tok(plan[t]) = t
  <2>1. \A v \in TokensOf(u) : plan[v] = plan[t] => v = t
    BY DEF OwnCells
  <2> QED BY <2>1
<1> HIDE DEF tok
<1> QED BY <1>1, <1>2, <1>3

(* The ubatch whose tokens are put into their cells.                       *)
LEMMA CurrentUbatch ==
    ASSUME TypeOK, Phase, pc \in {"emplace", "apply"}
    PROVE  \E u \in Nat, l \in Nat :
              /\ u = UbatchOf(at) /\ l = LastOf(u) /\ FirstOf(u) = at
              /\ at \in 1 .. Len(batch) /\ l \in at .. Len(batch) /\ l <= Len(plan)
              /\ TokensOf(u) = at .. l
              /\ TokensOf(u) \subseteq 1 .. Len(plan) /\ TokensOf(u) \subseteq 1 .. Len(batch)
<1>1. at \in 1 .. Len(batch) /\ Len(batch) \in Nat /\ Len(plan) \in Nat
  BY DEF Phase, TypeOK
<1>2. PICK u \in Nat, l \in Nat : u = UbatchOf(at) /\ l = LastOf(u) /\ l \in at .. Len(batch)
  BY <1>1, UbatchBounds
<1>3. FirstOf(u) = at
  BY <1>2 DEF Phase
<1>4. l <= Len(plan)
  <2>1. CASE pc = "emplace"
    BY <1>1, <1>2, <2>1 DEF Phase
  <2>2. CASE pc = "apply"
    BY <1>1, <1>2, <2>2 DEF Phase
  <2> QED BY <2>1, <2>2
<1>5. TokensOf(u) = at .. l
  BY <1>2, <1>3 DEF TokensOf
<1>6. TokensOf(u) \subseteq 1 .. Len(plan) /\ TokensOf(u) \subseteq 1 .. Len(batch)
  BY <1>1, <1>2, <1>4, <1>5
<1> QED BY <1>1, <1>2, <1>3, <1>4, <1>5, <1>6

(* The positions apply_ubatch gives out are within the bound, and leave    *)
(* room for the rest of the batch.                                         *)
LEMMA ApplyUbatch ==
    ASSUME TypeOK, Phase, OwnCells, pc \in {"emplace", "apply"},
           RoomFor(pos, seqs, at - 1), apply_ubatch(UbatchOf(at))
    PROVE  /\ pos' \in [Cells -> -1 .. MaxLen - 1] /\ seqs' \in [Cells -> SUBSET Seqs]
           /\ \A c \in Cells : pos'[c] = -1 <=> seqs'[c] = {}
           /\ RoomFor(pos', seqs', LastOf(UbatchOf(at)))
<1>1. at \in 1 .. Len(batch) /\ Len(batch) \in Nat /\ Len(plan) \in Nat
  BY DEF Phase, TypeOK
<1>2. PICK u \in Nat, l \in Nat :
         /\ u = UbatchOf(at) /\ l = LastOf(u) /\ FirstOf(u) = at
         /\ at \in 1 .. Len(batch) /\ l \in at .. Len(batch) /\ l <= Len(plan)
         /\ TokensOf(u) = at .. l
         /\ TokensOf(u) \subseteq 1 .. Len(plan) /\ TokensOf(u) \subseteq 1 .. Len(batch)
  BY CurrentUbatch
<1>3. FirstOf(u) = at /\ l \in at .. Len(batch) /\ l <= Len(plan) /\ TokensOf(u) = at .. l
  BY <1>2
<1>4. TokensOf(u) \subseteq 1 .. Len(plan) /\ TokensOf(u) \subseteq 1 .. Len(batch)
  BY <1>2
<1>5. /\ \A t \in TokensOf(u) :
             seqs'[plan[t]] = {batch[t]} /\ pos'[plan[t]] = NewPos(u, t)
      /\ \A c \in Cells : (\A t \in TokensOf(u) : plan[t] # c) =>
             seqs'[c] = seqs[c] /\ pos'[c] = pos[c]
      /\ DOMAIN seqs' = Cells /\ DOMAIN pos' = Cells
  BY <1>2, <1>4, ApplyCells
<1>6. seqs' = [c \in Cells |-> seqs'[c]] /\ pos' = [c \in Cells |-> pos'[c]]
  <2>1. /\ seqs' = [c \in Cells |-> IF c \in {plan[t] : t \in TokensOf(u)}
                       THEN {batch[CHOOSE t \in TokensOf(u) : plan[t] = c]} ELSE seqs[c]]
        /\ pos' = [c \in Cells |-> IF c \in {plan[t] : t \in TokensOf(u)}
                       THEN NewPos(u, CHOOSE t \in TokensOf(u) : plan[t] = c) ELSE pos[c]]
    BY <1>2 DEF apply_ubatch
  <2> QED BY <2>1
<1>7. MaxLen \in Nat \ {0}
  BY AllocAssumption
<1>8. ASSUME NEW s \in Seqs
      PROVE  /\ IsFiniteSet(Todo(s, at - 1)) /\ Todo(s, l) \subseteq Todo(s, at - 1)
             /\ Cardinality(Todo(s, at - 1)) \in Nat /\ Cardinality(Todo(s, l)) \in Nat
             /\ Cardinality(Todo(s, l)) <= Cardinality(Todo(s, at - 1))
  <2>1. Todo(s, at - 1) \subseteq 1 .. Len(batch) /\ Todo(s, l) \subseteq Todo(s, at - 1)
    BY <1>1, <1>3 DEF Todo
  <2>2. IsFiniteSet(1 .. Len(batch))
    BY <1>1, FS_Interval
  <2>3. IsFiniteSet(Todo(s, at - 1))
    BY <2>1, <2>2, FS_Subset
  <2> QED BY <2>1, <2>3, FS_Subset, FS_CardinalityType
<1>9. ASSUME NEW t \in TokensOf(u)
      PROVE  /\ NewPos(u, t) \in 0 .. MaxLen - 1
             /\ NewPos(u, t) + Cardinality(Todo(batch[t], l)) < MaxLen
  <2> DEFINE s == batch[t]
             A == {v \in TokensOf(u) : v <= t /\ batch[v] = s}
             m == seq_pos_max(seqs, pos, s)
  <2>1. s \in Seqs
    BY <1>4 DEF TypeOK
  <2>2. /\ m \in -1 .. MaxLen - 1
        /\ \A c \in Cells : s \in seqs[c] => pos[c] <= m
        /\ m = -1 \/ \E c \in Cells : s \in seqs[c] /\ m = pos[c]
    <3>1. seqs \in [Cells -> SUBSET Seqs] /\ pos \in [Cells -> -1 .. MaxLen - 1]
      BY DEF TypeOK
    <3> HIDE DEF s
    <3> QED BY <3>1, SeqPosMax
  <2>3. A \subseteq Todo(s, at - 1) /\ A \cap Todo(s, l) = {}
    BY <1>1, <1>3 DEF Todo
  <2>4. t \in A
    BY <1>3
  <2>5. NewPos(u, t) = m + Cardinality(A)
    BY DEF NewPos
  <2> HIDE DEF s, A, m
  <2>6. /\ Cardinality(A) \in Nat
        /\ Cardinality(A) + Cardinality(Todo(s, l)) <= Cardinality(Todo(s, at - 1))
    BY <1>8, <2>1, <2>3, CardSplit
  <2>7. IsFiniteSet(A)
    BY <1>8, <2>1, <2>3, FS_Subset
  <2>8. Cardinality(A) # 0
    BY <2>4, <2>7, FS_EmptySet
  <2>9. m + Cardinality(Todo(s, at - 1)) < MaxLen
    <3>1. CASE m = -1
      <4>1. Cardinality(Todo(s, at - 1)) <= MaxLen
        BY <2>1 DEF RoomFor
      <4> QED BY <1>7, <1>8, <2>1, <3>1, <4>1
    <3>2. CASE \E c \in Cells : s \in seqs[c] /\ m = pos[c]
      BY <2>1, <3>2 DEF RoomFor
    <3> QED BY <2>2, <3>1, <3>2
  <2>10. Cardinality(Todo(s, at - 1)) \in Nat /\ Cardinality(Todo(s, l)) \in Nat
    BY <1>8, <2>1
  <2>11. /\ m + Cardinality(A) \in 0 .. MaxLen - 1
         /\ m + Cardinality(A) + Cardinality(Todo(s, l)) < MaxLen
    BY <1>7, <2>2, <2>6, <2>8, <2>9, <2>10
  <2> QED BY <2>5, <2>11 DEF s
<1>10. ASSUME NEW c \in Cells
       PROVE  /\ pos'[c] \in -1 .. MaxLen - 1 /\ seqs'[c] \in SUBSET Seqs
              /\ pos'[c] = -1 <=> seqs'[c] = {}
              /\ \A s \in seqs'[c] : pos'[c] + Cardinality(Todo(s, l)) < MaxLen
  <2>1. CASE \E t \in TokensOf(u) : plan[t] = c
    <3>1. PICK t \in TokensOf(u) : plan[t] = c
      BY <2>1
    <3>2. seqs'[c] = {batch[t]} /\ pos'[c] = NewPos(u, t) /\ batch[t] \in Seqs
      BY <1>4, <1>5, <3>1 DEF TypeOK
    <3>3. pos'[c] \in 0 .. MaxLen - 1 /\ pos'[c] + Cardinality(Todo(batch[t], l)) < MaxLen
      BY <1>9, <3>2
    <3>4. pos'[c] \in -1 .. MaxLen - 1 /\ pos'[c] # -1
      BY <1>7, <3>3
    <3> QED BY <3>2, <3>3, <3>4
  <2>2. CASE \A t \in TokensOf(u) : plan[t] # c
    <3>1. seqs'[c] = seqs[c] /\ pos'[c] = pos[c]
      BY <1>5, <2>2
    <3>2. /\ pos[c] \in -1 .. MaxLen - 1 /\ seqs[c] \in SUBSET Seqs
          /\ pos[c] = -1 <=> seqs[c] = {}
      BY DEF TypeOK
    <3>3. ASSUME NEW s \in seqs[c] PROVE pos[c] + Cardinality(Todo(s, l)) < MaxLen
      <4>1. s \in Seqs /\ pos[c] + Cardinality(Todo(s, at - 1)) < MaxLen
        BY <3>2, <3>3 DEF RoomFor
      <4> QED BY <1>7, <1>8, <3>2, <4>1
    <3> QED BY <3>1, <3>2, <3>3
  <2> QED BY <2>1, <2>2
<1>11. ASSUME NEW s \in Seqs PROVE Cardinality(Todo(s, l)) <= MaxLen
  <2>1. Cardinality(Todo(s, at - 1)) <= MaxLen
    BY DEF RoomFor
  <2> QED BY <1>7, <1>8, <2>1
<1>12. RoomFor(pos', seqs', l)
  BY <1>10, <1>11 DEF RoomFor
<1>13. pos' \in [Cells -> -1 .. MaxLen - 1] /\ seqs' \in [Cells -> SUBSET Seqs]
  BY <1>6, <1>10
<1> QED BY <1>2, <1>10, <1>12, <1>13

(* The heads after an ubatch are heads.                                    *)
LEMMA NewHeadsType ==
    ASSUME TypeOK, Phase, pc \in {"emplace", "apply"}
    PROVE  newHeads(UbatchOf(at)) \in [Seqs -> 0 .. NCells]
<1>1. at \in 1 .. Len(batch) /\ Len(batch) \in Nat /\ Len(plan) \in Nat
  BY DEF Phase, TypeOK
<1>2. PICK u \in Nat, l \in Nat :
         /\ u = UbatchOf(at) /\ l = LastOf(u) /\ FirstOf(u) = at
         /\ at \in 1 .. Len(batch) /\ l \in at .. Len(batch) /\ l <= Len(plan)
         /\ TokensOf(u) = at .. l
         /\ TokensOf(u) \subseteq 1 .. Len(plan) /\ TokensOf(u) \subseteq 1 .. Len(batch)
  BY CurrentUbatch
<1>3. FirstOf(u) = at /\ l \in at .. Len(batch) /\ l <= Len(plan) /\ TokensOf(u) = at .. l
  BY <1>2
<1>4. ASSUME NEW s \in Seqs, NEW mine, mine = {t \in TokensOf(u) : batch[t] = s}
      PROVE  (IF mine = {} THEN heads[s]
              ELSE plan[CHOOSE t \in mine : \A v \in mine : v <= t] + 1) \in 0 .. NCells
  <2>1. CASE mine = {}
    BY <2>1 DEF TypeOK
  <2>2. CASE mine # {}
    <3>1. mine \subseteq Nat /\ \A k \in mine : k <= l
      BY <1>1, <1>3, <1>4
    <3>2. PICK m : m = CHOOSE t \in mine : \A v \in mine : v <= t
      OBVIOUS
    <3>3. m \in mine
      BY <2>2, <3>1, <3>2, LastChosen
    <3>4. plan[m] \in Cells
      <4>1. m \in 1 .. Len(plan)
        BY <1>2, <1>4, <3>3
      <4> QED BY <4>1 DEF TypeOK
    <3>5. NCells \in Nat
      BY AllocAssumption DEF NCells
    <3>6. plan[m] + 1 \in 0 .. NCells
      BY <3>4, <3>5 DEF Cells
    <3> QED BY <2>2, <3>2, <3>6
  <2> QED BY <2>1, <2>2
<1> QED BY <1>2, <1>4 DEF newHeads

(* The first ubatch begins with the first token.                           *)
LEMMA FirstUbatch == UbatchOf(1) = 0 /\ FirstOf(UbatchOf(1)) = 1
<1>1. NUbatch \in Nat \ {0}
  BY AllocAssumption
<1>2. NUbatch * 0 = 0 /\ 0 * NUbatch = 0 /\ 1 - 1 = 0
  BY <1>1
<1>3. 0 \div NUbatch = 0
  BY <1>1, <1>2, DivUnique
<1>4. UbatchOf(1) = 0
  BY <1>2, <1>3 DEF UbatchOf
<1> QED BY <1>2, <1>4 DEF FirstOf

(* Steps that do not fill, empty, seal or unseal a group.                  *)
LEMMA SameFilled ==
    ASSUME SlotsApart, FullSealed, \A g \in Groups : Filled(g)' = Filled(g), sealed' = sealed,
           pc \notin {"failed", "find"}, pc' \notin {"failed", "find"}
    PROVE  SlotsApart' /\ SlotsOwned' /\ FullSealed'
<1>1. \A g \in Groups : Incomplete(g)' <=> Incomplete(g)
  BY DEF Incomplete
<1>2. SlotsApart'
  BY <1>1 DEF SlotsApart, stage_slot
<1> QED BY <1>2 DEF SlotsOwned, FullSealed

(* Steps that claim nothing.                                               *)
LEMMA FewerClaims ==
    ASSUME OneClaim, copied' = copied,
           \A g \in Groups : (\E t \in 1 .. Len(plan') : Group(plan'[t]) = g)
                                => (\E t \in 1 .. Len(plan) : Group(plan[t]) = g),
           \A g \in Groups, s \in Seqs : Claims(s, g)' => Claims(s, g)
    PROVE  OneClaim'
  BY DEF OneClaim

(* Base and plan are all that Filled and Claims look at.                   *)
LEMMA SameCache ==
    ASSUME Base' = Base, plan' = plan, batch' = batch
    PROVE  /\ \A g \in Groups : Filled(g)' = Filled(g)
           /\ \A g \in Groups, s \in Seqs : Claims(s, g)' => Claims(s, g)
<1>1. \A g \in Groups : Filled(g)' = Filled(g)
  BY DEF Filled
<1>2. \A g \in Groups, s \in Seqs : Claims(s, g)' => Claims(s, g)
  BY DEF Claims
<1> QED BY <1>1, <1>2

-----------------------------------------------------------------------------
(* A batch arrives: its tokens fit, nothing is in the cells yet.           *)
LEMMA InitBatchStep == ASSUME IInv, InitBatch PROVE IInv'
<1>1. /\ pc = "idle" /\ pc' = "seed" /\ at' = 1 /\ plan' = <<>> /\ saved' = <<pos, seqs>>
      /\ UNCHANGED <<pos, seqs, heads, sealed, owners, staged, recorded, copied>>
  BY DEF InitBatch, cellVars, payload
<1>0. PICK n \in 1 .. MaxBatch : \E b \in [1 .. n -> Seqs] :
         /\ \A s \in Seqs : seq_pos_max(seqs, pos, s)
                              + Cardinality({t \in 1 .. n : b[t] = s}) < MaxLen
         /\ batch' = b
  BY DEF InitBatch
<1>2. PICK b \in [1 .. n -> Seqs] :
         /\ \A s \in Seqs : seq_pos_max(seqs, pos, s)
                              + Cardinality({t \in 1 .. n : b[t] = s}) < MaxLen
         /\ batch' = b
  BY <1>0
<1>3. MaxBatch \in Nat \ {0} /\ MaxLen \in Nat \ {0}
  BY AllocAssumption
<1>4. /\ n \in Nat /\ n > 0 /\ n <= MaxBatch /\ batch' \in Seq(Seqs) /\ Len(batch') = n
      /\ Len(plan') = 0 /\ plan = <<>> /\ plan' = plan /\ Len(plan) = 0
  BY <1>1, <1>2, <1>3 DEF IInv, Phase
<1>5. TypeOK'
  BY <1>1, <1>3, <1>4 DEF IInv, TypeOK
<1>6. NoStageAlias' /\ OwnCells'
  BY <1>1, <1>4 DEF NoStageAlias, OwnCells
<1>7. Phase'
  BY <1>1, <1>4, FirstUbatch DEF Phase
<1>8. SavedCells'
  <2>1. saved'[1] = pos /\ saved'[2] = seqs
    BY <1>1
  <2> QED BY <1>1, <2>1 DEF IInv, TypeOK, SavedCells, DryRun
<1>9. Applied' = 0
  <2>1. FirstOf(UbatchOf(at')) - 1 = 0
    BY <1>1, FirstUbatch
  <2> QED BY <1>1, <2>1 DEF Applied, DryRun
<1>10. Room'
  <2>1. ASSUME NEW s \in Seqs
        PROVE  /\ Cardinality(Todo(s, 0)') <= MaxLen
               /\ \A c \in Cells : s \in seqs[c] => pos[c] + Cardinality(Todo(s, 0)') < MaxLen
    <3>1. Todo(s, 0)' = {t \in 1 .. n : b[t] = s}
      BY <1>2, <1>4 DEF Todo
    <3>2. PICK k : k = Cardinality(Todo(s, 0)')
      OBVIOUS
    <3>3. k \in Nat
      <4>1. IsFiniteSet(1 .. n)
        BY <1>4, FS_Interval
      <4>2. IsFiniteSet({t \in 1 .. n : b[t] = s})
        BY <4>1, FS_Subset
      <4> QED BY <3>1, <3>2, <4>2, FS_CardinalityType
    <3>4. /\ seq_pos_max(seqs, pos, s) \in -1 .. MaxLen - 1
          /\ \A c \in Cells : s \in seqs[c] => pos[c] <= seq_pos_max(seqs, pos, s)
      BY SeqPosMax DEF IInv, TypeOK
    <3>5. seq_pos_max(seqs, pos, s) + k < MaxLen
      BY <1>2, <3>1, <3>2
    <3>6. PICK m \in Int : m = seq_pos_max(seqs, pos, s)
      BY <1>3, <3>4
    <3>7. k <= MaxLen
      BY <1>3, <3>3, <3>4, <3>5, <3>6
    <3>8. ASSUME NEW c \in Cells, s \in seqs[c] PROVE pos[c] + k < MaxLen
      <4>1. pos[c] \in Int /\ pos[c] <= m
        BY <1>3, <3>4, <3>6, <3>8 DEF IInv, TypeOK
      <4> QED BY <1>3, <3>3, <3>5, <3>6, <4>1
    <3> QED BY <3>2, <3>7, <3>8
  <2>2. RoomFor(pos, seqs, 0)'
    BY <1>1, <2>1 DEF RoomFor
  <2>3. saved'[1] = pos' /\ saved'[2] = seqs'
    BY <1>1
  <2>4. RoomFor(pos, seqs, Applied)'
    BY <1>9, <2>2 DEF RoomFor
  <2>5. RoomFor(saved[1], saved[2], 0)'
    BY <2>2, <2>3 DEF RoomFor
  <2> QED BY <2>4, <2>5 DEF Room
<1>11. Overlay'
  <2>1. saved'[2] = seqs'
    BY <1>1
  <2> QED BY <1>1, <1>4, <2>1 DEF Overlay
<1>12. Base' = Base
  BY <1>1 DEF Base, DryRun
<1>13. \A g \in Groups : Filled(g)' = Filled(g)
  BY <1>4, <1>12 DEF Filled
<1>14. \A g \in Groups, s \in Seqs : Claims(s, g)' => Claims(s, g)
  BY <1>4, <1>12 DEF Claims
<1>15. OneClaim'
  BY <1>1, <1>4, <1>14, FewerClaims DEF IInv
<1>16. SlotsApart' /\ SlotsOwned' /\ FullSealed'
  BY <1>1, <1>13, SameFilled DEF IInv
<1> QED BY <1>5, <1>6, <1>7, <1>8, <1>10, <1>11, <1>15, <1>16 DEF IInv

(* The cells after an ubatch was applied: its tokens on top.               *)
LEMMA ApplyOverlay ==
    ASSUME TypeOK, Phase, OwnCells, pc \in {"emplace", "apply"}, apply_ubatch(UbatchOf(at)),
           \A t \in 1 .. Len(plan) : t <= at - 1 => seqs[plan[t]] = {batch[t]}
    PROVE  /\ \A t \in 1 .. Len(plan) :
                 t <= LastOf(UbatchOf(at)) => seqs'[plan[t]] = {batch[t]}
           /\ \A c \in Cells :
                 \/ seqs'[c] = seqs[c]
                 \/ \E t \in 1 .. Len(plan) : t <= LastOf(UbatchOf(at)) /\ plan[t] = c
<1>1. at \in 1 .. Len(batch) /\ Len(batch) \in Nat /\ Len(plan) \in Nat
  BY DEF Phase, TypeOK
<1>2. PICK u \in Nat, l \in Nat :
         /\ u = UbatchOf(at) /\ l = LastOf(u) /\ FirstOf(u) = at
         /\ at \in 1 .. Len(batch) /\ l \in at .. Len(batch) /\ l <= Len(plan)
         /\ TokensOf(u) = at .. l
         /\ TokensOf(u) \subseteq 1 .. Len(plan) /\ TokensOf(u) \subseteq 1 .. Len(batch)
  BY CurrentUbatch
<1>3. /\ \A t \in TokensOf(u) :
             seqs'[plan[t]] = {batch[t]} /\ pos'[plan[t]] = NewPos(u, t)
      /\ \A c \in Cells : (\A t \in TokensOf(u) : plan[t] # c) =>
             seqs'[c] = seqs[c] /\ pos'[c] = pos[c]
      /\ DOMAIN seqs' = Cells /\ DOMAIN pos' = Cells
  BY <1>2, ApplyCells
<1>4. ASSUME NEW t \in 1 .. Len(plan), t <= l PROVE seqs'[plan[t]] = {batch[t]}
  <2>1. CASE t >= at
    <3>1. t \in TokensOf(u)
      BY <1>1, <1>2, <1>4, <2>1
    <3> QED BY <1>3, <3>1
  <2>2. CASE t <= at - 1
    <3>1. \A v \in TokensOf(u) : v \in 1 .. Len(plan) /\ v # t
      BY <1>1, <1>2, <2>2
    <3>2. \A v \in TokensOf(u) : plan[v] # plan[t]
      BY <3>1 DEF OwnCells
    <3>3. plan[t] \in Cells
      BY DEF TypeOK
    <3>4. seqs'[plan[t]] = seqs[plan[t]]
      BY <1>3, <3>2, <3>3
    <3> QED BY <2>2, <3>4
  <2> QED BY <1>1, <2>1, <2>2
<1>5. ASSUME NEW c \in Cells
      PROVE  seqs'[c] = seqs[c] \/ \E t \in 1 .. Len(plan) : t <= l /\ plan[t] = c
  <2>1. CASE \E t \in TokensOf(u) : plan[t] = c
    BY <1>1, <1>2, <2>1
  <2>2. CASE \A t \in TokensOf(u) : plan[t] # c
    BY <1>3, <2>2
  <2> QED BY <2>1, <2>2
<1> QED BY <1>2, <1>4, <1>5

(* Between batches most of the invariant has nothing to say.               *)
LEMMA BetweenBatches ==
    ASSUME pos' \in [Cells -> -1 .. MaxLen - 1], pc' \in {"idle", "failed"},
           batch' = <<>>, plan' = <<>>, at' = 1, saved' = <<>>
    PROVE  NoStageAlias' /\ Phase' /\ SavedCells' /\ Room' /\ OwnCells' /\ Overlay'
<1>1. Len(batch') = 0 /\ Len(plan') = 0 /\ pc' \notin DryRun /\ MaxLen \in Nat \ {0}
  BY AllocAssumption DEF DryRun
<1>2. NoStageAlias' /\ Phase' /\ SavedCells' /\ OwnCells' /\ Overlay'
  BY <1>1 DEF NoStageAlias, Phase, SavedCells, OwnCells, Overlay
<1>3. \A s \in Seqs, n \in Nat : Cardinality(Todo(s, n)') = 0
  <2>1. \A s \in Seqs, n \in Nat : Todo(s, n)' = {}
    BY <1>1 DEF Todo
  <2> QED BY <2>1, FS_EmptySet
<1>4. Applied' = 0
  BY <1>1 DEF Applied, DryRun
<1>5. \A c \in Cells : pos'[c] + 0 < MaxLen
  BY <1>1
<1>6. RoomFor(pos, seqs, 0)'
  BY <1>1, <1>3, <1>5 DEF RoomFor
<1>7. Room'
  BY <1>1, <1>4, <1>6 DEF Room, RoomFor
<1> QED BY <1>2, <1>7

-----------------------------------------------------------------------------
(* prepare() emplaces an ubatch.                                           *)
LEMMA EmplaceStep == ASSUME IInv, Emplace PROVE IInv'
<1>1. /\ pc = "emplace" /\ pc' = "seed" /\ LastOf(UbatchOf(at)) < Len(batch)
      /\ apply_ubatch(UbatchOf(at)) /\ at' = LastOf(UbatchOf(at)) + 1 /\ owners' = NoOwners
      /\ UNCHANGED <<sealed, staged, recorded, batch, plan, saved, copied>>
  BY DEF Emplace, payload
<1>2. at \in 1 .. Len(batch) /\ Len(batch) \in Nat /\ Len(batch) <= MaxBatch /\ MaxBatch \in Nat
  BY <1>1, AllocAssumption DEF IInv, Phase, TypeOK
<1>3. PICK l \in Nat :
         /\ l = LastOf(UbatchOf(at)) /\ l \in at .. Len(batch) /\ l + 1 = FirstOf(UbatchOf(l + 1))
         /\ at = FirstOf(UbatchOf(at)) /\ Len(plan) = l /\ l < Len(batch)
  BY <1>1, <1>2, UbatchBounds DEF IInv, Phase
<1>4. Applied = at - 1 /\ Applied' = l
  <2>1. FirstOf(UbatchOf(at')) - 1 = l
    BY <1>1, <1>3
  <2> QED BY <1>1, <1>3, <2>1 DEF Applied, DryRun
<1>5. /\ pos' \in [Cells -> -1 .. MaxLen - 1] /\ seqs' \in [Cells -> SUBSET Seqs]
      /\ \A c \in Cells : pos'[c] = -1 <=> seqs'[c] = {}
      /\ RoomFor(pos', seqs', LastOf(UbatchOf(at)))
  <2>1. RoomFor(pos, seqs, at - 1)
    BY <1>4 DEF IInv, Room
  <2> QED BY <1>1, <2>1, ApplyUbatch DEF IInv
<1>6. heads' \in [Seqs -> 0 .. NCells]
  BY <1>1, NewHeadsType DEF IInv, apply_ubatch
<1>7. TypeOK'
  <2>1. at' \in 1 .. MaxBatch
    BY <1>1, <1>2, <1>3
  <2> QED BY <1>1, <1>5, <1>6, <2>1 DEF IInv, TypeOK, NoOwners
<1>8. NoStageAlias' /\ OwnCells' /\ SavedCells'
  BY <1>1 DEF IInv, NoStageAlias, OwnCells, SavedCells, DryRun
<1>9. Phase'
  BY <1>1, <1>2, <1>3 DEF Phase
<1>10. Room'
  <2>1. \A s, n : Todo(s, n)' = Todo(s, n)
    BY <1>1 DEF Todo
  <2>2. RoomFor(pos, seqs, Applied)'
    BY <1>3, <1>4, <1>5, <2>1 DEF RoomFor
  <2>3. RoomFor(saved[1], saved[2], 0)'
    BY <1>1, <2>1 DEF IInv, Room, RoomFor, DryRun
  <2> QED BY <2>2, <2>3 DEF Room
<1>11. Overlay'
  <2>1. \A t \in 1 .. Len(plan) : t <= at - 1 => seqs[plan[t]] = {batch[t]}
    BY <1>4 DEF IInv, Overlay
  <2>2. /\ \A t \in 1 .. Len(plan) :
             t <= LastOf(UbatchOf(at)) => seqs'[plan[t]] = {batch[t]}
        /\ \A c \in Cells :
             \/ seqs'[c] = seqs[c]
             \/ \E t \in 1 .. Len(plan) : t <= LastOf(UbatchOf(at)) /\ plan[t] = c
    BY <1>1, <2>1, ApplyOverlay DEF IInv
  <2>3. /\ \A t \in 1 .. Len(plan) : saved[2][plan[t]] = {}
        /\ \A c \in Cells :
              \/ seqs[c] = saved[2][c]
              \/ \E t \in 1 .. Len(plan) : t <= at - 1 /\ plan[t] = c
    BY <1>1, <1>4 DEF IInv, Overlay, DryRun
  <2>4. \A t \in 1 .. Len(plan) : t <= at - 1 => t <= l
    BY <1>2, <1>3
  <2>5. \A c \in Cells : seqs'[c] = saved[2][c] \/ \E t \in 1 .. Len(plan) : t <= l /\ plan[t] = c
    BY <1>3, <2>2, <2>3, <2>4
  <2> QED BY <1>1, <1>3, <1>4, <2>2, <2>3, <2>5 DEF Overlay
<1>12. Base' = Base
  BY <1>1 DEF Base, DryRun
<1>13. OneClaim' /\ SlotsApart' /\ SlotsOwned' /\ FullSealed'
  <2>1. /\ \A g \in Groups : Filled(g)' = Filled(g)
        /\ \A g \in Groups, s \in Seqs : Claims(s, g)' => Claims(s, g)
    BY <1>1, <1>12, SameCache
  <2>2. SlotsApart' /\ SlotsOwned' /\ FullSealed'
    BY <1>1, <2>1, SameFilled DEF IInv
  <2> QED BY <1>1, <2>1, <2>2, FewerClaims DEF IInv
<1> QED BY <1>7, <1>8, <1>9, <1>10, <1>11, <1>13 DEF IInv

(* After the last ubatch prepare() puts the cells back.                    *)
LEMMA RestoreStep == ASSUME IInv, Restore PROVE IInv'
<1>1. /\ pc = "emplace" /\ pc' = "apply" /\ LastOf(UbatchOf(at)) = Len(batch)
      /\ heads' = newHeads(UbatchOf(at)) /\ at' = 1 /\ owners' = NoOwners
      /\ pos' = saved[1] /\ seqs' = saved[2] /\ saved' = <<>>
      /\ UNCHANGED <<sealed, staged, recorded, batch, plan, copied>>
  BY DEF Restore, payload
<1>2. at \in 1 .. Len(batch) /\ Len(batch) \in Nat /\ Len(batch) <= MaxBatch /\ MaxBatch \in Nat
  BY <1>1, AllocAssumption DEF IInv, Phase, TypeOK
<1>3. /\ pos' \in [Cells -> -1 .. MaxLen - 1] /\ seqs' \in [Cells -> SUBSET Seqs]
      /\ \A c \in Cells : pos'[c] = -1 <=> seqs'[c] = {}
  <2>1. /\ saved \in [Cells -> -1 .. MaxLen - 1] \X [Cells -> SUBSET Seqs]
        /\ \A c \in Cells : saved[1][c] = -1 <=> saved[2][c] = {}
    BY <1>1 DEF IInv, SavedCells, DryRun
  <2> QED BY <1>1, <2>1
<1>4. heads' \in [Seqs -> 0 .. NCells]
  BY <1>1, NewHeadsType DEF IInv
<1>5. TypeOK'
  <2>1. at' \in 1 .. MaxBatch
    BY <1>1, <1>2
  <2> QED BY <1>1, <1>3, <1>4, <2>1 DEF IInv, TypeOK, NoOwners
<1>6. NoStageAlias' /\ OwnCells' /\ SavedCells'
  BY <1>1 DEF IInv, NoStageAlias, OwnCells, SavedCells, DryRun
<1>7. Phase'
  <2>1. Len(plan) = Len(batch) /\ at' \in 1 .. Len(batch) /\ at' = FirstOf(UbatchOf(at'))
    BY <1>1, <1>2, FirstUbatch DEF IInv, Phase
  <2> QED BY <1>1, <2>1 DEF Phase
<1>8. Applied' = 0
  BY <1>1 DEF Applied, DryRun
<1>9. Room'
  <2>1. \A s, n : Todo(s, n)' = Todo(s, n)
    BY <1>1 DEF Todo
  <2>2. RoomFor(saved[1], saved[2], 0)
    BY <1>1 DEF IInv, Room, DryRun
  <2>3. RoomFor(pos, seqs, Applied)'
    BY <1>1, <1>8, <2>1, <2>2 DEF RoomFor
  <2> QED BY <1>1, <2>3 DEF Room, DryRun
<1>10. Overlay'
  <2>1. \A t \in 1 .. Len(plan') : ~(t <= Applied')
    BY <1>8
  <2> QED BY <1>1, <2>1 DEF Overlay, DryRun
<1>11. Base' = Base
  BY <1>1 DEF Base, DryRun
<1>12. OneClaim' /\ SlotsApart' /\ SlotsOwned' /\ FullSealed'
  <2>1. /\ \A g \in Groups : Filled(g)' = Filled(g)
        /\ \A g \in Groups, s \in Seqs : Claims(s, g)' => Claims(s, g)
    BY <1>1, <1>11, SameCache
  <2>2. SlotsApart' /\ SlotsOwned' /\ FullSealed'
    BY <1>1, <2>1, SameFilled DEF IInv
  <2> QED BY <1>1, <2>1, <2>2, FewerClaims DEF IInv
<1> QED BY <1>5, <1>6, <1>7, <1>9, <1>10, <1>12 DEF IInv

(* The ubatch is applied for real, before its graph runs.                  *)
LEMMA ApplyStep == ASSUME IInv, Apply PROVE IInv'
<1>1. /\ pc = "apply" /\ pc' = "store" /\ apply_ubatch(UbatchOf(at))
      /\ UNCHANGED <<sealed, owners, staged, recorded, batch, plan, at, saved, copied>>
  BY DEF Apply, payload
<1>2. at \in 1 .. Len(batch) /\ Len(batch) \in Nat /\ Len(plan) = Len(batch)
  BY <1>1 DEF IInv, Phase, TypeOK
<1>3. PICK l \in Nat : l = LastOf(UbatchOf(at)) /\ l \in at .. Len(batch)
  BY <1>2, UbatchBounds
<1>4. Applied = at - 1 /\ Applied' = l
  <2>1. LastOf(UbatchOf(at))' = l
    BY <1>1, <1>3 DEF LastOf
  <2> QED BY <1>1, <2>1 DEF Applied, DryRun
<1>5. /\ pos' \in [Cells -> -1 .. MaxLen - 1] /\ seqs' \in [Cells -> SUBSET Seqs]
      /\ \A c \in Cells : pos'[c] = -1 <=> seqs'[c] = {}
      /\ RoomFor(pos', seqs', LastOf(UbatchOf(at)))
  <2>1. RoomFor(pos, seqs, at - 1)
    BY <1>4 DEF IInv, Room
  <2> QED BY <1>1, <2>1, ApplyUbatch DEF IInv
<1>6. heads' \in [Seqs -> 0 .. NCells]
  BY <1>1, NewHeadsType DEF IInv, apply_ubatch
<1>7. TypeOK'
  BY <1>1, <1>5, <1>6 DEF IInv, TypeOK
<1>8. NoStageAlias' /\ OwnCells' /\ SavedCells'
  BY <1>1 DEF IInv, NoStageAlias, OwnCells, SavedCells, DryRun
<1>9. Phase'
  BY <1>1, <1>2 DEF Phase
<1>10. Room'
  <2>1. \A s, n : Todo(s, n)' = Todo(s, n)
    BY <1>1 DEF Todo
  <2>2. RoomFor(pos, seqs, Applied)'
    BY <1>3, <1>4, <1>5, <2>1 DEF RoomFor
  <2> QED BY <1>1, <2>2 DEF Room, DryRun
<1>11. /\ \A t \in 1 .. Len(plan) : t <= l => seqs'[plan[t]] = {batch[t]}
       /\ \A c \in Cells :
             \/ seqs'[c] = seqs[c]
             \/ \E t \in 1 .. Len(plan) : t <= l /\ plan[t] = c
  <2>1. \A t \in 1 .. Len(plan) : t <= at - 1 => seqs[plan[t]] = {batch[t]}
    BY <1>4 DEF IInv, Overlay
  <2> QED BY <1>1, <1>3, <2>1, ApplyOverlay DEF IInv
<1>12. Overlay'
  BY <1>1, <1>4, <1>11 DEF Overlay, DryRun
<1>13. Base = seqs /\ Base' = seqs'
  BY <1>1 DEF Base, DryRun
<1>14. ASSUME NEW g \in Groups PROVE Filled(g)' = Filled(g)
  <2>1. \A c \in CellsOf(g) :
           \/ seqs'[c] = seqs[c]
           \/ \E t \in 1 .. Len(plan) : plan[t] = c
    BY <1>11, GroupCells
  <2> QED BY <1>1, <1>13, <2>1 DEF Filled
<1>15. ASSUME NEW g \in Groups, NEW s \in Seqs, Claims(s, g)' PROVE Claims(s, g)
  <2>1. CASE \E c \in CellsOf(g) : s \in seqs'[c]
    <3>1. PICK c \in CellsOf(g) : s \in seqs'[c]
      BY <2>1
    <3>2. CASE seqs'[c] = seqs[c]
      BY <1>13, <3>1, <3>2 DEF Claims
    <3>3. CASE \E t \in 1 .. Len(plan) : t <= l /\ plan[t] = c
      <4>1. PICK t \in 1 .. Len(plan) : t <= l /\ plan[t] = c
        BY <3>3
      <4>2. s = batch[t] /\ Group(plan[t]) = g
        BY <1>11, <3>1, <4>1, GroupCells
      <4> QED BY <4>2 DEF Claims
    <3> QED BY <1>11, <3>1, <3>2, <3>3, GroupCells
  <2>2. CASE \E t \in 1 .. Len(plan) : Group(plan[t]) = g /\ batch[t] = s
    BY <2>2 DEF Claims
  <2> QED BY <1>1, <1>13, <1>15, <2>1, <2>2 DEF Claims
<1>16. OneClaim' /\ SlotsApart' /\ SlotsOwned' /\ FullSealed'
  <2>1. SlotsApart' /\ SlotsOwned' /\ FullSealed'
    BY <1>1, <1>14, SameFilled DEF IInv
  <2> QED BY <1>1, <1>15, <2>1, FewerClaims DEF IInv
<1> QED BY <1>7, <1>8, <1>9, <1>10, <1>12, <1>16 DEF IInv

(* The store kernel writes rows, which the invariant does not look at.     *)
LEMMA StoreStep == ASSUME IInv, Store PROVE IInv'
<1>1. /\ pc = "store" /\ pc' \in {"store", "attend"}
      /\ UNCHANGED <<pos, seqs, heads, sealed, owners, batch, plan, saved, copied>>
      /\ \/ at = LastOf(UbatchOf(at)) /\ pc' = "attend" /\ at' = at
         \/ at # LastOf(UbatchOf(at)) /\ pc' = "store" /\ at' = at + 1
  BY DEF Store
<1>2. /\ at \in 1 .. Len(batch) /\ Len(batch) \in Nat /\ Len(plan) = Len(batch)
      /\ Len(batch) <= MaxBatch /\ MaxBatch \in Nat
  BY <1>1, AllocAssumption DEF IInv, Phase, TypeOK
<1>3. PICK u \in Nat, l \in Nat :
         /\ u = UbatchOf(at) /\ l = LastOf(u) /\ l \in at .. Len(batch)
         /\ FirstOf(u) \in 1 .. at /\ \A v \in FirstOf(u) .. l : UbatchOf(v) = u
  BY <1>2, UbatchBounds
<1>4. at' \in 1 .. Len(batch) /\ UbatchOf(at') = u /\ (pc' = "attend" => at' = l)
  <2>1. CASE at' = at
    BY <1>1, <1>2, <1>3, <2>1
  <2>2. CASE at # l /\ pc' = "store" /\ at' = at + 1
    <3>1. at + 1 \in FirstOf(u) .. l /\ at + 1 \in 1 .. Len(batch)
      BY <1>2, <1>3, <2>2
    <3> QED BY <1>3, <2>2, <3>1
  <2> QED BY <1>1, <1>3, <2>1, <2>2
<1>5. LastOf(u)' = l
  BY <1>1, <1>3 DEF LastOf
<1>6. Applied = l /\ Applied' = l
  BY <1>1, <1>3, <1>4, <1>5 DEF Applied, DryRun
<1>7. TypeOK'
  <2>1. plan[at] \in Cells
    BY <1>2 DEF IInv, TypeOK
  <2>2. staged' = (staged \ SameRow(plan[at])) \cup {plan[at]}
    BY DEF Store
  <2>3. staged' \subseteq Cells
    BY <2>1, <2>2 DEF IInv, TypeOK
  <2>4. \/ recorded' = (recorded \ CellsOf(Group(plan[at])))
                           \cup (staged' \cap CellsOf(Group(plan[at])))
        \/ recorded' = recorded \ {plan[at]}
    BY DEF Store
  <2>5. recorded' \subseteq Cells
    BY <2>3, <2>4 DEF IInv, TypeOK
  <2>6. at' \in 1 .. MaxBatch
    BY <1>2, <1>4
  <2> QED BY <1>1, <2>3, <2>5, <2>6 DEF IInv, TypeOK
<1>8. NoStageAlias' /\ OwnCells' /\ SavedCells'
  BY <1>1 DEF IInv, NoStageAlias, OwnCells, SavedCells, DryRun
<1>9. Phase'
  BY <1>1, <1>2, <1>4, <1>5 DEF Phase
<1>10. Room'
  <2>1. \A s, n : Todo(s, n)' = Todo(s, n)
    BY <1>1 DEF Todo
  <2>2. RoomFor(pos, seqs, l)
    BY <1>6 DEF IInv, Room
  <2>3. RoomFor(pos, seqs, Applied)'
    BY <1>1, <1>6, <2>1, <2>2 DEF RoomFor
  <2> QED BY <1>1, <2>3 DEF Room, DryRun
<1>11. Overlay'
  BY <1>1, <1>6 DEF IInv, Overlay, DryRun
<1>12. Base' = Base
  BY <1>1 DEF Base, DryRun
<1>13. OneClaim' /\ SlotsApart' /\ SlotsOwned' /\ FullSealed'
  <2>1. /\ \A g \in Groups : Filled(g)' = Filled(g)
        /\ \A g \in Groups, s \in Seqs : Claims(s, g)' => Claims(s, g)
    BY <1>1, <1>12, SameCache
  <2>2. SlotsApart' /\ SlotsOwned' /\ FullSealed'
    BY <1>1, <2>1, SameFilled DEF IInv
  <2> QED BY <1>1, <2>1, <2>2, FewerClaims DEF IInv
<1> QED BY <1>7, <1>8, <1>9, <1>10, <1>11, <1>13 DEF IInv

(* The batch goes on to its next ubatch, or is done.                       *)
LEMMA AttendedStep == ASSUME IInv, Attended PROVE IInv'
<1>1. /\ pc = "attend"
      /\ UNCHANGED <<pos, seqs, heads, sealed, owners, staged, recorded, saved, copied>>
  BY DEF Attended, payload
<1>2. /\ at \in 1 .. Len(batch) /\ Len(batch) \in Nat /\ Len(plan) = Len(batch)
      /\ Len(batch) <= MaxBatch /\ MaxBatch \in Nat \ {0} /\ saved = <<>>
      /\ at = LastOf(UbatchOf(at))
  BY <1>1, AllocAssumption DEF IInv, Phase, TypeOK, SavedCells, DryRun
<1>3. Applied = at
  BY <1>1, <1>2 DEF Applied, DryRun
<1>4. CASE at = Len(batch)
  <2>1. pc' = "idle" /\ batch' = <<>> /\ plan' = <<>> /\ at' = 1
    BY <1>4 DEF Attended, NoBatch
  <2>2. Len(batch') = 0 /\ Len(plan') = 0
    BY <2>1
  <2>3. TypeOK'
    BY <1>1, <1>2, <2>1, <2>2 DEF IInv, TypeOK
  <2>4. NoStageAlias' /\ Phase' /\ SavedCells' /\ Room' /\ OwnCells' /\ Overlay'
    <3>1. pos' \in [Cells -> -1 .. MaxLen - 1] /\ saved' = <<>>
      BY <1>1, <1>2 DEF IInv, TypeOK
    <3> QED BY <2>1, <3>1, BetweenBatches
  <2>5. Base = seqs /\ Base' = seqs
    BY <1>1, <2>1 DEF Base, DryRun
  <2>6. \A t \in 1 .. Len(plan) : seqs[plan[t]] # {}
    BY <1>2, <1>3, <1>4 DEF IInv, Overlay
  <2>7. \A g \in Groups : Filled(g)' = Filled(g)
    BY <2>2, <2>5, <2>6 DEF Filled
  <2>8. \A g \in Groups, s \in Seqs : Claims(s, g)' => Claims(s, g)
    BY <2>2, <2>5 DEF Claims
  <2>9. SlotsApart' /\ SlotsOwned' /\ FullSealed'
    BY <1>1, <2>1, <2>7, SameFilled DEF IInv
  <2>10. OneClaim'
    BY <1>1, <2>2, <2>8, FewerClaims DEF IInv
  <2> QED BY <2>3, <2>4, <2>9, <2>10 DEF IInv
<1>5. CASE at # Len(batch)
  <2>1. pc' = "apply" /\ at' = at + 1 /\ batch' = batch /\ plan' = plan
    BY <1>5 DEF Attended
  <2>2. at + 1 = FirstOf(UbatchOf(at + 1)) /\ at + 1 \in 1 .. Len(batch)
    <3>1. at < Len(batch) /\ at + 1 \in 1 .. Len(batch)
      BY <1>2, <1>5
    <3>2. LastOf(UbatchOf(at)) + 1 = FirstOf(UbatchOf(LastOf(UbatchOf(at)) + 1))
      <4>1. LastOf(UbatchOf(at)) < Len(batch)
        BY <1>2, <3>1
      <4> QED BY <1>2, <4>1, UbatchBounds
    <3> QED BY <1>2, <3>1, <3>2
  <2>3. Applied' = at
    BY <1>2, <2>1 DEF Applied, DryRun
  <2>4. TypeOK'
    <3>1. at' \in 1 .. MaxBatch
      BY <1>2, <2>1, <2>2
    <3> QED BY <1>1, <2>1, <3>1 DEF IInv, TypeOK
  <2>5. NoStageAlias' /\ OwnCells' /\ SavedCells'
    BY <1>1, <1>2, <2>1 DEF IInv, NoStageAlias, OwnCells, SavedCells, DryRun
  <2>6. Phase'
    BY <1>2, <2>1, <2>2 DEF Phase
  <2>7. Room'
    <3>1. \A s, n : Todo(s, n)' = Todo(s, n)
      BY <2>1 DEF Todo
    <3>2. RoomFor(pos, seqs, at)
      BY <1>3 DEF IInv, Room
    <3>3. RoomFor(pos, seqs, Applied)'
      BY <1>1, <2>3, <3>1, <3>2 DEF RoomFor
    <3> QED BY <2>1, <3>3 DEF Room, DryRun
  <2>8. Overlay'
    BY <1>1, <1>3, <2>1, <2>3 DEF IInv, Overlay, DryRun
  <2>9. Base' = Base
    BY <1>1, <2>1 DEF Base, DryRun
  <2>10. OneClaim' /\ SlotsApart' /\ SlotsOwned' /\ FullSealed'
    <3>1. /\ \A g \in Groups : Filled(g)' = Filled(g)
          /\ \A g \in Groups, s \in Seqs : Claims(s, g)' => Claims(s, g)
      BY <2>1, <2>9, SameCache
    <3>2. SlotsApart' /\ SlotsOwned' /\ FullSealed'
      BY <1>1, <2>1, <3>1, SameFilled DEF IInv
    <3> QED BY <1>1, <2>1, <3>1, <3>2, FewerClaims DEF IInv
  <2> QED BY <2>4, <2>5, <2>6, <2>7, <2>8, <2>10 DEF IInv
<1> QED BY <1>4, <1>5

(* A token found no cell: the cells are put back, the batch is given up.   *)
LEMMA FindFailStep == ASSUME IInv, FindFail PROVE IInv'
<1>1. /\ pc = "find" /\ pc' = "failed" /\ pos' = saved[1] /\ seqs' = saved[2]
      /\ owners' = NoOwners /\ batch' = <<>> /\ plan' = <<>> /\ at' = 1 /\ saved' = <<>>
      /\ UNCHANGED <<heads, sealed, staged, recorded, copied>>
  BY DEF FindFail, payload, NoBatch
<1>2. /\ pos' \in [Cells -> -1 .. MaxLen - 1] /\ seqs' \in [Cells -> SUBSET Seqs]
      /\ \A c \in Cells : pos'[c] = -1 <=> seqs'[c] = {}
  <2>1. /\ saved \in [Cells -> -1 .. MaxLen - 1] \X [Cells -> SUBSET Seqs]
        /\ \A c \in Cells : saved[1][c] = -1 <=> saved[2][c] = {}
    BY <1>1 DEF IInv, SavedCells, DryRun
  <2> QED BY <1>1, <2>1
<1>3. Len(batch') = 0 /\ Len(plan') = 0 /\ MaxBatch \in Nat \ {0}
  BY <1>1, AllocAssumption
<1>4. TypeOK'
  BY <1>1, <1>2, <1>3 DEF IInv, TypeOK, NoOwners
<1>5. NoStageAlias' /\ Phase' /\ SavedCells' /\ Room' /\ OwnCells' /\ Overlay'
  BY <1>1, <1>2, BetweenBatches
<1>6. Base' = Base
  BY <1>1 DEF Base, DryRun
<1>7. \A g \in Groups, s \in Seqs : Claims(s, g)' => Claims(s, g)
  BY <1>3, <1>6 DEF Claims
<1>8. OneClaim'
  BY <1>1, <1>3, <1>7, FewerClaims DEF IInv
<1>9. SlotsApart' /\ SlotsOwned' /\ FullSealed'
  BY <1>1 DEF SlotsApart, SlotsOwned, FullSealed
<1> QED BY <1>4, <1>5, <1>8, <1>9 DEF IInv

-----------------------------------------------------------------------------
(* An edit between batches takes tokens out of cells and puts none into an *)
(* empty one; after a failed batch it empties them all.                    *)
LEMMA EditKeeps ==
    ASSUME IInv, pc \in {"idle", "failed"}, pc' = "idle", EditOnly,
           pos' \in [Cells -> -1 .. MaxLen - 1], seqs' \in [Cells -> SUBSET Seqs],
           heads' \in [Seqs -> 0 .. NCells],
           \A c \in Cells : pos'[c] = -1 <=> seqs'[c] = {},
           \A c \in Cells : seqs[c] = {} => seqs'[c] = {},
           pc = "failed" => \A c \in Cells : seqs'[c] = {}
    PROVE  IInv'
<1>1. /\ UNCHANGED <<sealed, owners, batch, plan, at, saved>>
      /\ staged' \subseteq staged /\ recorded' \subseteq recorded
      /\ copied' = {g \in copied \cup Shared : \E c \in CellsOf(g) : seqs'[c] # {}}
  BY DEF EditOnly, EditRows
<1>2. batch = <<>> /\ plan = <<>> /\ at = 1 /\ saved = <<>> /\ Len(plan) = 0 /\ Len(plan') = 0
  BY <1>1 DEF IInv, Phase, SavedCells, DryRun
<1>3. TypeOK'
  BY <1>1 DEF IInv, TypeOK
<1>4. NoStageAlias' /\ Phase' /\ SavedCells' /\ Room' /\ OwnCells' /\ Overlay'
  BY <1>1, <1>2, BetweenBatches
<1>5. Base = seqs /\ Base' = seqs'
  BY DEF Base, DryRun
<1>6. OneClaim'
  <2> SUFFICES ASSUME NEW g \in Groups, g \notin copied', NEW r \in Seqs, NEW s \in Seqs,
                      Claims(r, g)', Claims(s, g)'
               PROVE  r = s
    BY <1>2 DEF OneClaim
  <2>1. (\E c \in CellsOf(g) : r \in seqs'[c]) /\ (\E c \in CellsOf(g) : s \in seqs'[c])
    BY <1>2, <1>5 DEF Claims
  <2>2. g \notin copied /\ g \notin Shared
    BY <1>1, <2>1
  <2>3. \A c \in CellsOf(g) : seqs'[c] \subseteq seqs[c]
    BY <2>2 DEF Shared
  <2>4. Claims(r, g) /\ Claims(s, g)
    BY <1>5, <2>1, <2>3 DEF Claims
  <2> QED BY <2>2, <2>4 DEF IInv, OneClaim
<1>7. \A g \in Groups : Filled(g)' = {c \in CellsOf(g) : seqs'[c] # {}}
  BY <1>2, <1>5 DEF Filled
<1>8. \A g \in Groups : CellsOf(g) # {}
  <2>1. G \in Nat \ {0}
    BY AllocAssumption
  <2> QED BY <2>1, FiniteCells, FS_EmptySet
<1>9. CASE pc = "failed"
  <2>1. \A g \in Groups : Filled(g)' = {}
    BY <1>7, <1>9, GroupCells
  <2>2. SlotsApart' /\ SlotsOwned' /\ FullSealed'
    BY <1>8, <2>1 DEF SlotsApart, SlotsOwned, FullSealed, Incomplete
  <2> QED BY <1>3, <1>4, <1>6, <2>2 DEF IInv
<1>10. CASE pc = "idle"
  <2>1. ASSUME NEW g \in Groups
        PROVE  Filled(g) \subseteq CellsOf(g) /\ Filled(g)' \subseteq Filled(g)
    <3>1. Filled(g) = {c \in CellsOf(g) : seqs[c] # {}}
      BY <1>2, <1>5 DEF Filled
    <3> QED BY <1>7, <3>1, GroupCells
  <2>2. FullSealed'
    <3>1. ASSUME NEW g \in Groups, g > 0, Filled(g)' = CellsOf(g) PROVE sealed'[g]
      <4>1. Filled(g) = CellsOf(g)
        BY <2>1, <3>1
      <4> QED BY <1>1, <1>10, <3>1, <4>1 DEF IInv, FullSealed
    <3>2. \A g \in Groups : CellsOf(g)' = CellsOf(g)
      BY DEF CellsOf
    <3> QED BY <3>1, <3>2 DEF FullSealed
  <2>3. ASSUME NEW g \in Groups, Incomplete(g)' PROVE Incomplete(g)
    <3>1. g > 0 /\ Filled(g)' # {} /\ ~sealed[g]
      BY <1>1, <2>3 DEF Incomplete
    <3>2. Filled(g) # CellsOf(g)
      BY <1>10, <3>1 DEF IInv, FullSealed
    <3> QED BY <2>1, <3>1, <3>2 DEF Incomplete
  <2>4. SlotsApart'
    BY <1>10, <2>3 DEF IInv, SlotsApart, stage_slot
  <2>5. SlotsOwned'
    BY DEF SlotsOwned
  <2> QED BY <1>3, <1>4, <1>6, <2>2, <2>4, <2>5 DEF IInv
<1> QED BY <1>9, <1>10

(* Positions after an edit: blank where the cell was emptied.              *)
LEMMA BlankedCells ==
    ASSUME TypeOK, seqs' \in [Cells -> SUBSET Seqs], pos' = Blanked(seqs'),
           \A c \in Cells : seqs[c] = {} => seqs'[c] = {}
    PROVE  /\ pos' \in [Cells -> -1 .. MaxLen - 1]
           /\ \A c \in Cells : pos'[c] = -1 <=> seqs'[c] = {}
<1>1. \A c \in Cells : pos[c] \in -1 .. MaxLen - 1 /\ (pos[c] = -1 <=> seqs[c] = {})
  BY DEF TypeOK
<1>2. -1 \in -1 .. MaxLen - 1
  BY AllocAssumption
<1>3. pos' = [c \in Cells |-> IF seqs'[c] = {} THEN -1 ELSE pos[c]]
  BY DEF Blanked
<1> QED BY <1>1, <1>2, <1>3

(* The heads an edit rebuilds.                                             *)
LEMMA RebuiltAfter ==
    ASSUME NEW s \in Seqs, seqs' \in [Cells -> SUBSET Seqs], pos' \in [Cells -> -1 .. MaxLen - 1]
    PROVE  rebuilt(seqs', pos', s) \in 0 .. NCells
<1>1. PICK sq \in [Cells -> SUBSET Seqs] : sq = seqs'
  OBVIOUS
<1>2. PICK ps \in [Cells -> -1 .. MaxLen - 1] : ps = pos'
  OBVIOUS
<1>3. rebuilt(sq, ps, s) \in 0 .. NCells
  BY RebuiltInCache
<1> QED BY <1>1, <1>2, <1>3

(* llama_memory_clear.                                                     *)
LEMMA ClearStep == ASSUME IInv, clear PROVE IInv'
<1>1. /\ pc \in {"idle", "failed"} /\ pc' = "idle" /\ EditOnly
      /\ pos' = [c \in Cells |-> -1] /\ seqs' = [c \in Cells |-> {}]
      /\ heads' = [s \in Seqs |-> 0]
  BY DEF clear
<1>2. MaxLen \in Nat \ {0} /\ NCells \in Nat
  BY AllocAssumption DEF NCells
<1>3. /\ pos' \in [Cells -> -1 .. MaxLen - 1] /\ seqs' \in [Cells -> SUBSET Seqs]
      /\ heads' \in [Seqs -> 0 .. NCells]
      /\ \A c \in Cells : pos'[c] = -1 /\ seqs'[c] = {}
  BY <1>1, <1>2
<1> QED BY <1>1, <1>3, EditKeeps

(* seq_rm, with the head of the sequence rebuilt.                          *)
LEMMA SeqRmStep ==
    ASSUME IInv, NEW s \in Seqs, NEW p0 \in 0 .. MaxLen - 1, seq_rm(s, p0) PROVE IInv'
<1>1. /\ pc = "idle" /\ pc' = "idle" /\ EditOnly
      /\ seqs' = Without(s, {c \in Cells : pos[c] >= p0}) /\ pos' = Blanked(seqs')
      /\ heads' = [heads EXCEPT ![s] = rebuilt(seqs', pos', s)]
  BY DEF seq_rm
<1>2. seqs' \in [Cells -> SUBSET Seqs] /\ \A c \in Cells : seqs[c] = {} => seqs'[c] = {}
  BY <1>1 DEF IInv, TypeOK, Without
<1>3. /\ pos' \in [Cells -> -1 .. MaxLen - 1]
      /\ \A c \in Cells : pos'[c] = -1 <=> seqs'[c] = {}
  BY <1>1, <1>2, BlankedCells DEF IInv
<1>4. heads' \in [Seqs -> 0 .. NCells]
  BY <1>1, <1>2, <1>3, RebuiltAfter DEF IInv, TypeOK
<1> QED BY <1>1, <1>2, <1>3, <1>4, EditKeeps

(* seq_keep, with every head rebuilt.                                      *)
LEMMA SeqKeepStep == ASSUME IInv, NEW s \in Seqs, seq_keep(s) PROVE IInv'
<1>1. /\ pc = "idle" /\ pc' = "idle" /\ EditOnly
      /\ seqs' = [c \in Cells |-> seqs[c] \cap {s}] /\ pos' = Blanked(seqs')
      /\ heads' = [r \in Seqs |-> rebuilt(seqs', pos', r)]
  BY DEF seq_keep
<1>2. seqs' \in [Cells -> SUBSET Seqs] /\ \A c \in Cells : seqs[c] = {} => seqs'[c] = {}
  BY <1>1 DEF IInv, TypeOK
<1>3. /\ pos' \in [Cells -> -1 .. MaxLen - 1]
      /\ \A c \in Cells : pos'[c] = -1 <=> seqs'[c] = {}
  BY <1>1, <1>2, BlankedCells DEF IInv
<1>4. heads' \in [Seqs -> 0 .. NCells]
  BY <1>1, <1>2, <1>3, RebuiltAfter
<1> QED BY <1>1, <1>2, <1>3, <1>4, EditKeeps

(* seq_cp: the destination is emptied, then shares the source's cells.     *)
LEMMA SeqCpStep ==
    ASSUME IInv, NEW src \in Seqs, NEW dst \in Seqs, seq_cp(src, dst) PROVE IInv'
<1> DEFINE bare == Without(dst, Cells)
<1>1. /\ pc = "idle" /\ pc' = "idle" /\ EditOnly
      /\ seqs' = [c \in Cells |-> IF src \in bare[c] THEN bare[c] \cup {dst} ELSE bare[c]]
      /\ pos' = Blanked(seqs')
      /\ heads' = [heads EXCEPT ![dst] = rebuilt(seqs', pos', dst)]
  BY DEF seq_cp
<1>2. \A c \in Cells : bare[c] = seqs[c] \ {dst}
  BY DEF Without
<1> HIDE DEF bare
<1>3. seqs' \in [Cells -> SUBSET Seqs] /\ \A c \in Cells : seqs[c] = {} => seqs'[c] = {}
  BY <1>1, <1>2 DEF IInv, TypeOK
<1>4. /\ pos' \in [Cells -> -1 .. MaxLen - 1]
      /\ \A c \in Cells : pos'[c] = -1 <=> seqs'[c] = {}
  BY <1>1, <1>3, BlankedCells DEF IInv
<1>5. heads' \in [Seqs -> 0 .. NCells]
  BY <1>1, <1>3, <1>4, RebuiltAfter DEF IInv, TypeOK
<1> QED BY <1>1, <1>3, <1>4, <1>5, EditKeeps

(* A group that has a token of the batch has no other sequence's; so what  *)
(* a failed graph leaves in a group is what was there.                     *)
LEMMA FailLeaves ==
    ASSUME IInv, NEW S \in SUBSET Seqs, GraphFails(S), NEW g \in Groups, g \notin copied',
           NEW c \in CellsOf(g), seqs'[c] # {}
    PROVE  /\ g \notin copied
           /\ \A t \in 1 .. Len(plan) : Group(plan[t]) # g
           /\ \A d \in CellsOf(g) : d \in Cells /\ seqs'[d] = seqs[d]
<1>1. /\ pc \in {"store", "attend"} /\ seqs' = [d \in Cells |-> seqs[d] \ S]
      /\ \A t \in 1 .. Len(batch) : batch[t] \in S
      /\ copied' = {h \in copied \cup Shared : \E d \in CellsOf(h) : seqs'[d] # {}}
  BY DEF GraphFails, EditRows
<1>2. g \notin copied
  BY <1>1
<1>3. \A d \in CellsOf(g) : d \in Cells /\ seqs'[d] = seqs[d] \ S
  BY <1>1, GroupCells
<1>4. PICK s \in Seqs : s \in seqs[c] /\ s \notin S
  BY <1>3 DEF IInv, TypeOK
<1>5. Base = seqs
  BY <1>1 DEF Base, DryRun
<1>6. Claims(s, g)
  BY <1>4, <1>5 DEF Claims
<1>7. ASSUME NEW t \in 1 .. Len(plan), Group(plan[t]) = g PROVE FALSE
  <2>1. /\ Len(plan) \in Nat /\ Len(batch) \in Nat /\ Len(plan) <= Len(batch)
        /\ batch \in Seq(Seqs)
    BY DEF IInv, TypeOK
  <2>2. t \in 1 .. Len(batch)
    BY <2>1
  <2>3. batch[t] \in Seqs /\ batch[t] \in S
    BY <1>1, <2>1, <2>2
  <2>4. Claims(batch[t], g)
    BY <1>7 DEF Claims
  <2> QED BY <1>2, <1>4, <1>6, <2>3, <2>4 DEF IInv, OneClaim
<1>8. ASSUME NEW d \in CellsOf(g), NEW r \in seqs[d] PROVE r \notin S
  <2>1. r \in Seqs
    BY <1>3 DEF IInv, TypeOK
  <2>2. Claims(r, g)
    BY <1>5 DEF Claims
  <2> QED BY <1>2, <1>4, <1>6, <2>1, <2>2 DEF IInv, OneClaim
<1> QED BY <1>2, <1>3, <1>7, <1>8

(* The graph of a ubatch fails.                                            *)
LEMMA GraphFailsStep ==
    ASSUME IInv, NEW S \in SUBSET Seqs, GraphFails(S) PROVE IInv'
<1>1. /\ pc \in {"store", "attend"} /\ pc' = "idle"
      /\ seqs' = [c \in Cells |-> seqs[c] \ S] /\ pos' = Blanked(seqs')
      /\ heads' = [s \in Seqs |-> IF s \in S THEN 0 ELSE heads[s]]
      /\ batch' = <<>> /\ plan' = <<>> /\ at' = 1 /\ UNCHANGED <<sealed, owners, saved>>
      /\ staged' \subseteq staged /\ recorded' \subseteq recorded
      /\ copied' = {g \in copied \cup Shared : \E c \in CellsOf(g) : seqs'[c] # {}}
  BY DEF GraphFails, EditRows, NoBatch
<1>2. /\ seqs' \in [Cells -> SUBSET Seqs] /\ \A c \in Cells : seqs'[c] \subseteq seqs[c]
      /\ \A c \in Cells : seqs[c] = {} => seqs'[c] = {}
  BY <1>1 DEF IInv, TypeOK
<1>3. /\ pos' \in [Cells -> -1 .. MaxLen - 1]
      /\ \A c \in Cells : pos'[c] = -1 <=> seqs'[c] = {}
  BY <1>1, <1>2, BlankedCells DEF IInv
<1>4. heads' \in [Seqs -> 0 .. NCells]
  <2>1. 0 \in 0 .. NCells
    BY AllocAssumption DEF NCells
  <2> QED BY <1>1, <2>1 DEF IInv, TypeOK
<1>5. Len(batch') = 0 /\ Len(plan') = 0 /\ saved' = <<>> /\ MaxBatch \in Nat \ {0}
  BY <1>1, AllocAssumption DEF IInv, SavedCells, DryRun
<1>6. TypeOK'
  <2>1. /\ batch' \in Seq(Seqs) /\ Len(batch') <= MaxBatch
        /\ plan' \in Seq(Cells) /\ Len(plan') <= Len(batch') /\ at' \in 1 .. MaxBatch
    BY <1>1, <1>5
  <2>2. /\ sealed' \in [Groups -> BOOLEAN] /\ owners' \in [Slots -> Groups \cup {NoGroup}]
        /\ staged' \subseteq Cells /\ recorded' \subseteq Cells
    BY <1>1 DEF IInv, TypeOK
  <2>3. pc' = "idle"
    BY <1>1
  <2> QED BY ONLY <1>2, <1>3, <1>4, <2>1, <2>2, <2>3 DEF TypeOK, Cells, Groups, Slots, NCells
<1>7. NoStageAlias' /\ Phase' /\ SavedCells' /\ Room' /\ OwnCells' /\ Overlay'
  BY <1>1, <1>3, <1>5, BetweenBatches
<1>8. Base = seqs /\ Base' = seqs'
  BY <1>1 DEF Base, DryRun
<1>9. OneClaim'
  <2> SUFFICES ASSUME NEW g \in Groups, g \notin copied', NEW r \in Seqs, NEW s \in Seqs,
                      Claims(r, g)', Claims(s, g)'
               PROVE  r = s
    BY <1>5 DEF OneClaim
  <2>1. (\E c \in CellsOf(g) : r \in seqs'[c]) /\ (\E c \in CellsOf(g) : s \in seqs'[c])
    BY <1>5, <1>8 DEF Claims
  <2>2. g \notin copied
    BY <1>1, <2>1
  <2>3. Claims(r, g) /\ Claims(s, g)
    BY <1>2, <1>8, <2>1, GroupCells DEF Claims
  <2> QED BY <2>2, <2>3 DEF IInv, OneClaim
<1>10. ASSUME NEW g \in Groups
       PROVE  Filled(g) \subseteq CellsOf(g) /\ Filled(g)' \subseteq Filled(g)
  <2>1. Filled(g)' = {c \in CellsOf(g) : seqs'[c] # {}}
    BY <1>5, <1>8 DEF Filled
  <2>2. {c \in CellsOf(g) : seqs[c] # {}} \subseteq Filled(g)
    BY <1>8 DEF Filled
  <2>3. Filled(g) \subseteq CellsOf(g)
    BY DEF Filled
  <2> QED BY <1>2, <2>1, <2>2, <2>3, GroupCells
<1>11. FullSealed'
  <2>1. ASSUME NEW g \in Groups, g > 0, Filled(g)' = CellsOf(g) PROVE sealed'[g]
    <3>1. Filled(g) = CellsOf(g)
      BY <1>10, <2>1
    <3> QED BY <1>1, <2>1, <3>1 DEF IInv, FullSealed
  <2>2. \A g \in Groups : CellsOf(g)' = CellsOf(g)
    BY DEF CellsOf
  <2> QED BY <2>1, <2>2 DEF FullSealed
<1>12. ASSUME NEW g \in Groups, Incomplete(g)' PROVE Incomplete(g)
  <2>1. g > 0 /\ Filled(g)' # {} /\ ~sealed[g]
    BY <1>1, <1>12 DEF Incomplete
  <2>2. Filled(g) # CellsOf(g)
    BY <1>1, <2>1 DEF IInv, FullSealed
  <2> QED BY <1>10, <2>1, <2>2 DEF Incomplete
<1>13. SlotsApart'
  BY <1>1, <1>12 DEF IInv, SlotsApart, stage_slot
<1>14. SlotsOwned'
  BY <1>1 DEF SlotsOwned
<1> QED BY <1>6, <1>7, <1>9, <1>11, <1>13, <1>14 DEF IInv

-----------------------------------------------------------------------------
(* How full a group is, by the number of its cells.                        *)
LEMMA Counted ==
    ASSUME NEW g \in Groups, NEW F \in SUBSET CellsOf(g)
    PROVE  /\ IsFiniteSet(F) /\ Cardinality(F) \in Nat
           /\ Cardinality(F) = 0 <=> F = {}
           /\ Cardinality(F) >= G <=> F = CellsOf(g)
<1>1. IsFiniteSet(CellsOf(g)) /\ Cardinality(CellsOf(g)) = G /\ G \in Nat
  BY FiniteCells, AllocAssumption
<1>2. /\ IsFiniteSet(F) /\ Cardinality(F) <= Cardinality(CellsOf(g))
      /\ Cardinality(CellsOf(g)) = Cardinality(F) => CellsOf(g) = F
  BY <1>1, FS_Subset
<1>3. Cardinality(F) \in Nat /\ (Cardinality(F) = 0 <=> F = {})
  BY <1>2, FS_CardinalityType, FS_EmptySet
<1> QED BY <1>1, <1>2, <1>3

(* The slots of the ring are not the sink's.                               *)
LEMMA RingSlot ==
    ASSUME NEW g \in Groups
    PROVE  stage_slot(g) \in Slots /\ (g > 0 => stage_slot(g) # 0)
<1>1. StageGroups \in Nat \ {0} /\ NGroups \in Nat
  BY AllocAssumption
<1>2. g \in Nat
  BY <1>1 DEF Groups
<1>3. CASE g = 0
  BY <1>1, <1>3 DEF stage_slot, Slots
<1>4. CASE g > 0
  <2>1. g - 1 \in Nat
    BY <1>2, <1>4
  <2>2. PICK r \in 0 .. StageGroups - 1 : r = (g - 1) % StageGroups
    BY <1>1, <2>1, DivMod
  <2>3. stage_slot(g) = 1 + r
    BY <1>4, <2>2 DEF stage_slot
  <2> QED BY <1>1, <2>2, <2>3 DEF Slots
<1> QED BY <1>2, <1>3, <1>4

(* In the dry run a cell that is occupied and not the dry run's was so     *)
(* before, and one that was occupied before is not planned.                *)
LEMMA DryCells ==
    ASSUME IInv, pc \in DryRun, NEW c \in Cells
    PROVE  /\ Base = saved[2]
           /\ Base[c] # {} => seqs[c] = Base[c]
           /\ (\A t \in 1 .. Len(plan) : t <= Applied => plan[t] # c) => seqs[c] = Base[c]
<1>1. Base = saved[2]
  BY DEF Base
<1>2. /\ \A t \in 1 .. Len(plan) : saved[2][plan[t]] = {}
      /\ \/ seqs[c] = saved[2][c]
         \/ \E t \in 1 .. Len(plan) : t <= Applied /\ plan[t] = c
  BY DEF IInv, Overlay
<1> QED BY <1>1, <1>2

(* What a find_slot call starts from: emptied groups lose their seal, and  *)
(* every incomplete group owns its stage slot.                             *)
LEMMA SeedEffect ==
    ASSUME IInv, FindSeed
    PROVE  /\ pc' = "find" /\ \A g \in Groups : Filled(g)' = Filled(g)
           /\ sealed' \in [Groups -> BOOLEAN] /\ owners' \in [Slots -> Groups \cup {NoGroup}]
           /\ \A g \in Groups : g > 0 =>
                 (sealed'[g] <=> Filled(g) # {} /\ (Filled(g) = CellsOf(g) \/ sealed[g]))
           /\ \A g \in Groups : Incomplete(g)' => owners'[stage_slot(g)] = g
<1>1. /\ pc = "seed" /\ UNCHANGED <<pos, seqs, heads, batch, plan, at, saved, copied>>
  BY DEF FindSeed
<1>2. /\ at \in 1 .. Len(batch) /\ at = FirstOf(UbatchOf(at)) /\ Len(plan) = at - 1
      /\ Len(batch) \in Nat
  BY <1>1 DEF IInv, Phase, TypeOK
<1>3. Applied = at - 1 /\ pc \in DryRun
  BY <1>1, <1>2 DEF Applied, DryRun
<1>4. ASSUME NEW g \in Groups PROVE {c \in CellsOf(g) : ~is_empty(c)} = Filled(g)
  <2>1. ASSUME NEW c \in CellsOf(g)
        PROVE  seqs[c] # {} <=> (Base[c] # {} \/ \E t \in 1 .. Len(plan) : plan[t] = c)
    <3>1. c \in Cells
      BY GroupCells
    <3>2. \A t \in 1 .. Len(plan) : seqs[plan[t]] = {batch[t]}
      BY <1>2, <1>3 DEF IInv, Overlay
    <3> QED BY <1>3, <3>1, <3>2, DryCells
  <2> QED BY <2>1 DEF Filled, is_empty
<1>5. ASSUME NEW g \in Groups
      PROVE  /\ Used(g) \in Nat /\ (Used(g) = 0 <=> Filled(g) = {})
             /\ Used(g) >= G <=> Filled(g) = CellsOf(g)
  <2>1. Used(g) = Cardinality(Filled(g))
    BY <1>4 DEF Used
  <2>2. Filled(g) \in SUBSET CellsOf(g)
    BY DEF Filled
  <2> QED BY <2>1, <2>2, Counted
<1>6. G \in Nat \ {0, 1} /\ StageGroups \in Nat \ {0} /\ NGroups \in Nat /\ NGroups >= StageGroups
  BY AllocAssumption
<1>7. ASSUME NEW g \in Groups PROVE Live(g) <=> Incomplete(g)
  <2>1. Used(g) \in 1 .. G - 1 <=> ~(Used(g) = 0) /\ ~(Used(g) >= G)
    BY <1>5, <1>6
  <2> QED BY <1>5, <2>1 DEF Live, Incomplete
<1>8. \A g, h \in Groups : Live(g) /\ Live(h) /\ stage_slot(g) = stage_slot(h) => g = h
  BY <1>1, <1>7 DEF IInv, SlotsApart
<1>9. /\ pc' = "find" /\ sealed' = seededSeal
      /\ owners' = [t \in Slots |->
            IF t = 0 THEN IF is_empty(0) THEN NoGroup ELSE 0
            ELSE IF \E g \in Groups : Live(g) /\ stage_slot(g) = t
                 THEN CHOOSE g \in Groups : Live(g) /\ stage_slot(g) = t
                 ELSE NoGroup]
  BY <1>8 DEF FindSeed
<1>10. sealed' \in [Groups -> BOOLEAN] /\ owners' \in [Slots -> Groups \cup {NoGroup}]
  <2>1. 0 \in Groups
    BY <1>6 DEF Groups
  <2>2. owners' \in [Slots -> Groups \cup {NoGroup}]
    <3>1. \A t \in Slots : (\E g \in Groups : Live(g) /\ stage_slot(g) = t) =>
             (CHOOSE g \in Groups : Live(g) /\ stage_slot(g) = t) \in Groups
      OBVIOUS
    <3> QED BY <1>9, <2>1, <3>1
  <2>3. sealed' \in [Groups -> BOOLEAN]
    <3>1. sealed \in [Groups -> BOOLEAN]
      BY DEF IInv, TypeOK
    <3> QED BY <1>9, <2>1, <3>1 DEF seededSeal
  <2> QED BY <2>2, <2>3
<1>11. \A g \in Groups : Filled(g)' = Filled(g)
  <2>1. Base' = Base
    BY <1>1, <1>9 DEF Base, DryRun
  <2> QED BY <1>1, <2>1 DEF Filled
<1>12. ASSUME NEW g \in Groups, g > 0
       PROVE  sealed'[g] <=> (Filled(g) # {} /\ (Filled(g) = CellsOf(g) \/ sealed[g]))
  <2>1. g # 0 /\ sealed[g] \in BOOLEAN
    BY <1>6, <1>12 DEF IInv, TypeOK, Groups
  <2>2. sealed'[g] = IF Used(g) = 0 THEN FALSE ELSE Used(g) >= G \/ sealed[g]
    BY <1>9, <2>1 DEF seededSeal
  <2> QED BY <1>5, <2>1, <2>2
<1>13. ASSUME NEW g \in Groups, Incomplete(g)' PROVE owners'[stage_slot(g)] = g
  <2>1. g > 0 /\ Filled(g) # {} /\ Filled(g) # CellsOf(g) /\ ~sealed'[g]
    BY <1>11, <1>13 DEF Incomplete
  <2>2. Live(g)
    BY <1>7, <1>12, <2>1 DEF Incomplete
  <2>3. PICK t \in Slots : t = stage_slot(g) /\ t # 0
    BY <2>1, RingSlot
  <2>4. owners'[t] = CHOOSE h \in Groups : Live(h) /\ stage_slot(h) = t
    BY <1>9, <2>2, <2>3
  <2>5. \A h \in Groups : Live(h) /\ stage_slot(h) = t => h = g
    BY <1>8, <2>2, <2>3
  <2>6. (CHOOSE h \in Groups : Live(h) /\ stage_slot(h) = t) = g
    BY <2>2, <2>3, <2>5
  <2> QED BY <2>3, <2>4, <2>6
<1> QED BY <1>9, <1>10, <1>11, <1>12, <1>13

(* At the start of a find_slot call: which groups hold a stage slot, and   *)
(* which seals are cleared and set.                                        *)
LEMMA FindSeedStep == ASSUME IInv, FindSeed PROVE IInv'
<1>1. /\ pc = "seed"
      /\ UNCHANGED <<pos, seqs, heads, staged, recorded, batch, plan, at, saved, copied>>
  BY DEF FindSeed, payload
<1>2. /\ pc' = "find" /\ \A g \in Groups : Filled(g)' = Filled(g)
      /\ sealed' \in [Groups -> BOOLEAN] /\ owners' \in [Slots -> Groups \cup {NoGroup}]
      /\ \A g \in Groups : g > 0 =>
            (sealed'[g] <=> Filled(g) # {} /\ (Filled(g) = CellsOf(g) \/ sealed[g]))
      /\ \A g \in Groups : Incomplete(g)' => owners'[stage_slot(g)] = g
  BY SeedEffect
<1>3. TypeOK'
  BY <1>1, <1>2 DEF IInv, TypeOK
<1>4. NoStageAlias' /\ OwnCells' /\ SavedCells' /\ Phase'
  BY <1>1, <1>2 DEF IInv, NoStageAlias, OwnCells, SavedCells, Phase, DryRun
<1>5. Applied' = Applied /\ pc \in DryRun
  BY <1>1, <1>2 DEF Applied, DryRun
<1>6. Room' /\ Overlay'
  <2>1. \A s, n : Todo(s, n)' = Todo(s, n)
    BY <1>1 DEF Todo
  <2>2. RoomFor(pos, seqs, Applied)'
    BY <1>1, <1>5, <2>1 DEF IInv, Room, RoomFor
  <2>3. RoomFor(saved[1], saved[2], 0)'
    BY <1>1, <1>5, <2>1 DEF IInv, Room, RoomFor
  <2>4. Overlay'
    BY <1>1, <1>5 DEF IInv, Overlay
  <2> QED BY <2>2, <2>3, <2>4 DEF Room
<1>7. OneClaim'
  <2>1. Base' = Base
    BY <1>1, <1>2 DEF Base, DryRun
  <2>2. \A g \in Groups, s \in Seqs : Claims(s, g)' => Claims(s, g)
    BY <1>1, <2>1, SameCache
  <2> QED BY <1>1, <2>2, FewerClaims DEF IInv
<1>8. FullSealed'
  <2>1. \A g \in Groups : CellsOf(g) # {}
    BY AllocAssumption, FiniteCells, FS_EmptySet
  <2> QED BY <1>2, <2>1 DEF FullSealed
<1>9. SlotsOwned'
  <2>1. \A g \in Groups : g > 0 /\ sealed'[g] => Filled(g)' # {}
    BY <1>2
  <2>2. \A g \in Groups : stage_slot(g)' = stage_slot(g)
    BY DEF stage_slot
  <2> QED BY <1>2, <2>1, <2>2 DEF SlotsOwned
<1>10. SlotsApart'
  BY <1>2 DEF SlotsApart
<1> QED BY <1>3, <1>4, <1>6, <1>7, <1>8, <1>9, <1>10 DEF IInv

-----------------------------------------------------------------------------
(* Where a find_slot call is.                                              *)
LEMMA FindAt ==
    ASSUME IInv, pc = "find"
    PROVE  \E u \in Nat, f \in Nat, l \in Nat :
              /\ u = UbatchOf(at) /\ f = FirstOf(u) /\ l = LastOf(u)
              /\ 1 <= f /\ f <= at /\ at <= l /\ l <= Len(batch)
              /\ at \in Nat /\ Len(batch) \in Nat /\ Len(plan) = at - 1
              /\ Placed = f .. at - 1 /\ Applied = f - 1 /\ TokensOf(u) = f .. l
              /\ \A v \in f .. l : UbatchOf(v) = u
<1>1. at \in 1 .. Len(batch) /\ Len(batch) \in Nat /\ Len(plan) = at - 1 /\ at \in Nat
  BY DEF IInv, Phase, TypeOK
<1>2. PICK u \in Nat, f \in Nat, l \in Nat :
         /\ u = UbatchOf(at) /\ f = FirstOf(u) /\ l = LastOf(u)
         /\ f \in 1 .. at /\ l \in at .. Len(batch) /\ \A v \in f .. l : UbatchOf(v) = u
  BY <1>1, UbatchExists
<1>3. Placed = f .. at - 1 /\ Applied = f - 1 /\ TokensOf(u) = f .. l
  BY <1>2 DEF Placed, Applied, TokensOf, DryRun
<1> QED BY <1>1, <1>2, <1>3

(* group_used counts the cells of the group that are, or will be, filled.  *)
LEMMA GroupUsed ==
    ASSUME IInv, pc = "find", NEW g \in Groups
    PROVE  group_used(g) = Cardinality(Filled(g))
<1>1. PICK u \in Nat, f \in Nat, l \in Nat :
         /\ u = UbatchOf(at) /\ f = FirstOf(u) /\ l = LastOf(u)
         /\ 1 <= f /\ f <= at /\ at <= l /\ l <= Len(batch)
         /\ at \in Nat /\ Len(batch) \in Nat /\ Len(plan) = at - 1
         /\ Placed = f .. at - 1 /\ Applied = f - 1 /\ TokensOf(u) = f .. l
         /\ \A v \in f .. l : UbatchOf(v) = u
  BY FindAt
<1>2. pc \in DryRun /\ \A t \in 1 .. Len(plan) : plan[t] \in Cells
  BY DEF DryRun, IInv, TypeOK
<1> DEFINE S == {t \in Placed : Group(plan[t]) = g}
           A == {c \in CellsOf(g) : ~is_empty(c)}
           B == {plan[t] : t \in S}
<1>3. Placed \subseteq 1 .. Len(plan) /\ \A t \in Placed : ~(t <= Applied)
  BY <1>1
<1>4. \A t \in 1 .. Len(plan) : t \notin Placed => t <= Applied
  BY <1>1
<1>5. \A t \in Placed : seqs[plan[t]] = {}
  <2> SUFFICES ASSUME NEW t \in Placed PROVE seqs[plan[t]] = {}
    OBVIOUS
  <2>1. t \in 1 .. Len(plan) /\ ~(t <= Applied)
    BY <1>3
  <2>2. \A v \in 1 .. Len(plan) : v <= Applied => plan[v] # plan[t]
    BY <2>1 DEF IInv, OwnCells
  <2>3. seqs[plan[t]] = Base[plan[t]] /\ Base = saved[2]
    BY <1>2, <2>1, <2>2, DryCells
  <2>4. saved[2][plan[t]] = {}
    BY <1>2, <2>1 DEF IInv, Overlay
  <2> QED BY <2>3, <2>4
<1>6. A \cap B = {}
  BY <1>5 DEF is_empty
<1>7. B \subseteq CellsOf(g)
  BY <1>2, <1>3, CellGroup
<1>8. Filled(g) = A \cup B
  <2>1. ASSUME NEW c \in CellsOf(g), c \in Filled(g) PROVE c \in A \cup B
    <3>1. c \in Cells /\ Group(c) = g
      BY GroupCells
    <3>2. CASE Base[c] # {}
      BY <1>2, <3>1, <3>2, DryCells DEF is_empty
    <3>3. CASE \E t \in 1 .. Len(plan) : plan[t] = c
      <4>1. PICK t \in 1 .. Len(plan) : plan[t] = c
        BY <3>3
      <4>2. CASE t \in Placed
        BY <3>1, <4>1, <4>2
      <4>3. CASE t \notin Placed
        <5>1. seqs[c] = {batch[t]}
          BY <1>4, <4>1, <4>3 DEF IInv, Overlay
        <5> QED BY <5>1 DEF is_empty
      <4> QED BY <4>2, <4>3
    <3> QED BY <2>1, <3>2, <3>3 DEF Filled
  <2>2. ASSUME NEW c \in A PROVE c \in Filled(g)
    <3>1. c \in Cells /\ seqs[c] # {}
      BY GroupCells DEF is_empty
    <3>2. Base[c] # {} \/ \E t \in 1 .. Len(plan) : plan[t] = c
      BY <1>2, <3>1, DryCells
    <3> QED BY <3>2 DEF Filled
  <2>3. ASSUME NEW c \in B PROVE c \in Filled(g)
    BY <1>3, <1>7 DEF Filled
  <2>4. Filled(g) \subseteq CellsOf(g)
    BY DEF Filled
  <2> HIDE DEF A, B
  <2> QED BY <2>1, <2>2, <2>3, <2>4
<1>9. IsFiniteSet(S) /\ Cardinality(B) = Cardinality(S)
  <2>1. IsFiniteSet(Placed)
    BY <1>1, FS_Interval
  <2>2. IsFiniteSet(S)
    BY <2>1, FS_Subset
  <2>3. [t \in S |-> plan[t]] \in Bijection(S, B)
    <3>1. [t \in S |-> plan[t]] \in [S -> B]
      OBVIOUS
    <3>2. \A t, v \in S : plan[t] = plan[v] => t = v
      BY <1>3 DEF IInv, OwnCells
    <3>3. \A b \in B : \E t \in S : [v \in S |-> plan[v]][t] = b
      OBVIOUS
    <3>4. [t \in S |-> plan[t]] \in Surjection(S, B)
      BY <3>1, <3>3 DEF Surjection
    <3>5. [t \in S |-> plan[t]] \in Injection(S, B)
      BY <3>1, <3>2 DEF Injection, IsInjective
    <3> QED BY <3>4, <3>5 DEF Bijection
  <2>4. ExistsBijection(S, B)
    BY <2>3 DEF ExistsBijection
  <2> HIDE DEF S, B
  <2> QED BY <2>2, <2>4, FS_Bijection
<1>10. group_used(g) = Cardinality(A) + Cardinality(S)
  BY DEF group_used, Used
<1>11. Cardinality(A \cup B) = Cardinality(A) + Cardinality(B)
  <2>1. A \in SUBSET CellsOf(g) /\ B \in SUBSET CellsOf(g)
    BY <1>7
  <2> HIDE DEF A, B
  <2>2. IsFiniteSet(A) /\ IsFiniteSet(B) /\ Cardinality(A) \in Nat /\ Cardinality(B) \in Nat
    BY <2>1, Counted
  <2>3. Cardinality(A \cup B) = Cardinality(A) + Cardinality(B) - Cardinality(A \cap B)
    BY <2>2, FS_Union
  <2>4. Cardinality(A \cap B) = 0
    BY <1>6, FS_EmptySet
  <2> QED BY <2>2, <2>3, <2>4
<1> HIDE DEF A, B, S
<1> QED BY <1>8, <1>9, <1>10, <1>11

(* The head a scan starts from is a head.                                  *)
LEMMA HeadCurType ==
    ASSUME IInv, pc = "find", NEW s \in Seqs
    PROVE  head_cur(s) \in 0 .. NCells
<1>1. at \in Nat /\ Placed \subseteq 1 .. at - 1 /\ Len(plan) = at - 1
  BY FindAt
<1>2. PICK mine : mine = {t \in Placed : batch[t] = s}
  OBVIOUS
<1>3. CASE mine = {}
  BY <1>2, <1>3 DEF head_cur, IInv, TypeOK
<1>4. CASE mine # {}
  <2>1. mine \subseteq Nat /\ \A k \in mine : k <= at
    <3>1. \A k \in 1 .. at - 1 : k \in Nat /\ k <= at
      BY <1>1
    <3> QED BY <1>1, <1>2, <3>1
  <2>2. PICK m : m = CHOOSE t \in mine : \A v \in mine : v <= t
    OBVIOUS
  <2>3. m \in mine
    BY <1>1, <1>4, <2>1, <2>2, LastChosen
  <2>4. plan[m] \in Cells
    BY <1>1, <1>2, <2>3 DEF IInv, TypeOK
  <2>5. NCells \in Nat
    BY AllocAssumption DEF NCells
  <2>6. plan[m] + 1 \in 0 .. NCells
    BY <2>4, <2>5 DEF Cells
  <2> QED BY <1>2, <1>4, <2>2, <2>6 DEF head_cur
<1> QED BY <1>3, <1>4

(* A group that is being filled without a slot gets the next token too.    *)
LEMMA FillNext ==
    ASSUME IInv, pc = "find", NEW g \in Groups, Incomplete(g), Filling(g)
    PROVE  /\ at - 1 \in Placed /\ UbatchOf(at - 1) = UbatchOf(at)
           /\ plan[at - 1] + 1 \in CellsOf(g)
           /\ head_cur(batch[at]) = plan[at - 1] + 1
           /\ acceptable(plan[at - 1] + 1, batch[at])
<1>1. PICK u \in Nat, f \in Nat, l \in Nat :
         /\ u = UbatchOf(at) /\ f = FirstOf(u) /\ l = LastOf(u)
         /\ 1 <= f /\ f <= at /\ at <= l /\ l <= Len(batch)
         /\ at \in Nat /\ Len(batch) \in Nat /\ Len(plan) = at - 1
         /\ Placed = f .. at - 1 /\ Applied = f - 1 /\ TokensOf(u) = f .. l
         /\ \A v \in f .. l : UbatchOf(v) = u
  BY FindAt
<1>2. PICK k \in Nat : k = at - 1 /\ k > 0
  BY <1>1 DEF Filling
<1>3. PICK w \in Nat, f2 \in Nat, l2 \in Nat :
         /\ w = UbatchOf(k) /\ f2 = FirstOf(w) /\ l2 = LastOf(w)
         /\ f2 \in 1 .. k /\ l2 \in k .. Len(batch) /\ \A v \in f2 .. l2 : UbatchOf(v) = w
  <2>1. k \in 1 .. Len(batch)
    BY <1>1, <1>2
  <2> QED BY <1>1, <2>1, UbatchExists
<1>4. /\ plan[k] \in CellsOf(g) /\ Filled(g) = G * g .. plan[k]
      /\ \A d \in CellsOf(g) : seqs[d] = {}
      /\ \A t, v \in TokensOf(w) : batch[t] = batch[v]
      /\ l2 - k >= G * g + G - 1 - plan[k]
  BY <1>1, <1>2, <1>3 DEF Filling
<1>5. PICK a \in Nat : a = G * g
  BY AllocAssumption DEF Groups
<1>6. CellsOf(g) = a .. a + G - 1 /\ G \in Nat
  BY <1>5, AllocAssumption DEF CellsOf
<1>7. PICK p \in Nat : p = plan[k] /\ a <= p /\ p < a + G - 1
  <2>1. plan[k] \in a .. a + G - 1
    BY <1>4, <1>6
  <2>2. plan[k] # a + G - 1
    BY <1>4, <1>5, <1>6 DEF Incomplete
  <2> QED BY <1>5, <1>6, <2>1, <2>2
<1>8. k + 1 <= l2 /\ at = k + 1
  <2>1. l2 - k >= a + G - 1 - p
    BY <1>4, <1>5, <1>7
  <2>2. at = k + 1
    BY <1>1, <1>2
  <2> QED BY <1>6, <1>7, <2>1, <2>2
<1>9. u = w /\ f = f2 /\ l = l2
  <2>1. at \in f2 .. l2
    BY <1>2, <1>3, <1>8
  <2> QED BY <1>1, <1>3, <2>1
<1>10. k \in Placed /\ UbatchOf(k) = UbatchOf(at)
  BY <1>1, <1>2, <1>3, <1>9
<1>11. PICK d \in Nat : d = p + 1
  BY <1>7
<1>12. d \in CellsOf(g) /\ d \in Cells /\ Group(d) = g /\ d \notin Filled(g)
  <2>1. d \in CellsOf(g)
    BY <1>5, <1>6, <1>7, <1>11
  <2>2. d \notin Filled(g)
    BY <1>4, <1>5, <1>7, <1>11
  <2> QED BY <2>1, <2>2, GroupCells
<1>13. \A t \in Placed : batch[t] = batch[at]
  <2>1. Placed \subseteq TokensOf(w) /\ at \in TokensOf(w)
    BY <1>1, <1>9
  <2> QED BY <1>4, <2>1
<1>14. head_cur(batch[at]) = p + 1
  <2>1. PICK mine : mine = {t \in Placed : batch[t] = batch[at]}
    OBVIOUS
  <2>2. mine = Placed /\ mine \subseteq Nat /\ k \in mine /\ \A t \in mine : t <= k
    BY <1>1, <1>2, <1>10, <1>13, <2>1
  <2>3. PICK m : m = CHOOSE t \in mine : \A v \in mine : v <= t
    OBVIOUS
  <2>4. m \in mine /\ \A v \in mine : v <= m
    BY <1>2, <2>2, <2>3, LastChosen
  <2>5. m = k
    BY <1>2, <2>2, <2>4
  <2> QED BY <1>7, <2>1, <2>2, <2>3, <2>5 DEF head_cur
<1>15. acceptable(d, batch[at])
  <2>1. is_empty(d)
    BY <1>4, <1>12 DEF is_empty
  <2>2. \A t \in Placed : plan[t] # d
    <3>1. Placed \subseteq 1 .. Len(plan)
      BY <1>1
    <3> QED BY <1>12, <3>1 DEF Filled
  <2>3. compatible(d, batch[at])
    BY <1>4, <1>12, <1>13 DEF compatible, is_empty
  <2>4. ~sealed_partial(g)
    BY DEF sealed_partial, Incomplete
  <2>5. group_used(g) # 0
    <3>1. group_used(g) = Cardinality(Filled(g)) /\ Filled(g) # {}
      BY GroupUsed DEF Incomplete
    <3>2. Filled(g) \in SUBSET CellsOf(g)
      BY DEF Filled
    <3> QED BY <3>1, <3>2, Counted
  <2> QED BY <1>12, <2>1, <2>2, <2>3, <2>4, <2>5 DEF acceptable
<1> QED BY <1>2, <1>7, <1>10, <1>11, <1>12, <1>14, <1>15

(* The cell before the nearest one is nearer, unless the scan starts here. *)
LEMMA StepBack ==
    ASSUME NEW h \in 0 .. NCells, NEW c \in Cells, c - 1 \in Cells, c # h
    PROVE  Distance(h, c - 1) < Distance(h, c)
<1>1. PICK n \in Nat \ {0} : n = NCells
  BY AllocAssumption DEF NCells, Cells
<1>2. c \in 1 .. n - 1 /\ h \in 0 .. n
  BY <1>1 DEF Cells
<1>3. CASE c > h
  <2>1. c - h \in 1 .. n - 1 /\ (c - 1) - h \in 0 .. n - 1
    BY <1>2, <1>3
  <2>2. (c - h) % n = c - h /\ ((c - 1) - h) % n = (c - 1) - h
    BY <1>1, <2>1
  <2>3. (c - 1) - h < c - h
    BY <1>2
  <2> QED BY <1>1, <2>2, <2>3 DEF Distance
<1>4. CASE c < h
  <2>1. c - h + n \in 0 .. n - 1 /\ (c - 1) - h + n \in 0 .. n - 1 /\ c - h \in Int
    BY <1>2, <1>4
  <2>2. (c - h) % n = c - h + n
    BY <1>1, <1>2, <1>4, <2>1
  <2>3. ((c - 1) - h) % n = (c - 1) - h + n
    BY <1>1, <1>2, <1>4, <2>1
  <2>4. (c - 1) - h + n < c - h + n
    BY <1>2
  <2> QED BY <1>1, <2>2, <2>3, <2>4 DEF Distance
<1> QED BY <1>2, <1>3, <1>4

(* What find_slot decides for a token: the head if the head fits, and      *)
(* otherwise a cell whose predecessor does not.                            *)
LEMMA TokenFound ==
    ASSUME IInv, FindToken
    PROVE  \E c \in Cells, s \in Seqs :
              /\ s = batch[at] /\ acceptable(c, s)
              /\ head_cur(s) \in Cells /\ acceptable(head_cur(s), s) => c = head_cur(s)
              /\ c - 1 \in Cells /\ acceptable(c - 1, s) => c = head_cur(s)
              /\ plan' = Append(plan, c)
              /\ LET g == Group(c)
                     t == stage_slot(g)
                     taken == [owners EXCEPT ![t] =
                                 IF group_used(g) = 0 /\ ~fills_here(c) THEN g ELSE @]
                     full == g > 0 /\ group_used(g) + 1 = G
                 IN /\ sealed' = [sealed EXCEPT ![g] = @ \/ full]
                    /\ owners' = [taken EXCEPT ![t] = IF full /\ @ = g THEN NoGroup ELSE @]
<1>1. pc = "find"
  BY DEF FindToken
<1>2. PICK s \in Seqs : s = batch[at]
  <2>1. at \in 1 .. Len(batch)
    BY <1>1 DEF IInv, Phase
  <2> QED BY <2>1 DEF IInv, TypeOK
<1>3. PICK h \in 0 .. NCells : h = head_cur(s)
  BY <1>1, HeadCurType
<1>4. PICK fit \in SUBSET Cells : fit = {c \in Cells : acceptable(c, s)}
  OBVIOUS
<1>5. fit # {}
  BY <1>2, <1>4 DEF FindToken
<1>6. PICK c : c = CHOOSE x \in fit : \A d \in fit : Distance(h, x) <= Distance(h, d)
  OBVIOUS
<1>7. c \in fit /\ (h \in fit => c = h) /\ \A d \in fit : Distance(h, c) <= Distance(h, d)
  BY <1>5, <1>6, NearestChosen
<1>8. /\ plan' = Append(plan, c)
      /\ LET g == Group(c)
             t == stage_slot(g)
             taken == [owners EXCEPT ![t] =
                         IF group_used(g) = 0 /\ ~fills_here(c) THEN g ELSE @]
             full == g > 0 /\ group_used(g) + 1 = G
         IN /\ sealed' = [sealed EXCEPT ![g] = @ \/ full]
            /\ owners' = [taken EXCEPT ![t] = IF full /\ @ = g THEN NoGroup ELSE @]
  BY <1>2, <1>3, <1>4, <1>6 DEF FindToken
<1>9. ASSUME c - 1 \in fit, c # h PROVE FALSE
  <2>1. Distance(h, c - 1) < Distance(h, c)
    BY <1>4, <1>7, <1>9, StepBack
  <2>2. Distance(h, c) <= Distance(h, c - 1)
    BY <1>7, <1>9
  <2>3. Distance(h, c) \in Int /\ Distance(h, c - 1) \in Int
    <3>1. PICK n \in Nat \ {0} : n = NCells
      BY AllocAssumption DEF NCells, Cells
    <3>2. c - h \in Int /\ (c - 1) - h \in Int
      BY <1>7, <3>1 DEF Cells
    <3>3. \A x \in Int : x % n \in Int
      BY <3>1
    <3> QED BY <3>1, <3>2, <3>3 DEF Distance
  <2> QED BY <2>1, <2>2, <2>3
<1> QED BY <1>2, <1>3, <1>4, <1>7, <1>8, <1>9

(* Token at, of sequence s, goes to cell c of group g; what that changes.  *)
TokenGoes(c, s, g) ==
    /\ s = batch[at] /\ g = Group(c) /\ c \in CellsOf(g) /\ acceptable(c, s)
    /\ head_cur(s) \in Cells /\ acceptable(head_cur(s), s) => c = head_cur(s)
    /\ c - 1 \in Cells /\ acceptable(c - 1, s) => c = head_cur(s)
    /\ plan' = Append(plan, c) /\ Len(plan') = at /\ plan'[at] = c /\ plan' \in Seq(Cells)
    /\ \A t \in 1 .. at - 1 : plan'[t] = plan[t] /\ plan[t] \in Cells /\ plan[t] # c
    /\ seqs[c] = {} /\ Base[c] = {} /\ Base' = Base
    /\ Filled(g)' = Filled(g) \cup {c} /\ c \notin Filled(g)
    /\ group_used(g) = 0 <=> Filled(g) = {}
    /\ \A h \in Groups : h # g => Filled(h)' = Filled(h) /\ sealed'[h] = sealed[h]
    /\ g > 0 => (sealed'[g] <=> sealed[g] \/ Filled(g)' = CellsOf(g))
    /\ sealed' \in [Groups -> BOOLEAN] /\ owners' \in [Slots -> Groups \cup {NoGroup}]
    /\ \A h \in Groups : h # g /\ owners[stage_slot(h)] = h => owners'[stage_slot(h)] = h
    /\ g > 0 /\ Filled(g)' # CellsOf(g) =>
          owners'[stage_slot(g)] =
             IF Filled(g) = {} /\ ~fills_here(c) THEN g ELSE owners[stage_slot(g)]

(* find_slot takes a free cell and looks after the seal and the stage slot *)
(* of its group only.                                                      *)
LEMMA TokenEffect ==
    ASSUME IInv, FindToken
    PROVE  \E c \in Cells, s \in Seqs, g \in Groups : TokenGoes(c, s, g)
<1>1. /\ pc = "find" /\ pc \in DryRun
      /\ UNCHANGED <<pos, seqs, heads, staged, recorded, batch, saved, copied>>
      /\ \/ at = LastOf(UbatchOf(at)) /\ pc' = "emplace" /\ at' = FirstOf(UbatchOf(at))
         \/ at # LastOf(UbatchOf(at)) /\ pc' = "find" /\ at' = at + 1
  BY DEF FindToken, payload, DryRun
<1>2. PICK u \in Nat, f \in Nat, l \in Nat :
         /\ u = UbatchOf(at) /\ f = FirstOf(u) /\ l = LastOf(u)
         /\ 1 <= f /\ f <= at /\ at <= l /\ l <= Len(batch)
         /\ at \in Nat /\ Len(batch) \in Nat /\ Len(plan) = at - 1
         /\ Placed = f .. at - 1 /\ Applied = f - 1 /\ TokensOf(u) = f .. l
         /\ \A v \in f .. l : UbatchOf(v) = u
  BY <1>1, FindAt
<1>3. PICK c \in Cells, s \in Seqs :
         /\ s = batch[at] /\ acceptable(c, s)
         /\ head_cur(s) \in Cells /\ acceptable(head_cur(s), s) => c = head_cur(s)
         /\ c - 1 \in Cells /\ acceptable(c - 1, s) => c = head_cur(s)
         /\ plan' = Append(plan, c)
         /\ LET g == Group(c)
                t == stage_slot(g)
                taken == [owners EXCEPT ![t] =
                            IF group_used(g) = 0 /\ ~fills_here(c) THEN g ELSE @]
                full == g > 0 /\ group_used(g) + 1 = G
            IN /\ sealed' = [sealed EXCEPT ![g] = @ \/ full]
               /\ owners' = [taken EXCEPT ![t] = IF full /\ @ = g THEN NoGroup ELSE @]
  BY TokenFound
<1>4. PICK g \in Groups : g = Group(c) /\ c \in CellsOf(g)
  BY CellGroup
<1>5. /\ Len(plan') = at /\ plan'[at] = c /\ plan' \in Seq(Cells) /\ plan \in Seq(Cells)
      /\ \A t \in 1 .. at - 1 : plan'[t] = plan[t] /\ plan[t] \in Cells
  <2>1. plan \in Seq(Cells) /\ Len(plan) = at - 1 /\ plan' = Append(plan, c)
    BY <1>2, <1>3 DEF IInv, TypeOK
  <2>2. Len(plan) \in Nat /\ Len(plan) + 1 = at
    BY <1>2, <2>1
  <2>3. /\ plan' \in Seq(Cells) /\ Len(plan') = Len(plan) + 1 /\ plan'[Len(plan) + 1] = c
        /\ \A t \in 1 .. Len(plan) : plan'[t] = plan[t] /\ plan[t] \in Cells
    BY <2>1
  <2> QED BY <2>1, <2>2, <2>3
<1>6. pc' \in DryRun /\ pc' \in {"find", "emplace"}
  BY <1>1 DEF DryRun
<1>7. /\ seqs[c] = {} /\ Base[c] = {} /\ saved[2][c] = {}
      /\ \A t \in 1 .. at - 1 : plan[t] # c
  <2>1. seqs[c] = {} /\ \A t \in Placed : plan[t] # c
    BY <1>3 DEF acceptable, is_empty
  <2>2. \A t \in 1 .. at - 1 : t <= f - 1 => seqs[plan[t]] = {batch[t]}
    BY <1>2 DEF IInv, Overlay
  <2>3. \A t \in 1 .. at - 1 : t <= f - 1 \/ t \in Placed
    BY <1>2
  <2>4. \A t \in 1 .. at - 1 : plan[t] # c
    BY <2>1, <2>2, <2>3
  <2>5. seqs[c] = Base[c] /\ Base = saved[2]
    BY <1>1, <1>2, <2>4, DryCells
  <2> QED BY <2>1, <2>4, <2>5
<1>8. Base' = Base
  BY <1>1, <1>6 DEF Base
<1>9. Filled(g)' = Filled(g) \cup {c} /\ c \notin Filled(g)
  <2>1. \A t \in 1 .. at : t = at \/ t \in 1 .. at - 1
    BY <1>2
  <2>2. \A d : (\E t \in 1 .. Len(plan') : plan'[t] = d) <=>
                  (d = c \/ \E t \in 1 .. Len(plan) : plan[t] = d)
    <3>1. at \in 1 .. at /\ \A t \in 1 .. at - 1 : t \in 1 .. at
      BY <1>2
    <3> QED BY <1>2, <1>5, <2>1, <3>1
  <2> QED BY <1>2, <1>4, <1>7, <1>8, <2>2 DEF Filled
<1>10. \A h \in Groups : h # g => Filled(h)' = Filled(h)
  <2>1. \A t \in 1 .. at : t = at \/ t \in 1 .. at - 1
    BY <1>2
  <2>2. \A h \in Groups : h # g => c \notin CellsOf(h)
    BY <1>4, GroupCells
  <2>3. \A d : (\E t \in 1 .. Len(plan') : plan'[t] = d) <=>
                  (d = c \/ \E t \in 1 .. Len(plan) : plan[t] = d)
    <3>1. at \in 1 .. at /\ \A t \in 1 .. at - 1 : t \in 1 .. at
      BY <1>2
    <3> QED BY <1>2, <1>5, <2>1, <3>1
  <2> QED BY <1>8, <2>2, <2>3 DEF Filled
<1>11. /\ group_used(g) \in Nat /\ (group_used(g) = 0 <=> Filled(g) = {})
       /\ group_used(g) + 1 = G <=> Filled(g)' = CellsOf(g)
  <2>1. group_used(g) = Cardinality(Filled(g)) /\ Filled(g) \in SUBSET CellsOf(g)
    BY <1>1, GroupUsed DEF Filled
  <2>2. /\ IsFiniteSet(Filled(g)) /\ Cardinality(Filled(g)) \in Nat
        /\ Cardinality(Filled(g)) = 0 <=> Filled(g) = {}
    BY <2>1, Counted
  <2>3. PICK F : F = Filled(g)'
    OBVIOUS
  <2>4. F \in SUBSET CellsOf(g) /\ F = Filled(g) \cup {c}
    BY <1>4, <1>9, <2>1, <2>3
  <2>5. Cardinality(F) = Cardinality(Filled(g)) + 1
    BY <1>9, <2>2, <2>4, FS_AddElement
  <2>6. /\ IsFiniteSet(F) /\ Cardinality(F) \in Nat
        /\ Cardinality(F) = 0 <=> F = {}
        /\ Cardinality(F) >= G <=> F = CellsOf(g)
    <3>1. F \in SUBSET CellsOf(g)
      BY <2>4
    <3> QED BY <3>1, Counted
  <2>7. Cardinality(CellsOf(g)) = G /\ G \in Nat
    BY FiniteCells, AllocAssumption
  <2>8. Cardinality(F) = G <=> F = CellsOf(g)
    BY <2>6, <2>7
  <2> QED BY <2>1, <2>2, <2>3, <2>5, <2>8
<1>12. \A h \in Groups \ {g} : sealed'[h] = sealed[h]
  BY <1>3, <1>4 DEF IInv, TypeOK
<1>13. g > 0 => (sealed'[g] <=> sealed[g] \/ Filled(g)' = CellsOf(g))
  BY <1>3, <1>4, <1>11 DEF IInv, TypeOK
<1>14. stage_slot(g) \in Slots /\ owners \in [Slots -> Groups \cup {NoGroup}]
  BY RingSlot DEF IInv, TypeOK
<1>15. ASSUME NEW h \in Groups, h # g, owners[stage_slot(h)] = h
       PROVE  owners'[stage_slot(h)] = h
  <2>1. PICK t \in Slots : t = stage_slot(h)
    BY RingSlot
  <2>2. CASE t # stage_slot(g)
    BY <1>3, <1>4, <1>14, <1>15, <2>1, <2>2
  <2>3. CASE t = stage_slot(g)
    <3>1. h # NoGroup
      BY AllocAssumption DEF NoGroup, Groups
    <3>2. slot_taken(g)
      BY <1>15, <2>1, <2>3, <3>1 DEF slot_taken
    <3>3. ~(group_used(g) = 0 /\ ~fills_here(c))
      BY <1>3, <1>4, <3>2 DEF acceptable
    <3> QED BY <1>3, <1>4, <1>14, <1>15, <2>1, <2>3, <3>3
  <2> QED BY <2>2, <2>3
<1>16. ASSUME g > 0, Filled(g)' # CellsOf(g)
       PROVE  owners'[stage_slot(g)] =
                 IF Filled(g) = {} /\ ~fills_here(c) THEN g ELSE owners[stage_slot(g)]
  <2>1. ~(group_used(g) + 1 = G)
    BY <1>11, <1>16
  <2> QED BY <1>3, <1>4, <1>11, <1>14, <2>1
<1>17. /\ sealed' \in [Groups -> BOOLEAN] /\ owners' \in [Slots -> Groups \cup {NoGroup}]
  <2>1. sealed' \in [Groups -> BOOLEAN]
    BY <1>3, <1>4 DEF IInv, TypeOK
  <2>2. owners' \in [Slots -> Groups \cup {NoGroup}]
    BY <1>3, <1>4 DEF IInv, TypeOK
  <2> QED BY <2>1, <2>2
<1>18. TokenGoes(c, s, g)
  BY <1>3, <1>4, <1>5, <1>7, <1>8, <1>9, <1>10, <1>11, <1>12, <1>13, <1>14, <1>15,
     <1>16, <1>17 DEF TokenGoes
<1> QED BY <1>18

(* find_slot places a token: a free cell of a group of its sequence's own, *)
(* and a group whose slot no other incomplete group needs.                 *)
LEMMA FindTokenStep == ASSUME IInv, FindToken PROVE IInv'
<1>1. /\ pc = "find" /\ pc \in DryRun
      /\ UNCHANGED <<pos, seqs, heads, staged, recorded, batch, saved, copied>>
      /\ \/ at = LastOf(UbatchOf(at)) /\ pc' = "emplace" /\ at' = FirstOf(UbatchOf(at))
         \/ at # LastOf(UbatchOf(at)) /\ pc' = "find" /\ at' = at + 1
  BY DEF FindToken, payload, DryRun
<1>2. PICK u \in Nat, f \in Nat, l \in Nat :
         /\ u = UbatchOf(at) /\ f = FirstOf(u) /\ l = LastOf(u)
         /\ 1 <= f /\ f <= at /\ at <= l /\ l <= Len(batch)
         /\ at \in Nat /\ Len(batch) \in Nat /\ Len(plan) = at - 1
         /\ Placed = f .. at - 1 /\ Applied = f - 1 /\ TokensOf(u) = f .. l
         /\ \A v \in f .. l : UbatchOf(v) = u
  BY <1>1, FindAt
<1>3. PICK c \in Cells, s \in Seqs, g \in Groups : TokenGoes(c, s, g)
  BY TokenEffect
<1>4. /\ s = batch[at] /\ g = Group(c) /\ c \in CellsOf(g) /\ acceptable(c, s)
      /\ head_cur(s) \in Cells /\ acceptable(head_cur(s), s) => c = head_cur(s)
      /\ Base' = Base
  BY <1>3 DEF TokenGoes
<1>5. /\ Len(plan') = at /\ plan'[at] = c /\ plan' \in Seq(Cells) /\ plan \in Seq(Cells)
      /\ \A t \in 1 .. at - 1 : plan'[t] = plan[t] /\ plan[t] \in Cells
  BY <1>3 DEF TokenGoes, IInv, TypeOK
<1>6. pc' \in DryRun /\ pc' \in {"find", "emplace"}
  BY <1>1 DEF DryRun
<1>7. /\ at' \in f .. l /\ UbatchOf(at') = u
      /\ (pc' = "find" => at' = at + 1) /\ (pc' = "emplace" => at' = f /\ at = l)
  <2>1. CASE at = l /\ pc' = "emplace" /\ at' = f
    <3>1. f \in f .. l
      BY <1>2
    <3> QED BY <1>2, <2>1, <3>1
  <2>2. CASE at # l /\ pc' = "find" /\ at' = at + 1
    BY <1>2, <2>2
  <2> QED BY <1>1, <1>2, <2>1, <2>2
<1>8. Applied' = f - 1 /\ LastOf(u)' = l /\ TokensOf(u)' = TokensOf(u)
  <2>1. LastOf(u)' = l
    BY <1>1, <1>2 DEF LastOf
  <2> QED BY <1>1, <1>2, <1>6, <1>7, <2>1 DEF Applied, TokensOf
<1>9. saved[2][c] = {} /\ \A t \in 1 .. at - 1 : plan[t] # c
  BY <1>1, <1>3 DEF TokenGoes, Base
<1>10. TypeOK'
  <2>1. at' \in 1 .. MaxBatch /\ Len(plan') <= Len(batch)
    <3>1. Len(batch) <= MaxBatch /\ MaxBatch \in Nat
      BY AllocAssumption DEF IInv, TypeOK
    <3> QED BY <1>2, <1>5, <1>7, <3>1
  <2>2. sealed' \in [Groups -> BOOLEAN] /\ owners' \in [Slots -> Groups \cup {NoGroup}]
    BY <1>3 DEF TokenGoes
  <2> QED BY <1>1, <1>5, <2>1, <2>2 DEF IInv, TypeOK
<1>11. NoStageAlias' /\ SavedCells'
  BY <1>1, <1>6 DEF IInv, NoStageAlias, SavedCells
<1>12. Phase'
  <2>1. at' \in 1 .. Len(batch)
    BY <1>2, <1>7
  <2>2. pc' = "emplace" => at' = FirstOf(UbatchOf(at')) /\ Len(plan') = LastOf(u)'
    BY <1>2, <1>5, <1>7, <1>8
  <2>3. pc' = "find" => Len(plan') = at' - 1
    BY <1>2, <1>5, <1>7
  <2> QED BY <1>1, <1>6, <1>7, <2>1, <2>2, <2>3 DEF Phase
<1>13. OwnCells'
  <2>1. \A t, v \in 1 .. at - 1 : plan[t] = plan[v] => t = v
    BY <1>2 DEF IInv, OwnCells
  <2>2. \A t \in 1 .. at : t = at \/ t \in 1 .. at - 1
    BY <1>2
  <2> QED BY <1>5, <1>9, <2>1, <2>2 DEF OwnCells
<1>14. Room'
  <2>1. \A r, n : Todo(r, n)' = Todo(r, n)
    BY <1>1 DEF Todo
  <2>2. RoomFor(pos, seqs, Applied)'
    BY <1>1, <1>2, <1>8, <2>1 DEF IInv, Room, RoomFor
  <2>3. RoomFor(saved[1], saved[2], 0)'
    BY <1>1, <2>1 DEF IInv, Room, RoomFor
  <2> QED BY <2>2, <2>3 DEF Room
<1>15. Overlay'
  <2>1. \A t \in 1 .. at : t = at \/ t \in 1 .. at - 1
    BY <1>2
  <2>2. ~(at <= f - 1) /\ \A t \in 1 .. at - 1 : t \in 1 .. at
    BY <1>2
  <2>3. /\ \A t \in 1 .. at - 1 : t <= f - 1 => seqs[plan[t]] = {batch[t]}
        /\ \A t \in 1 .. at - 1 : saved[2][plan[t]] = {}
        /\ \A d \in Cells :
              \/ seqs[d] = saved[2][d]
              \/ \E t \in 1 .. at - 1 : t <= f - 1 /\ plan[t] = d
    BY <1>1, <1>2 DEF IInv, Overlay
  <2>4. \A t \in 1 .. at : t <= f - 1 => seqs'[plan'[t]] = {batch'[t]}
    BY <1>1, <1>5, <2>1, <2>2, <2>3
  <2>5. \A t \in 1 .. at : saved'[2][plan'[t]] = {}
    BY <1>1, <1>5, <1>9, <2>1, <2>3
  <2>6. \A d \in Cells :
              \/ seqs'[d] = saved'[2][d]
              \/ \E t \in 1 .. at : t <= f - 1 /\ plan'[t] = d
    BY <1>1, <1>5, <2>2, <2>3
  <2> QED BY <1>5, <1>8, <2>4, <2>5, <2>6 DEF Overlay
<1>16. OneClaim'
  <2>1. ASSUME NEW h \in Groups, h # g PROVE
          /\ (\E t \in 1 .. Len(plan') : Group(plan'[t]) = h)
                => (\E t \in 1 .. Len(plan) : Group(plan[t]) = h)
          /\ \A r \in Seqs : Claims(r, h)' => Claims(r, h)
    <3>1. \A t \in 1 .. at : t = at \/ t \in 1 .. at - 1
      BY <1>2
    <3>2. \A t \in 1 .. Len(plan') : Group(plan'[t]) = h =>
             t \in 1 .. Len(plan) /\ plan'[t] = plan[t]
      BY <1>2, <1>4, <1>5, <2>1, <3>1
    <3> QED BY <1>1, <1>4, <3>2 DEF Claims
  <2>2. ASSUME NEW r \in Seqs, Claims(r, g)' PROVE r = s
    <3>1. /\ \A t \in Placed : Group(plan[t]) = g => batch[t] = s
          /\ \A d \in CellsOf(g) : seqs[d] # {} => seqs[d] = {s}
      BY <1>4 DEF acceptable, compatible, is_empty
    <3>2. CASE \E d \in CellsOf(g) : r \in Base[d]
      <4>1. PICK d \in CellsOf(g) : r \in Base[d]
        BY <3>2
      <4>2. d \in Cells /\ seqs[d] = Base[d]
        BY <1>1, <4>1, GroupCells, DryCells
      <4> QED BY <3>1, <4>1, <4>2
    <3>3. CASE \E t \in 1 .. at : Group(plan'[t]) = g /\ batch[t] = r
      <4>1. PICK t \in 1 .. at : Group(plan'[t]) = g /\ batch[t] = r
        BY <3>3
      <4>2. t = at \/ t \in Placed \/ (t \in 1 .. at - 1 /\ t <= f - 1)
        BY <1>2, <4>1
      <4>3. CASE t = at
        BY <1>4, <4>1, <4>3
      <4>4. CASE t \in Placed
        <5>1. plan'[t] = plan[t]
          BY <1>2, <1>5, <4>4
        <5> QED BY <3>1, <4>1, <4>4, <5>1
      <4>5. CASE t \in 1 .. at - 1 /\ t <= f - 1
        <5>1. plan[t] = plan'[t] /\ seqs[plan[t]] = {batch[t]} /\ plan[t] \in Cells
          BY <1>2, <1>5, <4>5 DEF IInv, Overlay
        <5>2. plan[t] \in CellsOf(g)
          BY <4>1, <5>1, CellGroup
        <5> QED BY <3>1, <4>1, <5>1, <5>2
      <4> QED BY <4>2, <4>3, <4>4, <4>5
    <3> QED BY <1>1, <1>4, <1>5, <2>2, <3>2, <3>3 DEF Claims
  <2> SUFFICES ASSUME NEW h \in Groups,
                      h \notin copied' \/ \E t \in 1 .. Len(plan') : Group(plan'[t]) = h,
                      NEW q \in Seqs, NEW r \in Seqs, Claims(q, h)', Claims(r, h)'
               PROVE  q = r
    BY DEF OneClaim
  <2>3. CASE h = g
    BY <2>2, <2>3
  <2>4. CASE h # g
    BY <1>1, <2>1, <2>4 DEF IInv, OneClaim
  <2> QED BY <2>3, <2>4
<1>17. /\ Filled(g)' = Filled(g) \cup {c} /\ c \notin Filled(g)
       /\ \A h \in Groups : h # g => Filled(h)' = Filled(h) /\ sealed'[h] = sealed[h]
       /\ g > 0 => (sealed'[g] <=> sealed[g] \/ Filled(g)' = CellsOf(g))
  BY <1>3 DEF TokenGoes
<1>18. FullSealed'
  <2>1. ASSUME NEW h \in Groups, h > 0, Filled(h)' = CellsOf(h) PROVE sealed'[h]
    <3>1. CASE h = g
      BY <1>17, <2>1, <3>1
    <3>2. CASE h # g
      BY <1>1, <1>17, <2>1, <3>2 DEF IInv, FullSealed
    <3> QED BY <3>1, <3>2
  <2>2. \A h \in Groups : CellsOf(h)' = CellsOf(h)
    BY DEF CellsOf
  <2> QED BY <2>1, <2>2 DEF FullSealed
<1>19. /\ \A h \in Groups : h # g /\ owners[stage_slot(h)] = h => owners'[stage_slot(h)] = h
       /\ g > 0 /\ Filled(g)' # CellsOf(g) =>
             owners'[stage_slot(g)] =
                IF Filled(g) = {} /\ ~fills_here(c) THEN g ELSE owners[stage_slot(g)]
  BY <1>3 DEF TokenGoes
<1>20. ASSUME Filled(g)' = G * g .. c, \A d \in CellsOf(g) : seqs[d] = {},
              \A t, v \in TokensOf(u) : batch[t] = batch[v],
              l - at >= G * g + G - 1 - c
       PROVE  Filling(g)'
  <2>1. Len(plan') = at /\ plan'[at] = c /\ UbatchOf(at) = u /\ LastOf(u)' = l
    BY <1>2, <1>5, <1>8
  <2>2. at > 0 /\ at <= Len(batch')
    BY <1>1, <1>2
  <2>3. \A t, v \in TokensOf(u)' : batch'[t] = batch'[v]
    BY <1>1, <1>8, <1>20
  <2>4. c \in CellsOf(g)' /\ \A d \in CellsOf(g)' : seqs'[d] = {}
    BY <1>1, <1>4, <1>20 DEF CellsOf
  <2> QED BY <1>20, <2>1, <2>2, <2>3, <2>4 DEF Filling
<1>21. ASSUME NEW h \in Groups, Incomplete(h)'
       PROVE  owners'[stage_slot(h)] = h \/ Filling(h)'
  <2>1. h > 0 /\ Filled(h)' # {} /\ Filled(h)' # CellsOf(h) /\ ~sealed'[h]
    BY <1>21 DEF Incomplete, CellsOf
  <2>2. CASE h # g
    <3>1. Incomplete(h)
      BY <1>17, <2>1, <2>2 DEF Incomplete
    <3>2. CASE owners[stage_slot(h)] = h
      BY <1>19, <2>2, <3>2
    <3>3. CASE Filling(h)
      <4>1. /\ plan[at - 1] + 1 \in CellsOf(h)
            /\ head_cur(s) = plan[at - 1] + 1 /\ acceptable(plan[at - 1] + 1, s)
        BY <1>1, <1>4, <3>1, <3>3, FillNext
      <4>2. plan[at - 1] + 1 \in Cells
        BY <4>1, GroupCells
      <4>3. c \in CellsOf(h)
        BY <1>4, <4>1, <4>2
      <4> QED BY <1>4, <2>2, <4>3, GroupCells
    <3> QED BY <1>1, <3>1, <3>2, <3>3 DEF IInv, SlotsOwned
  <2>3. CASE h = g /\ Filled(g) = {} /\ ~fills_here(c)
    BY <1>19, <2>1, <2>3
  <2>4. CASE h = g /\ Filled(g) = {} /\ fills_here(c)
    <3>1. /\ \A t, v \in TokensOf(u) : batch[t] = batch[v]
          /\ Row(c) = 0 /\ l - at + 1 >= G
      BY <1>2, <2>4 DEF fills_here, ubatch_one_seq
    <3>2. c = G * g /\ G \in Nat /\ G * g \in Nat
      <4>1. Row(c) = c - G * g /\ c \in Nat
        BY <1>4, CellGroup
      <4>2. G \in Nat /\ G * g \in Nat
        BY AllocAssumption DEF Groups
      <4> QED BY <3>1, <4>1, <4>2
    <3>3. Filled(g)' = G * g .. c
      BY <1>17, <2>4, <3>2
    <3>4. \A d \in CellsOf(g) : seqs[d] = {}
      <4> SUFFICES ASSUME NEW d \in CellsOf(g) PROVE seqs[d] = {}
        OBVIOUS
      <4>1. d \in Cells /\ Base[d] = {} /\ \A t \in 1 .. Len(plan) : plan[t] # d
        BY <2>4, GroupCells DEF Filled
      <4> QED BY <1>1, <4>1, DryCells
    <3>5. l - at >= G * g + G - 1 - c
      <4>1. PICK a \in Nat : a = G * g
        BY <3>2
      <4>2. c = a /\ l \in Nat /\ at \in Nat
        BY <1>2, <3>2, <4>1
      <4>3. l - at >= a + G - 1 - c
        BY <3>1, <3>2, <4>2
      <4> QED BY <4>1, <4>3
    <3>6. Filling(g)'
      BY <1>20, <3>1, <3>3, <3>4, <3>5
    <3> QED BY <2>4, <3>6
  <2>5. CASE h = g /\ Filled(g) # {}
    <3>1. Incomplete(g)
      <4>1. ~sealed[g]
        BY <1>17, <2>1, <2>5
      <4>2. Filled(g) # CellsOf(g)
        BY <1>4, <1>17
      <4> QED BY <2>1, <2>5, <4>1, <4>2 DEF Incomplete
    <3>2. CASE owners[stage_slot(g)] = g
      BY <1>19, <2>1, <2>5, <3>2
    <3>3. CASE Filling(g)
      <4>1. /\ at - 1 \in Placed /\ UbatchOf(at - 1) = UbatchOf(at)
            /\ plan[at - 1] + 1 \in CellsOf(g)
            /\ head_cur(s) = plan[at - 1] + 1 /\ acceptable(plan[at - 1] + 1, s)
        BY <1>1, <1>4, <3>1, <3>3, FillNext
      <4>2. plan[at - 1] + 1 \in Cells
        BY <4>1, GroupCells
      <4>3. c = plan[at - 1] + 1
        BY <1>4, <4>1, <4>2
      <4>4. UbatchOf(at - 1) = u /\ Len(plan) = at - 1
        BY <1>2, <4>1
      <4>5. /\ plan[at - 1] \in CellsOf(g) /\ Filled(g) = G * g .. plan[at - 1]
            /\ \A d \in CellsOf(g) : seqs[d] = {}
            /\ \A t, v \in TokensOf(u) : batch[t] = batch[v]
            /\ l - (at - 1) >= G * g + G - 1 - plan[at - 1]
        BY <1>2, <3>3, <4>4 DEF Filling
      <4>6. PICK a \in Nat, p \in Nat : a = G * g /\ p = plan[at - 1] /\ p >= a /\ G \in Nat
        <5>1. PICK a \in Nat : a = G * g /\ G \in Nat
          BY AllocAssumption DEF Groups
        <5>2. plan[at - 1] \in a .. a + G - 1
          BY <4>5, <5>1 DEF CellsOf
        <5> QED BY <5>1, <5>2
      <4>7. Filled(g)' = G * g .. c
        <5>1. a .. p + 1 = (a .. p) \cup {p + 1}
          BY <4>6
        <5> QED BY <1>17, <4>3, <4>5, <4>6, <5>1
      <4>8. l - at >= G * g + G - 1 - c
        <5>1. l - (at - 1) >= a + G - 1 - p /\ c = p + 1
          BY <4>3, <4>5, <4>6
        <5>2. l - at >= a + G - 1 - c
          <6>1. l \in Nat /\ at \in Nat
            BY <1>2
          <6> QED BY <4>6, <5>1, <6>1
        <5> QED BY <4>6, <5>2
      <4>9. Filling(g)'
        BY <1>20, <4>5, <4>7, <4>8
      <4> QED BY <2>5, <4>9
    <3> QED BY <1>1, <2>5, <3>1, <3>2, <3>3 DEF IInv, SlotsOwned
  <2> QED BY <2>2, <2>3, <2>4, <2>5
<1>22. SlotsOwned'
  <2>1. ASSUME NEW h \in Groups, h > 0, sealed'[h], pc' = "find" PROVE Filled(h)' # {}
    <3>1. CASE h = g
      BY <1>17, <3>1
    <3>2. CASE h # g
      BY <1>1, <1>17, <2>1, <3>2 DEF IInv, SlotsOwned
    <3> QED BY <3>1, <3>2
  <2>2. \A h \in Groups : stage_slot(h)' = stage_slot(h)
    BY DEF stage_slot
  <2> QED BY <1>21, <2>1, <2>2 DEF SlotsOwned
<1>23. SlotsApart'
  <2>1. ASSUME NEW h \in Groups, Incomplete(h)', pc' = "emplace" PROVE ~Filling(h)'
    <3> SUFFICES ASSUME Filling(h)' PROVE FALSE
      OBVIOUS
    <3>1. /\ c \in CellsOf(h) /\ Filled(h)' = G * h .. c
          /\ l - at >= G * h + G - 1 - c /\ at = l
      BY <1>2, <1>5, <1>7, <1>8, <2>1 DEF Filling, CellsOf
    <3>2. PICK a \in Nat : a = G * h /\ G \in Nat
      BY AllocAssumption DEF Groups
    <3>3. c \in a .. a + G - 1 /\ 0 >= a + G - 1 - c
      BY <1>2, <3>1, <3>2 DEF CellsOf
    <3>4. c = a + G - 1
      BY <3>2, <3>3
    <3>5. Filled(h)' = CellsOf(h)
      BY <3>1, <3>2, <3>4 DEF CellsOf
    <3> QED BY <2>1, <3>5 DEF Incomplete, CellsOf
  <2>2. ASSUME NEW h \in Groups, NEW k \in Groups, Incomplete(h)', Incomplete(k)',
               stage_slot(h) = stage_slot(k), pc' = "emplace"
        PROVE  h = k
    <3>1. owners'[stage_slot(h)] = h /\ owners'[stage_slot(k)] = k
      BY <1>21, <2>1, <2>2
    <3> QED BY <2>2, <3>1
  <2>3. \A h \in Groups : stage_slot(h)' = stage_slot(h)
    BY DEF stage_slot
  <2> QED BY <1>6, <2>2, <2>3 DEF SlotsApart
<1> QED BY <1>10, <1>11, <1>12, <1>13, <1>14, <1>15, <1>16, <1>18, <1>22, <1>23 DEF IInv

-----------------------------------------------------------------------------
(* Every step keeps the invariant.                                         *)
LEMMA InvStep == IInv /\ [Next]_vars => IInv'
<1> SUFFICES ASSUME IInv, [Next]_vars PROVE IInv'
  OBVIOUS
<1>1. CASE DecodeStep
  BY <1>1, InitBatchStep, FindSeedStep, FindTokenStep, FindFailStep, EmplaceStep,
     RestoreStep, ApplyStep, StoreStep, AttendedStep DEF DecodeStep
<1>2. CASE EditStep
  BY <1>2, ClearStep, SeqRmStep, SeqKeepStep, SeqCpStep DEF EditStep
<1>3. CASE UNCHANGED vars
  <2>1. UNCHANGED <<pos, seqs, heads, sealed, owners, staged, recorded,
                    pc, batch, plan, at, saved, copied>>
    BY <1>3 DEF vars
  <2>2. Applied' = Applied /\ Base' = Base /\ \A s, n : Todo(s, n)' = Todo(s, n)
    BY <2>1 DEF Applied, Base, LastOf, Todo
  <2>3. TypeOK' /\ NoStageAlias' /\ Phase' /\ SavedCells' /\ OwnCells'
    <3>1. TypeOK'
      BY <2>1 DEF IInv, TypeOK
    <3>2. NoStageAlias' /\ OwnCells'
      BY <2>1 DEF IInv, NoStageAlias, OwnCells
    <3>3. Phase'
      BY <2>1 DEF IInv, Phase, LastOf
    <3>4. SavedCells'
      BY <2>1 DEF IInv, SavedCells
    <3> QED BY <3>1, <3>2, <3>3, <3>4
  <2>4. Room'
    BY <2>1, <2>2 DEF IInv, Room, RoomFor
  <2>5. Overlay'
    BY <2>1, <2>2 DEF IInv, Overlay
  <2>6. /\ \A g \in Groups : Filled(g)' = Filled(g)
        /\ \A g \in Groups, s \in Seqs : Claims(s, g)' => Claims(s, g)
    BY <2>1, <2>2, SameCache
  <2>7. OneClaim'
    BY <2>1, <2>6, FewerClaims DEF IInv
  <2>8. \A g \in Groups : (Incomplete(g)' <=> Incomplete(g)) /\ (Filling(g)' <=> Filling(g))
    BY <2>1, <2>6 DEF Incomplete, Filling, TokensOf, LastOf
  <2>9. SlotsApart' /\ SlotsOwned' /\ FullSealed'
    BY <2>1, <2>6, <2>8 DEF IInv, SlotsApart, SlotsOwned, FullSealed, stage_slot, CellsOf
  <2> QED BY <2>3, <2>4, <2>5, <2>7, <2>9 DEF IInv
<1>4. CASE FailStep
  BY <1>4, GraphFailsStep DEF FailStep
<1> QED BY <1>1, <1>2, <1>3, <1>4 DEF Next

(* The strengthened invariant holds throughout.                            *)
THEOREM AllocInvariant == Spec => []IInv
  BY InitInv, InvStep, PTL DEF Spec

(* Every variable keeps its type: in particular positions, heads and the   *)
(* owners of stage slots stay within the cache.                            *)
THEOREM AllocTypeCorrect == Spec => []TypeOK
<1>1. IInv => TypeOK
  BY DEF IInv
<1> QED BY <1>1, AllocInvariant, PTL

(* "structured KV live groups alias one F16 stage slot" is never thrown,   *)
(* however short the ring of stage slots and however the batches are cut.  *)
THEOREM AllocNoStageAlias == Spec => []NoStageAlias
<1>1. IInv => NoStageAlias
  BY DEF IInv
<1> QED BY <1>1, AllocInvariant, PTL

(* The occupied cells of a group that seq_cp has not shared belong to the  *)
(* same sequences, in the dry run of prepare() too.                        *)
THEOREM AllocOneSetPerGroup == Spec => []OneSetPerGroup
<1>1. IInv => OneSetPerGroup
  <2> SUFFICES ASSUME IInv, NEW g \in Groups, g \notin copied,
                      NEW c \in CellsOf(g), NEW d \in CellsOf(g), seqs[c] # {}, seqs[d] # {}
               PROVE  seqs[c] = seqs[d]
    BY DEF OneSetPerGroup, is_empty
  <2>1. ASSUME NEW e \in CellsOf(g), NEW s \in seqs[e] PROVE s \in Seqs /\ Claims(s, g)
    <3>1. e \in Cells /\ Group(e) = g
      BY GroupCells
    <3>2. s \in Seqs
      BY <2>1, <3>1 DEF IInv, TypeOK
    <3>3. CASE s \in Base[e]
      BY <3>2, <3>3 DEF Claims
    <3>4. CASE s \notin Base[e]
      <4>1. pc \in DryRun
        BY <2>1, <3>4 DEF Base
      <4>2. PICK t \in 1 .. Len(plan) : t <= Applied /\ plan[t] = e
        BY <2>1, <3>1, <3>4, <4>1, DryCells
      <4>3. seqs[e] = {batch[t]}
        BY <4>2 DEF IInv, Overlay
      <4>4. batch[t] = s /\ Group(plan[t]) = g
        BY <2>1, <3>1, <4>2, <4>3
      <4> QED BY <3>2, <4>4 DEF Claims
    <3> QED BY <3>3, <3>4
  <2>2. \A r \in seqs[c], s \in seqs[d] : r = s
    BY <2>1 DEF IInv, OneClaim
  <2>3. \A r, s \in seqs[c] : r = s
    BY <2>1 DEF IInv, OneClaim
  <2>4. \A r, s \in seqs[d] : r = s
    BY <2>1 DEF IInv, OneClaim
  <2> QED BY <2>2, <2>3, <2>4
<1> QED BY <1>1, AllocInvariant, PTL

-----------------------------------------------------------------------------
(* Cell c belongs to sequence s, or will once the batch is in.             *)
Holds(s, c) == s \in Base[c] \/ \E t \in 1 .. Len(plan) : plan[t] = c /\ batch[t] = s

(* Token t is the last of sequence s that has a cell.                      *)
IsLast(s, t) == batch[t] = s /\ \A v \in 1 .. Len(plan) : batch[v] = s => v <= t

(* The head of s once the tokens found so far are in.                      *)
FinalHead(s) ==
    IF \E t \in 1 .. Len(plan) : IsLast(s, t)
    THEN plan[CHOOSE t \in 1 .. Len(plan) : IsLast(s, t)] + 1 ELSE heads[s]

(* The positions of the cells without the dry run's.                       *)
BasePos == IF pc \in DryRun THEN saved[1] ELSE pos

(* The token in cell d comes before the one in cell c.                     *)
Older(d, c) ==
    IF \E t \in 1 .. Len(plan) : plan[t] = c
    THEN \A t, v \in 1 .. Len(plan) : plan[t] = c /\ plan[v] = d => v < t
    ELSE (\A v \in 1 .. Len(plan) : plan[v] # d) /\ BasePos[d] < BasePos[c]

(* Sequence s is filling group g: it fills it row by row, its head is the  *)
(* next row, and it has put nothing anywhere else since it began.          *)
Growing(s, g) ==
    /\ FinalHead(s) \in G * g + 1 .. G * g + G - 1
    /\ \A c \in CellsOf(g) : c \in Filled(g) <=> c < FinalHead(s)
    /\ \A c \in CellsOf(g), d \in Cells :
          Holds(s, c) /\ Holds(s, d) /\ (d \in CellsOf(g) => d < c) => Older(d, c)

(* A live incomplete group is the one its sequence is filling.             *)
LiveGrows ==
    pc # "failed" => \A g \in Groups \ copied, s \in Seqs :
        Incomplete(g) /\ (\E c \in CellsOf(g) : Holds(s, c)) => Growing(s, g)

(* A head is just after a cell of its sequence.                            *)
HeadAfter ==
    pc # "failed" => \A s \in Seqs :
        FinalHead(s) = 0 \/ (FinalHead(s) - 1 \in Cells /\ Holds(s, FinalHead(s) - 1))

(* The stored heads follow the tokens that are in their cells.             *)
HeadsFollow ==
    pc # "failed" => \A t \in 1 .. Len(plan) :
        t <= Applied /\ (\A v \in 1 .. Len(plan) : v <= Applied /\ batch[v] = batch[t] => v <= t)
            => heads[batch[t]] = plan[t] + 1

(* A token that is in its cell has a later position than what its sequence *)
(* had before.                                                             *)
PosFollow ==
    pc \in {"apply", "store", "attend"} => \A t \in 1 .. Len(plan), d \in Cells :
        t <= Applied /\ batch[t] \in seqs[d] /\ d # plan[t]
            /\ (\A v \in 1 .. Len(plan) : plan[v] = d => v < t)
                => pos[d] < pos[plan[t]]

HInv == LiveGrows /\ HeadAfter /\ HeadsFollow /\ PosFollow

-----------------------------------------------------------------------------
(* The tokens with a cell, by number.                                      *)
LEMMA PlanType ==
    ASSUME TypeOK
    PROVE  /\ Len(plan) \in Nat /\ Len(batch) \in Nat /\ Len(plan) <= Len(batch)
           /\ \A t \in 1 .. Len(plan) : plan[t] \in Cells /\ batch[t] \in Seqs
<1>1. plan \in Seq(Cells) /\ batch \in Seq(Seqs) /\ Len(plan) <= Len(batch)
  BY DEF TypeOK
<1>2. Len(plan) \in Nat /\ Len(batch) \in Nat
  BY <1>1
<1>3. \A t \in 1 .. Len(plan) : t \in 1 .. Len(batch)
  BY <1>1, <1>2
<1> QED BY <1>1, <1>2, <1>3

(* The head that the last token of a sequence leaves.                      *)
LEMMA FinalHeadWhen ==
    ASSUME TypeOK, NEW s, NEW t \in 1 .. Len(plan), IsLast(s, t)
    PROVE  FinalHead(s) = plan[t] + 1
<1>1. PICK m : m = CHOOSE x \in 1 .. Len(plan) : IsLast(s, x)
  OBVIOUS
<1>2. m \in 1 .. Len(plan) /\ IsLast(s, m)
  BY <1>1
<1>3. m <= t /\ t <= m /\ m \in Nat /\ t \in Nat
  BY <1>2, PlanType DEF IsLast
<1>4. m = t
  BY <1>3
<1> QED BY <1>1, <1>4 DEF FinalHead

(* The head is the one the last token of the sequence leaves, or the       *)
(* stored one if none has a cell yet.                                      *)
LEMMA FinalHeadIs ==
    ASSUME TypeOK, NEW s
    PROVE  \/ \E t \in 1 .. Len(plan) : IsLast(s, t) /\ FinalHead(s) = plan[t] + 1
           \/ (\A t \in 1 .. Len(plan) : batch[t] # s) /\ FinalHead(s) = heads[s]
<1>1. CASE \E t \in 1 .. Len(plan) : IsLast(s, t)
  BY <1>1, FinalHeadWhen
<1>2. CASE ~\E t \in 1 .. Len(plan) : IsLast(s, t)
  <2>1. FinalHead(s) = heads[s]
    BY <1>2 DEF FinalHead
  <2>2. ASSUME NEW w \in 1 .. Len(plan), batch[w] = s PROVE FALSE
    <3>1. PICK K : K = {t \in 1 .. Len(plan) : batch[t] = s}
      OBVIOUS
    <3>2. PICK b \in Int : b = Len(plan)
      BY PlanType
    <3>3. K \in SUBSET Int /\ K # {} /\ \A k \in K : k <= b
      BY <2>2, <3>1, <3>2
    <3>4. PICK m \in K : \A k \in K : k <= m
      BY <3>3, MaxExists
    <3>5. IsLast(s, m) /\ m \in 1 .. Len(plan)
      BY <3>1, <3>4 DEF IsLast
    <3> QED BY <1>2, <3>5
  <2> QED BY <2>1, <2>2
<1> QED BY <1>1, <1>2

(* The scan for a token starts from that head.                             *)
LEMMA HeadCur ==
    ASSUME IInv, HeadsFollow, pc = "find", NEW s \in Seqs
    PROVE  head_cur(s) = FinalHead(s)
<1>1. PICK u \in Nat, f \in Nat, l \in Nat :
         /\ u = UbatchOf(at) /\ f = FirstOf(u) /\ l = LastOf(u)
         /\ 1 <= f /\ f <= at /\ at <= l /\ l <= Len(batch)
         /\ at \in Nat /\ Len(batch) \in Nat /\ Len(plan) = at - 1
         /\ Placed = f .. at - 1 /\ Applied = f - 1 /\ TokensOf(u) = f .. l
         /\ \A v \in f .. l : UbatchOf(v) = u
  BY FindAt
<1>2. TypeOK
  BY DEF IInv
<1>3. PICK mine : mine = {t \in Placed : batch[t] = s}
  OBVIOUS
<1>4. \A v \in 1 .. Len(plan) : v \in Nat /\ (v \in Placed \/ v <= f - 1)
  BY <1>1
<1>5. CASE mine = {}
  <2>1. head_cur(s) = heads[s]
    BY <1>3, <1>5 DEF head_cur
  <2>2. CASE \E t \in 1 .. Len(plan) : IsLast(s, t) /\ FinalHead(s) = plan[t] + 1
    <3>1. PICK t \in 1 .. Len(plan) : IsLast(s, t) /\ FinalHead(s) = plan[t] + 1
      BY <2>2
    <3>2. t <= Applied /\ batch[t] = s
      BY <1>1, <1>3, <1>4, <1>5, <3>1 DEF IsLast
    <3>3. \A v \in 1 .. Len(plan) : v <= Applied /\ batch[v] = batch[t] => v <= t
      BY <3>1, <3>2 DEF IsLast
    <3>4. heads[s] = plan[t] + 1
      BY <3>2, <3>3 DEF HeadsFollow
    <3> QED BY <2>1, <3>1, <3>4
  <2>3. CASE FinalHead(s) = heads[s]
    BY <2>1, <2>3
  <2> QED BY <1>2, <2>2, <2>3, FinalHeadIs
<1>6. CASE mine # {}
  <2>1. mine \subseteq Nat /\ \A k \in mine : k <= at
    BY <1>1, <1>3
  <2>2. PICK m : m = CHOOSE t \in mine : \A v \in mine : v <= t
    OBVIOUS
  <2>3. m \in mine /\ \A v \in mine : v <= m
    BY <1>1, <1>6, <2>1, <2>2, LastChosen
  <2>4. m \in 1 .. Len(plan) /\ batch[m] = s /\ m >= f /\ m \in Nat
    BY <1>1, <1>3, <2>3
  <2>5. \A v \in 1 .. Len(plan) : batch[v] = s => v <= m
    <3> SUFFICES ASSUME NEW v \in 1 .. Len(plan), batch[v] = s PROVE v <= m
      OBVIOUS
    <3>1. CASE v \in Placed
      BY <1>3, <2>3, <3>1
    <3>2. CASE v <= f - 1
      BY <1>1, <1>4, <2>4, <3>2
    <3> QED BY <1>4, <3>1, <3>2
  <2>6. FinalHead(s) = plan[m] + 1
    BY <1>2, <2>4, <2>5, FinalHeadWhen DEF IsLast
  <2>7. head_cur(s) = plan[m] + 1
    BY <1>3, <1>6, <2>2 DEF head_cur
  <2> QED BY <2>6, <2>7
<1> QED BY <1>5, <1>6

-----------------------------------------------------------------------------
(* Holding a cell of a group is a claim to the group ...                   *)
LEMMA HoldsClaims ==
    ASSUME IInv, NEW g \in Groups, NEW c \in CellsOf(g), NEW s \in Seqs, Holds(s, c)
    PROVE  Claims(s, g)
<1>1. Group(c) = g
  BY GroupCells
<1> QED BY <1>1 DEF Holds, Claims

(* ... so a cell with a token to come is held by the token's sequence.     *)
LEMMA HoldsPlanned ==
    ASSUME IInv, NEW t \in 1 .. Len(plan), NEW s \in Seqs, Holds(s, plan[t])
    PROVE  s = batch[t]
<1>1. plan[t] \in Cells /\ batch[t] \in Seqs
  BY PlanType DEF IInv
<1>2. PICK g \in Groups : g = Group(plan[t]) /\ plan[t] \in CellsOf(g)
  BY <1>1, CellGroup
<1>3. Claims(s, g) /\ Claims(batch[t], g)
  BY <1>2, HoldsClaims DEF Claims
<1> QED BY <1>1, <1>2, <1>3 DEF IInv, OneClaim

(* A filled cell is held, in a group of one sequence by that one.          *)
LEMMA FilledHeld ==
    ASSUME IInv, NEW g \in Groups, NEW c \in Filled(g)
    PROVE  c \in CellsOf(g) /\ c \in Cells /\ \E s \in Seqs : Holds(s, c)
<1>1. c \in CellsOf(g) /\ c \in Cells
  BY GroupCells DEF Filled
<1>2. CASE \E t \in 1 .. Len(plan) : plan[t] = c
  BY <1>1, <1>2, PlanType DEF IInv, Holds
<1>3. CASE Base[c] # {}
  <2>1. Base[c] \subseteq Seqs
    BY <1>1 DEF Base, IInv, TypeOK, SavedCells
  <2> QED BY <1>1, <1>3, <2>1 DEF Holds
<1> QED BY <1>1, <1>2, <1>3 DEF Filled

(* What a sequence holds in a group is filled.                             *)
LEMMA HeldFilled ==
    ASSUME NEW g, NEW c \in CellsOf(g), NEW s, Holds(s, c)
    PROVE  c \in Filled(g)
BY DEF Holds, Filled

(* Steps that change neither what is held nor in which order.              *)
LEMMA GrowSame ==
    ASSUME LiveGrows, HeadAfter, pc # "failed", copied' = copied,
           \A s \in Seqs, c \in Cells : Holds(s, c)' <=> Holds(s, c),
           \A g \in Groups : Filled(g)' = Filled(g) /\ (Incomplete(g)' => Incomplete(g)),
           \A s \in Seqs : FinalHead(s)' = FinalHead(s),
           \A s \in Seqs, c \in Cells, d \in Cells :
               Holds(s, c) /\ Holds(s, d) /\ d # c /\ Older(d, c) => Older(d, c)'
    PROVE  LiveGrows' /\ HeadAfter'
<1>1. HeadAfter'
  BY DEF HeadAfter
<1>2. ASSUME NEW g \in Groups, g \notin copied', NEW s \in Seqs, Incomplete(g)',
             \E c \in CellsOf(g) : Holds(s, c)'
      PROVE  Growing(s, g)'
  <2>1. \A c \in CellsOf(g) : c \in Cells /\ c \in Int
    BY GroupCells, CellGroup
  <2>2. Growing(s, g)
    BY <1>2, <2>1 DEF LiveGrows
  <2>3. FinalHead(s)' \in G * g + 1 .. G * g + G - 1
    BY <2>2 DEF Growing
  <2>4. \A c \in CellsOf(g) : c \in Filled(g)' <=> c < FinalHead(s)'
    BY <2>2 DEF Growing
  <2>5. ASSUME NEW c \in CellsOf(g), NEW d \in Cells, Holds(s, c)', Holds(s, d)',
               d \in CellsOf(g) => d < c
        PROVE  Older(d, c)'
    <3>1. Holds(s, c) /\ Holds(s, d) /\ c \in Cells
      BY <2>1, <2>5
    <3>2. Older(d, c)
      BY <2>2, <2>5, <3>1 DEF Growing
    <3>3. d # c
      BY <2>1, <2>5
    <3> QED BY <3>1, <3>2, <3>3
  <2> QED BY <2>3, <2>4, <2>5 DEF Growing
<1>3. LiveGrows'
  BY <1>2 DEF LiveGrows
<1> QED BY <1>1, <1>3

(* Steps that place no token move no head for good and change no order.    *)
LEMMA SamePlan ==
    ASSUME TypeOK, plan' = plan, batch' = batch,
           \A s \in Seqs : (\A t \in 1 .. Len(plan) : batch[t] # s) => heads'[s] = heads[s],
           \A c \in Cells : (\A t \in 1 .. Len(plan) : plan[t] # c) => BasePos'[c] = BasePos[c]
    PROVE  /\ \A s \in Seqs : FinalHead(s)' = FinalHead(s)
           /\ \A c \in Cells, d \in Cells : Older(d, c) => Older(d, c)'
<1>1. ASSUME NEW s \in Seqs PROVE FinalHead(s)' = FinalHead(s)
  <2>1. \A t \in 1 .. Len(plan) : IsLast(s, t)' <=> IsLast(s, t)
    BY DEF IsLast
  <2>2. CASE \E t \in 1 .. Len(plan) : IsLast(s, t)
    <3>1. PICK t \in 1 .. Len(plan) : IsLast(s, t)
      BY <2>2
    <3>2. FinalHead(s) = plan[t] + 1
      BY <3>1, FinalHeadWhen
    <3>3. PICK m : m = CHOOSE x \in 1 .. Len(plan') : IsLast(s, x)'
      OBVIOUS
    <3>4. m \in 1 .. Len(plan) /\ IsLast(s, m)
      BY <2>1, <3>1, <3>3
    <3>5. FinalHead(s)' = plan[m] + 1
      BY <2>1, <3>1, <3>3 DEF FinalHead
    <3>6. FinalHead(s) = plan[m] + 1
      BY <3>4, FinalHeadWhen
    <3> QED BY <3>5, <3>6
  <2>3. CASE ~\E t \in 1 .. Len(plan) : IsLast(s, t)
    <3>1. (\A t \in 1 .. Len(plan) : batch[t] # s) /\ FinalHead(s) = heads[s]
      BY <2>3, FinalHeadIs
    <3>2. FinalHead(s)' = heads'[s]
      BY <2>1, <2>3 DEF FinalHead
    <3> QED BY <3>1, <3>2
  <2> QED BY <2>2, <2>3
<1>2. ASSUME NEW c \in Cells, NEW d \in Cells, Older(d, c) PROVE Older(d, c)'
  <2>1. CASE \E t \in 1 .. Len(plan) : plan[t] = c
    BY <1>2, <2>1 DEF Older
  <2>2. CASE ~\E t \in 1 .. Len(plan) : plan[t] = c
    BY <1>2, <2>2 DEF Older
  <2> QED BY <2>1, <2>2
<1> QED BY <1>1, <1>2

(* The base and the plan are all that is held.                             *)
LEMMA SameHolds ==
    ASSUME Base' = Base, plan' = plan, batch' = batch
    PROVE  \A s \in Seqs, c \in Cells : Holds(s, c)' <=> Holds(s, c)
BY DEF Holds

(* The heads after an ubatch: those of its last tokens.                    *)
LEMMA NewHeadsFollow ==
    ASSUME IInv, HeadsFollow, pc \in {"emplace", "apply"},
           heads' = newHeads(UbatchOf(at)), NEW l, l = LastOf(UbatchOf(at)),
           NEW t \in 1 .. Len(plan), t <= l,
           \A v \in 1 .. Len(plan) : v <= l /\ batch[v] = batch[t] => v <= t
    PROVE  heads'[batch[t]] = plan[t] + 1
<1>1. PICK u \in Nat, k \in Nat :
          /\ u = UbatchOf(at) /\ k = LastOf(u) /\ FirstOf(u) = at
          /\ at \in 1 .. Len(batch) /\ k \in at .. Len(batch) /\ k <= Len(plan)
          /\ TokensOf(u) = at .. k
          /\ TokensOf(u) \subseteq 1 .. Len(plan) /\ TokensOf(u) \subseteq 1 .. Len(batch)
  BY CurrentUbatch DEF IInv
<1>2. /\ k = l /\ Len(batch) \in Nat /\ Len(plan) \in Nat /\ at \in Nat
      /\ Applied = at - 1
  BY <1>1, PlanType DEF IInv, Applied, DryRun
<1>3. PICK s \in Seqs : s = batch[t]
  BY PlanType DEF IInv
<1>4. PICK mine : mine = {v \in TokensOf(u) : batch[v] = s}
  OBVIOUS
<1>5. heads'[s] = IF mine = {} THEN heads[s]
                  ELSE plan[CHOOSE x \in mine : \A v \in mine : v <= x] + 1
  BY <1>1, <1>4 DEF newHeads
<1>6. CASE t >= at
  <2>1. t \in mine /\ mine \subseteq Nat /\ \A v \in mine : v <= t
    BY <1>1, <1>2, <1>3, <1>4, <1>6
  <2>2. PICK m : m = CHOOSE x \in mine : \A v \in mine : v <= x
    OBVIOUS
  <2>3. m \in mine /\ \A v \in mine : v <= m
    BY <1>2, <2>1, <2>2, LastChosen
  <2>4. m = t
    BY <2>1, <2>3
  <2> QED BY <1>3, <1>5, <2>1, <2>2, <2>4
<1>7. CASE t < at
  <2>1. mine = {}
    BY <1>1, <1>2, <1>3, <1>4, <1>7
  <2>2. t <= Applied /\ \A v \in 1 .. Len(plan) : v <= Applied /\ batch[v] = batch[t] => v <= t
    BY <1>1, <1>2, <1>7
  <2>3. pc # "failed"
    OBVIOUS
  <2>4. heads[s] = plan[t] + 1
    BY <1>3, <2>2, <2>3 DEF HeadsFollow
  <2> QED BY <1>3, <1>5, <2>1, <2>4
<1> QED BY <1>2, <1>6, <1>7

(* A sequence without a token keeps its head.                              *)
LEMMA NewHeadsKeep ==
    ASSUME IInv, pc \in {"emplace", "apply"}, heads' = newHeads(UbatchOf(at)), NEW s \in Seqs,
           \A t \in 1 .. Len(plan) : batch[t] # s
    PROVE  heads'[s] = heads[s]
<1>1. PICK u \in Nat, k \in Nat :
          /\ u = UbatchOf(at) /\ k = LastOf(u) /\ FirstOf(u) = at
          /\ at \in 1 .. Len(batch) /\ k \in at .. Len(batch) /\ k <= Len(plan)
          /\ TokensOf(u) = at .. k
          /\ TokensOf(u) \subseteq 1 .. Len(plan) /\ TokensOf(u) \subseteq 1 .. Len(batch)
  BY CurrentUbatch DEF IInv
<1> QED BY <1>1 DEF newHeads

-----------------------------------------------------------------------------
(* A batch arrives.                                                        *)
LEMMA InitBatchGrows == ASSUME IInv, HInv, InitBatch PROVE HInv'
<1>1. /\ pc = "idle" /\ pc' = "seed" /\ plan' = <<>> /\ saved' = <<pos, seqs>>
      /\ UNCHANGED <<pos, seqs, heads, sealed, copied>>
  BY DEF InitBatch, cellVars
<1>2. plan = <<>> /\ Len(plan) = 0 /\ Len(plan') = 0
  BY <1>1 DEF IInv, Phase
<1>3. Base' = Base /\ BasePos' = BasePos
  BY <1>1 DEF Base, BasePos, DryRun
<1>4. \A t : ~(t \in 1 .. 0)
  OBVIOUS
<1>5. \A s \in Seqs, c \in Cells : Holds(s, c)' <=> Holds(s, c)
  BY <1>2, <1>3, <1>4 DEF Holds
<1>6. \A g \in Groups : Filled(g)' = Filled(g) /\ (Incomplete(g)' => Incomplete(g))
  BY <1>1, <1>2, <1>3, <1>4 DEF Filled, Incomplete
<1>7. \A s \in Seqs : FinalHead(s)' = FinalHead(s)
  BY <1>1, <1>2, <1>4 DEF FinalHead
<1>8. \A c \in Cells, d \in Cells : Older(d, c) => Older(d, c)'
  BY <1>2, <1>3, <1>4 DEF Older
<1>9. LiveGrows' /\ HeadAfter'
  BY <1>1, <1>5, <1>6, <1>7, <1>8, GrowSame DEF HInv
<1>10. HeadsFollow' /\ PosFollow'
  BY <1>1, <1>2, <1>4 DEF HeadsFollow, PosFollow
<1> QED BY <1>9, <1>10 DEF HInv

(* find_slot seals and unseals at its start, but never unseals a group     *)
(* with something in it.                                                   *)
LEMMA FindSeedGrows == ASSUME IInv, HInv, FindSeed PROVE HInv'
<1>1. /\ pc = "seed" /\ UNCHANGED <<pos, seqs, heads, batch, plan, at, saved, copied>>
  BY DEF FindSeed
<1>2. /\ pc' = "find" /\ \A g \in Groups : Filled(g)' = Filled(g)
      /\ \A g \in Groups : g > 0 =>
            (sealed'[g] <=> Filled(g) # {} /\ (Filled(g) = CellsOf(g) \/ sealed[g]))
  BY SeedEffect
<1>3. Base' = Base /\ BasePos' = BasePos
  BY <1>1, <1>2 DEF Base, BasePos, DryRun
<1>4. \A g \in Groups : Incomplete(g)' => Incomplete(g)
  BY <1>2 DEF Incomplete
<1>5. TypeOK
  BY DEF IInv
<1>6. /\ \A s \in Seqs : FinalHead(s)' = FinalHead(s)
      /\ \A c \in Cells, d \in Cells : Older(d, c) => Older(d, c)'
  BY <1>1, <1>3, <1>5, SamePlan
<1>7. LiveGrows' /\ HeadAfter'
  BY <1>1, <1>2, <1>3, <1>4, <1>6, SameHolds, GrowSame DEF HInv
<1>8. Applied' = Applied
  BY <1>1, <1>2 DEF Applied, DryRun
<1>9. HeadsFollow' /\ PosFollow'
  BY <1>1, <1>2, <1>8 DEF HeadsFollow, PosFollow, HInv
<1> QED BY <1>7, <1>9 DEF HInv

(* The dry run moves the heads along with the tokens it emplaces.          *)
LEMMA EmplaceGrows == ASSUME IInv, HInv, Emplace PROVE HInv'
<1>1. /\ pc = "emplace" /\ pc' = "seed" /\ LastOf(UbatchOf(at)) < Len(batch)
      /\ heads' = newHeads(UbatchOf(at)) /\ at' = LastOf(UbatchOf(at)) + 1
      /\ UNCHANGED <<sealed, batch, plan, saved, copied>>
  BY DEF Emplace, apply_ubatch
<1>2. TypeOK /\ at \in 1 .. Len(batch) /\ Len(batch) \in Nat
  BY <1>1 DEF IInv, Phase, TypeOK
<1>3. PICK l \in Nat : l = LastOf(UbatchOf(at)) /\ l + 1 = FirstOf(UbatchOf(l + 1))
  BY <1>1, <1>2, UbatchBounds
<1>4. Applied' = l
  <2>1. FirstOf(UbatchOf(at')) - 1 = l
    BY <1>1, <1>3
  <2> QED BY <1>1, <1>3, <2>1 DEF Applied, DryRun
<1>5. Base' = Base /\ BasePos' = BasePos
  BY <1>1 DEF Base, BasePos, DryRun
<1>6. \A s \in Seqs : (\A t \in 1 .. Len(plan) : batch[t] # s) => heads'[s] = heads[s]
  BY <1>1, NewHeadsKeep
<1>7. /\ \A s \in Seqs : FinalHead(s)' = FinalHead(s)
      /\ \A c \in Cells, d \in Cells : Older(d, c) => Older(d, c)'
  BY <1>1, <1>2, <1>5, <1>6, SamePlan
<1>8. \A g \in Groups : Filled(g)' = Filled(g) /\ (Incomplete(g)' => Incomplete(g))
  BY <1>1, <1>5 DEF Filled, Incomplete
<1>9. LiveGrows' /\ HeadAfter'
  BY <1>1, <1>5, <1>7, <1>8, SameHolds, GrowSame DEF HInv
<1>10. HeadsFollow'
  <2> SUFFICES ASSUME NEW t \in 1 .. Len(plan), t <= l,
                      \A v \in 1 .. Len(plan) : v <= l /\ batch[v] = batch[t] => v <= t
               PROVE  heads'[batch[t]] = plan[t] + 1
    BY <1>1, <1>4 DEF HeadsFollow
  <2> QED BY <1>1, <1>3, NewHeadsFollow DEF HInv
<1>11. PosFollow'
  BY <1>1 DEF PosFollow
<1> QED BY <1>9, <1>10, <1>11 DEF HInv

(* prepare() puts the cells back and leaves the heads where the batch will *)
(* end.                                                                    *)
LEMMA RestoreGrows == ASSUME IInv, HInv, Restore PROVE HInv'
<1>1. /\ pc = "emplace" /\ pc' = "apply" /\ heads' = newHeads(UbatchOf(at)) /\ at' = 1
      /\ pos' = saved[1] /\ seqs' = saved[2]
      /\ UNCHANGED <<sealed, batch, plan, copied>>
  BY DEF Restore
<1>2. TypeOK
  BY DEF IInv
<1>3. Applied' = 0
  BY <1>1 DEF Applied, DryRun
<1>4. Base' = Base /\ BasePos' = BasePos
  BY <1>1 DEF Base, BasePos, DryRun
<1>5. \A s \in Seqs : (\A t \in 1 .. Len(plan) : batch[t] # s) => heads'[s] = heads[s]
  BY <1>1, NewHeadsKeep
<1>6. /\ \A s \in Seqs : FinalHead(s)' = FinalHead(s)
      /\ \A c \in Cells, d \in Cells : Older(d, c) => Older(d, c)'
  BY <1>1, <1>2, <1>4, <1>5, SamePlan
<1>7. \A g \in Groups : Filled(g)' = Filled(g) /\ (Incomplete(g)' => Incomplete(g))
  BY <1>1, <1>4 DEF Filled, Incomplete
<1>8. LiveGrows' /\ HeadAfter'
  BY <1>1, <1>4, <1>6, <1>7, SameHolds, GrowSame DEF HInv
<1>9. \A t \in 1 .. Len(plan) : ~(t <= 0)
  BY <1>2, PlanType
<1>10. HeadsFollow' /\ PosFollow'
  BY <1>1, <1>3, <1>9 DEF HeadsFollow, PosFollow
<1> QED BY <1>8, <1>10 DEF HInv

(* The tokens of the ubatch stay in their cells while its rows are stored. *)
LEMMA StoreApplied == ASSUME IInv, Store PROVE Applied' = Applied
<1>1. /\ pc = "store" /\ pc' \in {"store", "attend"}
      /\ UNCHANGED <<pos, seqs, heads, sealed, batch, plan, saved, copied>>
      /\ \/ at = LastOf(UbatchOf(at)) /\ pc' = "attend" /\ at' = at
         \/ at # LastOf(UbatchOf(at)) /\ pc' = "store" /\ at' = at + 1
  BY DEF Store
<1>2. at \in 1 .. Len(batch) /\ Len(batch) \in Nat /\ TypeOK
  BY <1>1 DEF IInv, Phase, TypeOK
<1>3. PICK u \in Nat, l \in Nat :
         /\ u = UbatchOf(at) /\ l = LastOf(u) /\ l \in at .. Len(batch)
         /\ FirstOf(u) \in 1 .. at /\ \A v \in FirstOf(u) .. l : UbatchOf(v) = u
  BY <1>2, UbatchBounds
<1>4. UbatchOf(at') = u
  <2>1. CASE at' = at
    BY <1>3, <2>1
  <2>2. CASE at # l /\ at' = at + 1
    <3>1. at + 1 \in FirstOf(u) .. l
      BY <1>2, <1>3, <2>2
    <3> QED BY <1>3, <2>2, <3>1
  <2> QED BY <1>1, <1>3, <2>1, <2>2
<1>5. LastOf(u)' = l
  BY <1>1, <1>3 DEF LastOf
<1>6. Applied = l /\ Applied' = l
  BY <1>1, <1>3, <1>4, <1>5 DEF Applied, DryRun
<1> QED BY <1>6

(* The store kernel moves nothing.                                         *)
LEMMA StoreGrows == ASSUME IInv, HInv, Store PROVE HInv'
<1>1. /\ pc = "store" /\ pc' \in {"store", "attend"} /\ TypeOK
      /\ UNCHANGED <<pos, seqs, heads, sealed, batch, plan, saved, copied>>
  BY DEF Store, IInv
<1>2. Base' = Base /\ BasePos' = BasePos
  BY <1>1 DEF Base, BasePos, DryRun
<1>3. /\ \A s \in Seqs : FinalHead(s)' = FinalHead(s)
      /\ \A c \in Cells, d \in Cells : Older(d, c) => Older(d, c)'
  BY <1>1, <1>2, SamePlan
<1>4. \A g \in Groups : Filled(g)' = Filled(g) /\ (Incomplete(g)' => Incomplete(g))
  BY <1>1, <1>2 DEF Filled, Incomplete
<1>5. LiveGrows' /\ HeadAfter'
  BY <1>1, <1>2, <1>3, <1>4, SameHolds, GrowSame DEF HInv
<1>6. HeadsFollow' /\ PosFollow'
  BY <1>1, StoreApplied DEF HeadsFollow, PosFollow, HInv
<1> QED BY <1>5, <1>6 DEF HInv

(* An applied token gets a later position than all its sequence has.       *)
LEMMA ApplyPositions ==
    ASSUME IInv, pc = "apply", Apply, PosFollow,
           NEW l, l = LastOf(UbatchOf(at)),
           NEW t \in 1 .. Len(plan), t <= l, NEW d \in Cells, batch[t] \in seqs'[d], d # plan[t],
           \A v \in 1 .. Len(plan) : plan[v] = d => v < t
    PROVE  pos'[d] < pos'[plan[t]]
<1>1. PICK u \in Nat, k \in Nat :
          /\ u = UbatchOf(at) /\ k = LastOf(u) /\ FirstOf(u) = at
          /\ at \in 1 .. Len(batch) /\ k \in at .. Len(batch) /\ k <= Len(plan)
          /\ TokensOf(u) = at .. k
          /\ TokensOf(u) \subseteq 1 .. Len(plan) /\ TokensOf(u) \subseteq 1 .. Len(batch)
  BY CurrentUbatch DEF IInv
<1>2. /\ k = l /\ Len(batch) \in Nat /\ Len(plan) \in Nat /\ at \in Nat /\ Applied = at - 1
  BY <1>1, PlanType DEF IInv, Applied, DryRun
<1>3. /\ \A v \in TokensOf(u) :
            seqs'[plan[v]] = {batch[v]} /\ pos'[plan[v]] = NewPos(u, v)
      /\ \A c \in Cells : (\A v \in TokensOf(u) : plan[v] # c) =>
            seqs'[c] = seqs[c] /\ pos'[c] = pos[c]
  BY <1>1, ApplyCells DEF IInv, Apply
<1>4. PICK s \in Seqs : s = batch[t]
  BY PlanType DEF IInv
<1>5. CASE t < at
  <2>1. \A v \in TokensOf(u) : plan[v] # d
    BY <1>1, <1>2, <1>5
  <2>2. \A v \in TokensOf(u) : plan[v] # plan[t]
    BY <1>1, <1>2, <1>5 DEF IInv, OwnCells
  <2>3. plan[t] \in Cells
    BY PlanType DEF IInv
  <2>4. seqs'[d] = seqs[d] /\ pos'[d] = pos[d] /\ pos'[plan[t]] = pos[plan[t]]
    BY <1>3, <2>1, <2>2, <2>3
  <2>5. t <= Applied
    BY <1>2, <1>5
  <2>6. pos[d] < pos[plan[t]]
    BY <2>4, <2>5 DEF PosFollow
  <2> QED BY <2>4, <2>6
<1>6. CASE t >= at
  <2>1. t \in TokensOf(u)
    BY <1>1, <1>2, <1>6
  <2> DEFINE Upto(v) == {w \in TokensOf(u) : w <= v /\ batch[w] = s}
  <2>2. PICK m \in -1 .. MaxLen - 1 :
           /\ m = seq_pos_max(seqs, pos, s)
           /\ \A c \in Cells : s \in seqs[c] => pos[c] <= m
    BY SeqPosMax DEF IInv, TypeOK
  <2>3. pos'[plan[t]] = m + Cardinality(Upto(t))
    BY <1>3, <1>4, <2>1, <2>2 DEF NewPos
  <2>4. IsFiniteSet(TokensOf(u))
    BY <1>1, <1>2, FS_Interval
  <2>5. IsFiniteSet(Upto(t)) /\ {t} \subseteq Upto(t)
    <3>1. Upto(t) \subseteq TokensOf(u)
      OBVIOUS
    <3>2. t <= t
      BY <1>2
    <3> QED BY <1>4, <2>1, <2>4, <3>1, <3>2, FS_Subset
  <2>6. Cardinality({t}) = 1
    BY FS_Singleton
  <2>7. CASE \A v \in TokensOf(u) : plan[v] # d
    <3>1. seqs'[d] = seqs[d] /\ pos'[d] = pos[d]
      BY <1>3, <2>7
    <3>2. pos[d] <= m /\ pos[d] \in Int
      BY <1>4, <2>2, <3>1 DEF IInv, TypeOK
    <3>3. Cardinality(Upto(t)) \in Nat /\ 1 <= Cardinality(Upto(t))
      <4>1. PICK T : T = Upto(t)
        OBVIOUS
      <4>2. IsFiniteSet(T) /\ {t} \subseteq T /\ {} \subseteq T /\ {t} \cap {} = {}
        BY <2>5, <4>1
      <4>3. /\ Cardinality({t}) \in Nat /\ Cardinality({}) \in Nat /\ Cardinality(T) \in Nat
            /\ Cardinality({t}) + Cardinality({}) <= Cardinality(T)
        BY <4>2, CardSplit
      <4> QED BY <2>6, <4>1, <4>3
    <3> HIDE DEF Upto
    <3> QED BY <2>3, <3>1, <3>2, <3>3
  <2>8. CASE \E v \in TokensOf(u) : plan[v] = d
    <3>1. PICK v \in TokensOf(u) : plan[v] = d
      BY <2>8
    <3>2. v < t /\ batch[v] = s /\ v \in Nat /\ t \in Nat
      <4>1. v \in 1 .. Len(plan) /\ Len(plan) \in Nat
        BY <1>1, <3>1, PlanType DEF IInv
      <4>2. v < t
        BY <3>1, <4>1
      <4>3. seqs'[d] = {batch[v]}
        BY <1>3, <3>1
      <4> QED BY <1>4, <4>1, <4>2, <4>3
    <3>3. pos'[d] = m + Cardinality(Upto(v))
      BY <1>3, <2>2, <3>1, <3>2 DEF NewPos
    <3>4. Upto(v) \subseteq Upto(t) /\ Upto(v) \cap {t} = {}
      BY <1>1, <1>2, <3>2
    <3>5. PICK T, A : T = Upto(t) /\ A = Upto(v)
      OBVIOUS
    <3>6. /\ Cardinality(A) \in Nat /\ Cardinality({t}) \in Nat /\ Cardinality(T) \in Nat
          /\ Cardinality(A) + Cardinality({t}) <= Cardinality(T)
      BY <2>5, <3>4, <3>5, CardSplit
    <3> HIDE DEF Upto
    <3> QED BY <2>3, <2>6, <3>3, <3>5, <3>6
  <2> QED BY <2>7, <2>8
<1> QED BY <1>2, <1>5, <1>6

(* An applied token takes the cell it was promised.                        *)
LEMMA ApplyHolds ==
    ASSUME IInv, Apply
    PROVE  \A s \in Seqs, c \in Cells : Holds(s, c)' <=> Holds(s, c)
<1>1. /\ pc = "apply" /\ pc' = "store" /\ apply_ubatch(UbatchOf(at))
      /\ UNCHANGED <<sealed, batch, plan, at, saved, copied>>
  BY DEF Apply
<1>2. PICK u \in Nat, l \in Nat :
          /\ u = UbatchOf(at) /\ l = LastOf(u) /\ FirstOf(u) = at
          /\ at \in 1 .. Len(batch) /\ l \in at .. Len(batch) /\ l <= Len(plan)
          /\ TokensOf(u) = at .. l
          /\ TokensOf(u) \subseteq 1 .. Len(plan) /\ TokensOf(u) \subseteq 1 .. Len(batch)
  BY <1>1, CurrentUbatch DEF IInv
<1>3. /\ \A v \in TokensOf(u) : seqs'[plan[v]] = {batch[v]}
      /\ \A c \in Cells : (\A v \in TokensOf(u) : plan[v] # c) => seqs'[c] = seqs[c]
  BY <1>1, <1>2, ApplyCells DEF IInv
<1>4. Base = seqs /\ Base' = seqs'
  BY <1>1 DEF Base, DryRun
<1>5. ASSUME NEW s \in Seqs, NEW c \in Cells PROVE Holds(s, c)' <=> Holds(s, c)
  <2>1. CASE \A v \in TokensOf(u) : plan[v] # c
    BY <1>1, <1>3, <1>4, <2>1 DEF Holds
  <2>2. CASE \E v \in TokensOf(u) : plan[v] = c
    <3>1. PICK v \in 1 .. Len(plan) : plan[v] = c /\ seqs'[c] = {batch[v]}
      <4>1. PICK v \in TokensOf(u) : plan[v] = c
        BY <2>2
      <4>2. v \in 1 .. Len(plan) /\ seqs'[plan[v]] = {batch[v]}
        BY <1>2, <1>3, <4>1
      <4> QED BY <4>1, <4>2
    <3>2. Holds(s, c) => s = batch[v]
      BY <3>1, HoldsPlanned
    <3>3. Holds(s, c)' => s = batch[v]
      <4>1. ASSUME NEW w \in 1 .. Len(plan), plan[w] = c PROVE w = v
        BY <3>1, <4>1 DEF IInv, OwnCells
      <4> QED BY <1>1, <1>4, <3>1, <4>1 DEF Holds
    <3>4. s = batch[v] => Holds(s, c) /\ Holds(s, c)'
      BY <1>1, <3>1 DEF Holds
    <3> QED BY <3>2, <3>3, <3>4
  <2> QED BY <2>1, <2>2
<1> QED BY <1>5

(* The ubatch is applied for real.                                         *)
LEMMA ApplyGrows == ASSUME IInv, IInv', HInv, Apply PROVE HInv'
<1>1. /\ pc = "apply" /\ pc' = "store" /\ apply_ubatch(UbatchOf(at))
      /\ heads' = newHeads(UbatchOf(at))
      /\ UNCHANGED <<sealed, batch, plan, at, saved, copied>>
  BY DEF Apply, apply_ubatch
<1>2. PICK u \in Nat, l \in Nat :
          /\ u = UbatchOf(at) /\ l = LastOf(u) /\ FirstOf(u) = at
          /\ at \in 1 .. Len(batch) /\ l \in at .. Len(batch) /\ l <= Len(plan)
          /\ TokensOf(u) = at .. l
          /\ TokensOf(u) \subseteq 1 .. Len(plan) /\ TokensOf(u) \subseteq 1 .. Len(batch)
  BY <1>1, CurrentUbatch DEF IInv
<1>3. TypeOK /\ Len(batch) \in Nat
  BY <1>1 DEF IInv, TypeOK
<1>4. Applied' = l
  <2>1. LastOf(u)' = l
    BY <1>1, <1>2 DEF LastOf
  <2> QED BY <1>1, <1>2, <2>1 DEF Applied, DryRun
<1>5. /\ \A v \in TokensOf(u) :
            seqs'[plan[v]] = {batch[v]} /\ pos'[plan[v]] = NewPos(u, v)
      /\ \A c \in Cells : (\A v \in TokensOf(u) : plan[v] # c) =>
            seqs'[c] = seqs[c] /\ pos'[c] = pos[c]
  BY <1>1, <1>2, ApplyCells DEF IInv
<1>6. Base = seqs /\ Base' = seqs' /\ BasePos = pos /\ BasePos' = pos'
  BY <1>1 DEF Base, BasePos, DryRun
<1>7. \A s \in Seqs, c \in Cells : Holds(s, c)' <=> Holds(s, c)
  BY ApplyHolds
<1>8. ASSUME NEW g \in Groups PROVE Filled(g)' = Filled(g)
  <2>1. ASSUME NEW c \in CellsOf(g) PROVE c \in Filled(g)' <=> c \in Filled(g)
    <3>1. c \in Cells
      BY GroupCells
    <3>2. CASE \A v \in TokensOf(u) : plan[v] # c
      BY <1>1, <1>5, <1>6, <3>1, <3>2 DEF Filled
    <3>3. CASE \E v \in TokensOf(u) : plan[v] = c
      BY <1>1, <1>2, <3>1, <3>3 DEF Filled
    <3> QED BY <3>2, <3>3
  <2>2. Filled(g) \subseteq CellsOf(g) /\ Filled(g)' \subseteq CellsOf(g)
    BY DEF Filled
  <2> QED BY <2>1, <2>2
<1>9. \A g \in Groups : Incomplete(g)' => Incomplete(g)
  BY <1>1, <1>8 DEF Incomplete
<1>10. \A s \in Seqs : (\A t \in 1 .. Len(plan) : batch[t] # s) => heads'[s] = heads[s]
  BY <1>1, NewHeadsKeep
<1>11. \A c \in Cells : (\A t \in 1 .. Len(plan) : plan[t] # c) => BasePos'[c] = BasePos[c]
  BY <1>2, <1>5, <1>6
<1>12. /\ \A s \in Seqs : FinalHead(s)' = FinalHead(s)
       /\ \A c \in Cells, d \in Cells : Older(d, c) => Older(d, c)'
  BY <1>1, <1>3, <1>10, <1>11, SamePlan
<1>13. LiveGrows' /\ HeadAfter'
  BY <1>1, <1>7, <1>8, <1>9, <1>12, GrowSame DEF HInv
<1>14. HeadsFollow'
  <2> SUFFICES ASSUME NEW t \in 1 .. Len(plan), t <= l,
                      \A v \in 1 .. Len(plan) : v <= l /\ batch[v] = batch[t] => v <= t
               PROVE  heads'[batch[t]] = plan[t] + 1
    BY <1>1, <1>4 DEF HeadsFollow
  <2> QED BY <1>1, <1>2, NewHeadsFollow DEF HInv
<1>15. PosFollow'
  <2> SUFFICES ASSUME NEW t \in 1 .. Len(plan), NEW d \in Cells, t <= l, batch[t] \in seqs'[d],
                      d # plan[t], \A v \in 1 .. Len(plan) : plan[v] = d => v < t
               PROVE  pos'[d] < pos'[plan[t]]
    BY <1>1, <1>4 DEF PosFollow
  <2> QED BY <1>1, <1>2, ApplyPositions DEF HInv
<1> QED BY <1>13, <1>14, <1>15 DEF HInv

(* The batch goes on, or is done: then the positions tell the order.       *)
LEMMA AttendedGrows == ASSUME IInv, HInv, Attended PROVE HInv'
<1>1. /\ pc = "attend"
      /\ UNCHANGED <<pos, seqs, heads, sealed, saved, copied>>
  BY DEF Attended
<1>2. /\ at \in 1 .. Len(batch) /\ Len(batch) \in Nat /\ Len(plan) = Len(batch)
      /\ at = LastOf(UbatchOf(at)) /\ TypeOK
  BY <1>1 DEF IInv, Phase, TypeOK
<1>3. Applied = at
  BY <1>1, <1>2 DEF Applied, DryRun
<1>4. CASE at # Len(batch)
  <2>1. pc' = "apply" /\ at' = at + 1 /\ batch' = batch /\ plan' = plan
    BY <1>4 DEF Attended
  <2>2. Applied' = at
    BY <1>2, <2>1 DEF Applied, DryRun
  <2>3. Base' = Base /\ BasePos' = BasePos
    BY <1>1, <2>1 DEF Base, BasePos, DryRun
  <2>4. /\ \A s \in Seqs : FinalHead(s)' = FinalHead(s)
        /\ \A c \in Cells, d \in Cells : Older(d, c) => Older(d, c)'
    BY <1>1, <1>2, <2>1, <2>3, SamePlan
  <2>5. \A g \in Groups : Filled(g)' = Filled(g) /\ (Incomplete(g)' => Incomplete(g))
    BY <1>1, <2>1, <2>3 DEF Filled, Incomplete
  <2>6. LiveGrows' /\ HeadAfter'
    BY <1>1, <2>1, <2>3, <2>4, <2>5, SameHolds, GrowSame DEF HInv
  <2>7. HeadsFollow' /\ PosFollow'
    BY <1>1, <1>3, <2>1, <2>2 DEF HeadsFollow, PosFollow, HInv
  <2> QED BY <2>6, <2>7 DEF HInv
<1>5. CASE at = Len(batch)
  <2>1. pc' = "idle" /\ batch' = <<>> /\ plan' = <<>>
    BY <1>5 DEF Attended, NoBatch
  <2>2. Len(plan') = 0 /\ \A t : ~(t \in 1 .. 0)
    BY <2>1
  <2>3. Base = seqs /\ Base' = seqs /\ BasePos' = pos /\ BasePos = pos
    BY <1>1, <2>1 DEF Base, BasePos, DryRun
  <2>4. \A t \in 1 .. Len(plan) : t <= Applied /\ seqs[plan[t]] = {batch[t]}
    BY <1>2, <1>3, <1>5 DEF IInv, Overlay
  <2>5. \A s \in Seqs, c \in Cells : Holds(s, c)' <=> Holds(s, c)
    BY <2>2, <2>3, <2>4 DEF Holds
  <2>6. \A g \in Groups : Filled(g)' = Filled(g)
    BY <2>2, <2>3, <2>4 DEF Filled
  <2>7. \A g \in Groups : Incomplete(g)' => Incomplete(g)
    BY <1>1, <2>6 DEF Incomplete
  <2>8. ASSUME NEW s \in Seqs PROVE FinalHead(s)' = FinalHead(s)
    <3>1. FinalHead(s)' = heads[s]
      BY <1>1, <2>2 DEF FinalHead
    <3>2. CASE \E t \in 1 .. Len(plan) : IsLast(s, t) /\ FinalHead(s) = plan[t] + 1
      <4>1. PICK t \in 1 .. Len(plan) : IsLast(s, t) /\ FinalHead(s) = plan[t] + 1
        BY <3>2
      <4>2. /\ t <= Applied /\ batch[t] = s
            /\ \A v \in 1 .. Len(plan) : v <= Applied /\ batch[v] = batch[t] => v <= t
        BY <2>4, <4>1 DEF IsLast
      <4>3. pc # "failed"
        BY <1>1
      <4>4. heads[s] = plan[t] + 1
        BY <4>2, <4>3 DEF HInv, HeadsFollow
      <4> QED BY <3>1, <4>1, <4>4
    <3>3. CASE FinalHead(s) = heads[s]
      BY <3>1, <3>3
    <3> QED BY <1>2, <3>2, <3>3, FinalHeadIs
  <2>9. ASSUME NEW s \in Seqs, NEW c \in Cells, NEW d \in Cells,
               Holds(s, c), Holds(s, d), d # c, Older(d, c)
        PROVE  Older(d, c)'
    <3>1. pos[d] < pos[c]
      <4>1. CASE \E t \in 1 .. Len(plan) : plan[t] = c
        <5>1. PICK t \in 1 .. Len(plan) : plan[t] = c
          BY <4>1
        <5>2. s = batch[t]
          BY <2>9, <5>1, HoldsPlanned
        <5>3. s \in seqs[d]
          BY <2>5, <2>2, <2>3, <2>9 DEF Holds
        <5>4. \A v \in 1 .. Len(plan) : plan[v] = d => v < t
          BY <2>9, <5>1 DEF Older
        <5>5. pc \in {"apply", "store", "attend"}
          BY <1>1
        <5> QED BY <2>4, <2>9, <5>1, <5>2, <5>3, <5>4, <5>5 DEF HInv, PosFollow
      <4>2. CASE ~\E t \in 1 .. Len(plan) : plan[t] = c
        BY <2>3, <2>9, <4>2 DEF Older
      <4> QED BY <4>1, <4>2
    <3> QED BY <2>2, <2>3, <3>1 DEF Older
  <2>10. LiveGrows' /\ HeadAfter'
    BY <1>1, <2>5, <2>6, <2>7, <2>8, <2>9, GrowSame DEF HInv
  <2>11. HeadsFollow' /\ PosFollow'
    BY <2>1, <2>2 DEF HeadsFollow, PosFollow
  <2> QED BY <2>10, <2>11 DEF HInv
<1> QED BY <1>4, <1>5

(* A failed batch leaves the heads of the dry run behind: until the cache  *)
(* is cleared nothing is said.                                             *)
LEMMA FindFailGrows == ASSUME FindFail PROVE HInv'
<1>1. pc' = "failed"
  BY DEF FindFail
<1> QED BY <1>1 DEF HInv, LiveGrows, HeadAfter, HeadsFollow, PosFollow

-----------------------------------------------------------------------------
(* A sequence has one last token.                                          *)
LEMMA LastOnly ==
    ASSUME NEW b, NEW n \in Nat, NEW s, NEW t \in 1 .. n, b[t] = s,
           \A v \in 1 .. n : b[v] = s => v <= t
    PROVE  t = CHOOSE x \in 1 .. n : b[x] = s /\ \A v \in 1 .. n : b[v] = s => v <= x
<1>1. PICK m : m = CHOOSE x \in 1 .. n : b[x] = s /\ \A v \in 1 .. n : b[v] = s => v <= x
  OBVIOUS
<1>2. m \in 1 .. n /\ b[m] = s /\ \A v \in 1 .. n : b[v] = s => v <= m
  BY <1>1
<1>3. m <= t /\ t <= m /\ m \in Nat /\ t \in Nat
  BY <1>2
<1>4. m = t
  BY <1>3
<1> QED BY <1>1, <1>4

(* One token more has a cell: it is the last of its sequence.              *)
LEMMA OneMore ==
    ASSUME TypeOK, TypeOK', NEW c \in Cells, NEW s \in Seqs, plan' = Append(plan, c),
           batch' = batch, heads' = heads, Base' = Base, BasePos' = BasePos,
           s = batch[Len(plan) + 1], \A t \in 1 .. Len(plan) : plan[t] # c
    PROVE  /\ \A o \in Seqs, d \in Cells :
                  Holds(o, d)' <=> Holds(o, d) \/ (o = s /\ d = c)
           /\ FinalHead(s)' = c + 1
           /\ \A o \in Seqs : o # s => FinalHead(o)' = FinalHead(o)
           /\ \A d \in Cells : d # c => Older(d, c)'
           /\ \A e \in Cells, d \in Cells :
                  e # c /\ d # c /\ Older(d, e) => Older(d, e)'
<1>1. PICK n \in Nat : n = Len(plan)
  BY PlanType
<1>2. /\ Len(plan') = n + 1 /\ plan'[n + 1] = c /\ n + 1 \in 1 .. n + 1
      /\ \A t \in 1 .. n : plan'[t] = plan[t] /\ t \in 1 .. n + 1
  <2>1. plan \in Seq(Cells)
    BY DEF TypeOK
  <2> QED BY <1>1, <2>1
<1>3. \A t \in 1 .. n + 1 : t \in Nat /\ (t = n + 1 \/ (t \in 1 .. n /\ t < n + 1))
  BY <1>1
<1>4. ASSUME NEW o \in Seqs, NEW d \in Cells
      PROVE  Holds(o, d)' <=> Holds(o, d) \/ (o = s /\ d = c)
  BY <1>1, <1>2, <1>3 DEF Holds
<1>5. ASSUME NEW o, NEW t \in 1 .. Len(plan'), IsLast(o, t)'
       PROVE  FinalHead(o)' = plan'[t] + 1
  <2>1. Len(plan') \in Nat /\ batch'[t] = o /\ \A v \in 1 .. Len(plan') : batch'[v] = o => v <= t
    BY <1>1, <1>2, <1>5 DEF IsLast
  <2>2. t = CHOOSE x \in 1 .. Len(plan') : IsLast(o, x)'
    BY <2>1, LastOnly DEF IsLast
  <2> QED BY <1>5, <2>2 DEF FinalHead
<1>6. FinalHead(s)' = c + 1
  <2>1. IsLast(s, n + 1)'
    BY <1>1, <1>2, <1>3 DEF IsLast
  <2> QED BY <1>2, <1>5, <2>1
<1>7. ASSUME NEW o \in Seqs, o # s PROVE FinalHead(o)' = FinalHead(o)
  <2>1. CASE \E t \in 1 .. n : IsLast(o, t) /\ FinalHead(o) = plan[t] + 1
    <3>1. PICK t \in 1 .. n : IsLast(o, t) /\ FinalHead(o) = plan[t] + 1
      BY <2>1
    <3>2. t \in 1 .. Len(plan') /\ plan'[t] = plan[t]
      BY <1>2
    <3>3. IsLast(o, t)'
      BY <1>1, <1>2, <1>3, <1>7, <3>1 DEF IsLast
    <3>4. FinalHead(o)' = plan'[t] + 1
      BY <1>5, <3>2, <3>3
    <3> QED BY <3>1, <3>2, <3>4
  <2>2. CASE (\A t \in 1 .. n : batch[t] # o) /\ FinalHead(o) = heads[o]
    <3>1. \A t \in 1 .. Len(plan') : ~IsLast(o, t)'
      BY <1>1, <1>2, <1>3, <1>7, <2>2 DEF IsLast
    <3>2. FinalHead(o)' = heads'[o]
      BY <3>1 DEF FinalHead
    <3> QED BY <2>2, <3>2
  <2> QED BY <1>1, <2>1, <2>2, FinalHeadIs
<1>8. ASSUME NEW d \in Cells, d # c PROVE Older(d, c)'
  <2>1. \E t \in 1 .. Len(plan') : plan'[t] = c
    BY <1>2
  <2>2. \A t, v \in 1 .. Len(plan') : plan'[t] = c /\ plan'[v] = d => v < t
    BY <1>1, <1>2, <1>3, <1>8
  <2> QED BY <2>1, <2>2 DEF Older
<1>9. ASSUME NEW e \in Cells, NEW d \in Cells, e # c, d # c, Older(d, e)
      PROVE  Older(d, e)'
  <2>1. \A x : x # c =>
           \A t : (t \in 1 .. Len(plan') /\ plan'[t] = x) <=> (t \in 1 .. Len(plan) /\ plan[t] = x)
    BY <1>1, <1>2, <1>3
  <2>2. CASE \E t \in 1 .. Len(plan) : plan[t] = e
    <3>1. \A t, v \in 1 .. Len(plan) : plan[t] = e /\ plan[v] = d => v < t
      BY <1>9, <2>2 DEF Older
    <3>2. \A t, v \in 1 .. Len(plan') : plan'[t] = e /\ plan'[v] = d => v < t
      BY <1>9, <2>1, <3>1
    <3>3. \E t \in 1 .. Len(plan') : plan'[t] = e
      BY <1>9, <2>1, <2>2
    <3> QED BY <3>2, <3>3 DEF Older
  <2>3. CASE ~\E t \in 1 .. Len(plan) : plan[t] = e
    <3>1. (\A v \in 1 .. Len(plan) : plan[v] # d) /\ BasePos[d] < BasePos[e]
      BY <1>9, <2>3 DEF Older
    <3>2. \A v \in 1 .. Len(plan') : plan'[v] # d
      BY <1>9, <2>1, <3>1
    <3>3. ~\E t \in 1 .. Len(plan') : plan'[t] = e
      BY <1>9, <2>1, <2>3
    <3> QED BY <3>1, <3>2, <3>3 DEF Older
  <2> QED BY <2>2, <2>3
<1> QED BY <1>4, <1>6, <1>7, <1>8, <1>9

(* The cells that the dry run has filled belong to what the batch fills.   *)
LEMMA OccupiedFilled ==
    ASSUME IInv, pc \in DryRun, NEW g \in Groups, NEW d \in CellsOf(g), NEW r \in seqs[d]
    PROVE  Claims(r, g) /\ d \in Filled(g) /\ r \in Seqs
<1>1. d \in Cells /\ Group(d) = g
  BY GroupCells
<1>2. r \in Seqs
  BY <1>1 DEF IInv, TypeOK
<1>3. CASE seqs[d] = saved[2][d]
  BY <1>1, <1>2, <1>3 DEF Base, Claims, Filled
<1>4. CASE \E t \in 1 .. Len(plan) : t <= Applied /\ plan[t] = d
  <2>1. PICK t \in 1 .. Len(plan) : t <= Applied /\ plan[t] = d
    BY <1>4
  <2>2. r = batch[t]
    BY <2>1 DEF IInv, Overlay
  <2> QED BY <1>1, <1>2, <2>1, <2>2 DEF Claims, Filled
<1> QED BY <1>1, <1>3, <1>4 DEF IInv, Overlay

(* The head of a sequence that is filling a group fits its next token.     *)
LEMMA HeadFits ==
    ASSUME IInv, LiveGrows, pc = "find", NEW s \in Seqs, NEW g \in Groups, g \notin copied,
           Incomplete(g), \E c \in CellsOf(g) : Holds(s, c)
    PROVE  FinalHead(s) \in CellsOf(g) /\ acceptable(FinalHead(s), s)
<1>1. Growing(s, g)
  BY DEF LiveGrows
<1>2. PICK a \in Nat, h \in Nat :
         /\ a = G * g /\ h = FinalHead(s) /\ G \in Nat /\ h \in a + 1 .. a + G - 1
         /\ CellsOf(g) = a .. a + G - 1
  <2>1. PICK a \in Nat : a = G * g /\ G \in Nat
    BY AllocAssumption DEF Groups
  <2>2. FinalHead(s) \in a + 1 .. a + G - 1
    BY <1>1, <2>1 DEF Growing
  <2> QED BY <2>1, <2>2 DEF CellsOf
<1>3. h \in CellsOf(g) /\ h \in Cells /\ Group(h) = g
  <2>1. h \in CellsOf(g)
    BY <1>2
  <2> QED BY <2>1, GroupCells
<1>4. h \notin Filled(g)
  BY <1>1, <1>2, <1>3 DEF Growing
<1>5. pc \in DryRun
  BY DEF DryRun
<1>6. \A r \in Seqs : Claims(r, g) => r = s
  <2>1. Claims(s, g)
    BY HoldsClaims
  <2> QED BY <2>1 DEF IInv, OneClaim
<1>7. is_empty(h)
  BY <1>3, <1>4, <1>5, OccupiedFilled DEF is_empty, IInv, TypeOK
<1>8. Placed \subseteq 1 .. Len(plan)
  <2>1. PICK u \in Nat, f \in Nat, l \in Nat :
           /\ u = UbatchOf(at) /\ f = FirstOf(u) /\ l = LastOf(u)
           /\ 1 <= f /\ f <= at /\ at <= l /\ l <= Len(batch)
           /\ at \in Nat /\ Len(batch) \in Nat /\ Len(plan) = at - 1
           /\ Placed = f .. at - 1 /\ Applied = f - 1 /\ TokensOf(u) = f .. l
           /\ \A v \in f .. l : UbatchOf(v) = u
    BY FindAt
  <2> QED BY <2>1
<1>9. \A t \in Placed : plan[t] # h
  BY <1>3, <1>4, <1>8 DEF Filled
<1>10. compatible(h, s)
  <2>1. \A t \in Placed : Group(plan[t]) = g => batch[t] = s
    <3> SUFFICES ASSUME NEW t \in Placed, Group(plan[t]) = g PROVE batch[t] = s
      OBVIOUS
    <3>1. t \in 1 .. Len(plan) /\ batch[t] \in Seqs
      BY <1>8, PlanType DEF IInv
    <3>2. Claims(batch[t], g)
      BY <3>1 DEF Claims
    <3> QED BY <1>6, <3>1, <3>2
  <2>2. \A d \in CellsOf(g) : ~is_empty(d) => seqs[d] = {s}
    <3> SUFFICES ASSUME NEW d \in CellsOf(g), seqs[d] # {} PROVE seqs[d] = {s}
      BY DEF is_empty
    <3>1. \A r \in seqs[d] : r = s
      BY <1>5, <1>6, OccupiedFilled
    <3> QED BY <3>1
  <2> QED BY <1>3, <2>1, <2>2 DEF compatible
<1>11. ~sealed_partial(g)
  BY DEF sealed_partial, Incomplete
<1>12. group_used(g) # 0
  <2>1. group_used(g) = Cardinality(Filled(g)) /\ Filled(g) # {}
    BY GroupUsed DEF Incomplete
  <2>2. Filled(g) \in SUBSET CellsOf(g)
    BY DEF Filled
  <2> QED BY <2>1, <2>2, Counted
<1> QED BY <1>2, <1>3, <1>7, <1>9, <1>10, <1>11, <1>12 DEF acceptable

(* A group begun away from the head is begun at its first row.             *)
LEMMA BeginsAtRowZero ==
    ASSUME IInv, HeadAfter, HeadsFollow, pc = "find", NEW s \in Seqs, NEW c \in Cells,
           NEW g \in Groups, c \in CellsOf(g), Filled(g) = {}, acceptable(c, s),
           c - 1 \in Cells /\ acceptable(c - 1, s) => c = head_cur(s)
    PROVE  c = G * g
<1>1. PICK a \in Nat : a = G * g /\ G \in Nat \ {0, 1} /\ CellsOf(g) = a .. a + G - 1
  BY AllocAssumption DEF Groups, CellsOf
<1>2. SUFFICES ASSUME c # a PROVE FALSE
  BY <1>1
<1>3. /\ c \in Nat /\ c - 1 \in CellsOf(g) /\ c - 1 \in Cells /\ Group(c - 1) = g
      /\ Group(c) = g
  <2>1. c - 1 \in CellsOf(g) /\ c \in Nat
    BY <1>1, <1>2
  <2> QED BY <2>1, GroupCells
<1>4. pc \in DryRun
  BY DEF DryRun
<1>5. \A d \in CellsOf(g) : is_empty(d)
  BY <1>4, OccupiedFilled, GroupCells DEF is_empty
<1>6. PICK u \in Nat, f \in Nat, l \in Nat :
         /\ u = UbatchOf(at) /\ f = FirstOf(u) /\ l = LastOf(u)
         /\ 1 <= f /\ f <= at /\ at <= l /\ l <= Len(batch)
         /\ at \in Nat /\ Len(batch) \in Nat /\ Len(plan) = at - 1
         /\ Placed = f .. at - 1 /\ Applied = f - 1 /\ TokensOf(u) = f .. l
         /\ \A v \in f .. l : UbatchOf(v) = u
  BY FindAt
<1>7. Placed \subseteq 1 .. Len(plan)
  BY <1>6
<1>8. \A t \in Placed : Group(plan[t]) # g /\ plan[t] # c - 1
  <2> SUFFICES ASSUME NEW t \in Placed PROVE plan[t] \notin CellsOf(g) /\ plan[t] \in Cells
    BY <1>3, CellGroup
  <2>1. t \in 1 .. Len(plan) /\ plan[t] \in Cells
    BY <1>7, PlanType DEF IInv
  <2> QED BY <2>1 DEF Filled
<1>9. group_used(g) = 0
  <2>1. group_used(g) = Cardinality(Filled(g))
    BY GroupUsed
  <2> QED BY <2>1, FS_EmptySet
<1>10. ~fills_here(c)
  <2>1. Row(c) = c - G * g
    BY <1>3, CellGroup
  <2> QED BY <1>1, <1>2, <1>3, <2>1 DEF fills_here
<1>11. ~slot_taken(g)
  BY <1>3, <1>9, <1>10 DEF acceptable
<1>12. acceptable(c - 1, s)
  <2>1. compatible(c - 1, s)
    BY <1>3, <1>5, <1>8 DEF compatible
  <2>2. ~sealed_partial(g)
    BY <1>9 DEF sealed_partial
  <2> QED BY <1>3, <1>5, <1>8, <1>11, <2>1, <2>2 DEF acceptable
<1>13. c = FinalHead(s)
  BY <1>3, <1>12, HeadCur
<1>14. Holds(s, c - 1)
  BY <1>1, <1>2, <1>3, <1>13 DEF HeadAfter
<1> QED BY <1>3, <1>14, HeldFilled

(* The groups that its own head has left are no longer incomplete.         *)
LEMMA GoesToOwnGroup ==
    ASSUME IInv, HInv, pc = "find", NEW c \in Cells, NEW s \in Seqs, NEW g \in Groups,
           TokenGoes(c, s, g), NEW h \in Groups, h \notin copied, Incomplete(h),
           NEW d \in CellsOf(h), Holds(s, d)
    PROVE  h = g /\ c = FinalHead(s) /\ Growing(s, g)
<1>1. FinalHead(s) \in CellsOf(h) /\ acceptable(FinalHead(s), s)
  BY HeadFits DEF HInv
<1>2. FinalHead(s) \in Cells /\ FinalHead(s) = head_cur(s) /\ Group(FinalHead(s)) = h
  BY <1>1, GroupCells, HeadCur DEF HInv
<1>3. c = FinalHead(s) /\ g = Group(c)
  BY <1>1, <1>2 DEF TokenGoes
<1>4. Growing(s, h)
  BY DEF HInv, LiveGrows
<1> QED BY <1>2, <1>3, <1>4

(* find_slot places a token: next to the last one if its group is not full *)
(* yet, or at the start of a fresh group.                                  *)
LEMMA FindTokenGrows == ASSUME IInv, IInv', HInv, FindToken PROVE HInv'
<1>1. /\ pc = "find" /\ pc' \in {"find", "emplace"}
      /\ UNCHANGED <<pos, seqs, heads, batch, saved, copied>>
  BY DEF FindToken
<1>2. PICK u \in Nat, f \in Nat, l \in Nat :
         /\ u = UbatchOf(at) /\ f = FirstOf(u) /\ l = LastOf(u)
         /\ 1 <= f /\ f <= at /\ at <= l /\ l <= Len(batch)
         /\ at \in Nat /\ Len(batch) \in Nat /\ Len(plan) = at - 1
         /\ Placed = f .. at - 1 /\ Applied = f - 1 /\ TokensOf(u) = f .. l
         /\ \A v \in f .. l : UbatchOf(v) = u
  BY <1>1, FindAt
<1>3. PICK c \in Cells, s \in Seqs, g \in Groups : TokenGoes(c, s, g)
  BY TokenEffect
<1>4. /\ s = batch[at] /\ g = Group(c) /\ c \in CellsOf(g) /\ acceptable(c, s)
      /\ head_cur(s) \in Cells /\ acceptable(head_cur(s), s) => c = head_cur(s)
      /\ c - 1 \in Cells /\ acceptable(c - 1, s) => c = head_cur(s)
      /\ plan' = Append(plan, c)
  BY <1>3 DEF TokenGoes
<1>5. pc \in DryRun /\ pc' \in DryRun /\ pc # "failed" /\ pc' # "failed"
  BY <1>1 DEF DryRun
<1>6. Base' = Base /\ BasePos' = BasePos
  BY <1>1, <1>5 DEF Base, BasePos
<1>7. /\ Len(plan') = at /\ plan'[at] = c /\ at = Len(plan) + 1
      /\ \A t \in 1 .. Len(plan) : plan'[t] = plan[t]
      /\ \A t \in 1 .. at : t = at \/ t \in 1 .. Len(plan)
  <2>1. at = Len(plan) + 1 /\ \A t \in 1 .. at : t = at \/ t \in 1 .. Len(plan)
    BY <1>2
  <2> QED BY <1>2, <1>3, <2>1 DEF TokenGoes
<1>8. \A t \in 1 .. Len(plan) : plan[t] # c
  BY <1>2, <1>3 DEF TokenGoes
<1>9. /\ \A o \in Seqs, d \in Cells : Holds(o, d)' <=> Holds(o, d) \/ (o = s /\ d = c)
      /\ FinalHead(s)' = c + 1
      /\ \A o \in Seqs : o # s => FinalHead(o)' = FinalHead(o)
      /\ \A d \in Cells : d # c => Older(d, c)'
      /\ \A e \in Cells, d \in Cells : e # c /\ d # c /\ Older(d, e) => Older(d, e)'
  <2>1. TypeOK /\ TypeOK' /\ s = batch[Len(plan) + 1]
    BY <1>4, <1>7 DEF IInv
  <2> QED BY <1>1, <1>4, <1>6, <1>8, <2>1, OneMore
<1>10. /\ Filled(g)' = Filled(g) \cup {c}
       /\ \A h \in Groups : h # g => Filled(h)' = Filled(h) /\ sealed'[h] = sealed[h]
       /\ g > 0 => (sealed[g] => sealed'[g])
  BY <1>3 DEF TokenGoes
<1>11. \A r \in Seqs : Claims(r, g)' => r = s
  <2>1. at \in 1 .. at
    BY <1>2
  <2>2. Claims(s, g)' /\ \E t \in 1 .. Len(plan') : Group(plan'[t]) = g
    BY <1>1, <1>4, <1>7, <2>1 DEF Claims
  <2> QED BY <2>2 DEF IInv, OneClaim
<1>12. ASSUME NEW o \in Seqs, NEW d \in CellsOf(g), Holds(o, d)' PROVE o = s
  <2>1. Claims(o, g)'
    <3>1. Group(d) = g
      BY GroupCells
    <3> QED BY <1>12, <3>1 DEF Holds, Claims
  <2> QED BY <1>11, <2>1
<1>13. ASSUME NEW h \in Groups, h \notin copied, Incomplete(h), \E d \in CellsOf(h) : Holds(s, d)
       PROVE  h = g /\ c = FinalHead(s)
  BY <1>1, <1>3, <1>13, GoesToOwnGroup
<1>14. HeadAfter'
  <2> SUFFICES ASSUME NEW o \in Seqs, NEW y, y = FinalHead(o)'
               PROVE  y = 0 \/ (y - 1 \in Cells /\ Holds(o, y - 1)')
    BY DEF HeadAfter
  <2>1. CASE o = s
    <3>1. y = c + 1 /\ c \in Int
      BY <1>9, <2>1 DEF Cells
    <3>2. y - 1 = c
      BY <3>1
    <3>3. Holds(o, c)'
      BY <1>9, <2>1
    <3> QED BY <3>2, <3>3
  <2>2. CASE o # s
    <3>1. PICK x : x = FinalHead(o)
      OBVIOUS
    <3>2. x = 0 \/ (x - 1 \in Cells /\ Holds(o, x - 1))
      BY <1>5, <3>1 DEF HInv, HeadAfter
    <3>3. x - 1 \in Cells /\ Holds(o, x - 1) => Holds(o, x - 1)'
      BY <1>9
    <3> QED BY <1>9, <2>2, <3>1, <3>2, <3>3
  <2> QED BY <2>1, <2>2
<1>15. HeadsFollow'
  <2>1. Applied' = f - 1
    <3>1. UbatchOf(at') = u
      <4>1. CASE at = l /\ at' = f
        <5>1. f \in f .. l
          BY <1>2
        <5> QED BY <1>2, <4>1, <5>1
      <4>2. CASE at # l /\ at' = at + 1
        BY <1>2, <4>2
      <4> QED BY <1>2, <4>1, <4>2 DEF FindToken
    <3> QED BY <1>2, <1>5, <3>1 DEF Applied
  <2> SUFFICES ASSUME NEW t \in 1 .. at, t <= f - 1,
                      \A v \in 1 .. at : v <= f - 1 /\ batch[v] = batch[t] => v <= t
               PROVE  heads[batch[t]] = plan'[t] + 1
    BY <1>1, <1>7, <2>1 DEF HeadsFollow
  <2>2. t \in 1 .. Len(plan) /\ \A v \in 1 .. Len(plan) : v \in 1 .. at
    BY <1>2
  <2>3. heads[batch[t]] = plan[t] + 1
    BY <1>2, <1>5, <2>2 DEF HInv, HeadsFollow
  <2> QED BY <1>7, <2>2, <2>3
<1>16. PosFollow'
  BY <1>1 DEF PosFollow
<1>17. LiveGrows'
  <2> SUFFICES ASSUME NEW h \in Groups, h \notin copied, NEW o \in Seqs, Incomplete(h)',
                      \E d \in CellsOf(h) : Holds(o, d)'
               PROVE  Growing(o, h)'
    BY <1>1 DEF LiveGrows
  <2>1. h > 0 /\ Filled(h)' # {} /\ Filled(h)' # CellsOf(h) /\ ~sealed'[h]
    BY DEF Incomplete, CellsOf
  <2>2. \A d \in CellsOf(h) : d \in Cells /\ d \in Int
    BY GroupCells, CellGroup
  <2>3. CASE h # g
    <3>1. c \notin CellsOf(h)
      BY <1>4, <2>3, GroupCells
    <3>2. Incomplete(h) /\ \E d \in CellsOf(h) : Holds(o, d)
      BY <1>9, <1>10, <2>1, <2>2, <2>3, <3>1 DEF Incomplete
    <3>3. o # s
      BY <1>13, <2>3, <3>2
    <3>4. Growing(o, h)
      BY <1>5, <3>2 DEF HInv, LiveGrows
    <3>5. FinalHead(o)' \in G * h + 1 .. G * h + G - 1
      BY <1>9, <3>3, <3>4 DEF Growing
    <3>6. \A d \in CellsOf(h) : d \in Filled(h)' <=> d < FinalHead(o)'
      BY <1>9, <1>10, <2>3, <3>3, <3>4 DEF Growing
    <3>7. ASSUME NEW e \in CellsOf(h), NEW d \in Cells, Holds(o, e)', Holds(o, d)',
                 d \in CellsOf(h) => d < e
          PROVE  Older(d, e)'
      <4>1. e # c /\ d # c /\ e \in Cells
        BY <1>4, <1>12, <2>2, <3>1, <3>3, <3>7
      <4>2. Holds(o, e) /\ Holds(o, d)
        BY <1>9, <3>7, <4>1
      <4>3. Older(d, e)
        BY <3>4, <3>7, <4>2 DEF Growing
      <4> QED BY <1>9, <4>1, <4>3
    <3> QED BY <3>5, <3>6, <3>7 DEF Growing, CellsOf
  <2>4. CASE h = g
    <3>1. o = s
      BY <1>12, <2>4
    <3>2. PICK a \in Nat : a = G * g /\ G \in Nat \ {0, 1} /\ CellsOf(g) = a .. a + G - 1
      BY AllocAssumption DEF Groups, CellsOf
    <3>3. ~sealed[g] /\ Filled(g) \subseteq CellsOf(g) /\ c \in Nat
      BY <1>4, <1>10, <2>1, <2>4, <3>2 DEF Filled
    <3>4. \A d \in CellsOf(g) : Holds(s, d)' => d \in Filled(g) \cup {c}
      BY <1>9, <2>2, <2>4, HeldFilled
    <3>5. CASE Filled(g) = {}
      <4>1. c = a
        BY <1>1, <1>4, <3>2, <3>5, BeginsAtRowZero DEF HInv
      <4>2. FinalHead(s)' \in a + 1 .. a + G - 1
        BY <1>9, <3>2, <4>1
      <4>3. \A d \in CellsOf(g) : d \in Filled(g)' <=> d < FinalHead(s)'
        BY <1>9, <1>10, <3>2, <3>5, <4>1
      <4>4. ASSUME NEW e \in CellsOf(g), NEW d \in Cells, Holds(s, e)', Holds(s, d)',
                   d \in CellsOf(g) => d < e
            PROVE  Older(d, e)'
        <5>1. e = c
          BY <3>4, <3>5, <4>4
        <5>2. d # c
          BY <3>2, <4>4, <5>1
        <5> QED BY <1>9, <5>1, <5>2
      <4> QED BY <2>4, <3>1, <3>2, <4>2, <4>3, <4>4 DEF Growing, CellsOf
    <3>6. CASE Filled(g) # {}
      <4>1. Incomplete(g)
        <5>1. Filled(g) # CellsOf(g)
          <6> SUFFICES ASSUME Filled(g) = CellsOf(g) PROVE Filled(g)' = CellsOf(g)
            BY <2>1, <2>4
          <6> QED BY <1>4, <1>10
        <5> QED BY <2>1, <2>4, <3>3, <3>6, <5>1 DEF Incomplete
      <4>2. \E d \in CellsOf(g) : Holds(s, d)
        <5>1. PICK x \in Filled(g) : TRUE
          BY <3>6
        <5>2. PICK r \in Seqs : Holds(r, x) /\ x \in CellsOf(g) /\ x \in Cells
          BY <5>1, FilledHeld
        <5>3. r = s
          BY <1>9, <1>12, <5>2
        <5> QED BY <5>2, <5>3
      <4>3. Growing(s, g) /\ c = FinalHead(s)
        BY <1>5, <1>13, <2>4, <4>1, <4>2 DEF HInv, LiveGrows
      <4>4. \A d \in CellsOf(g) : d \in Filled(g) <=> d < c
        BY <4>3 DEF Growing
      <4>5. \A d \in CellsOf(g) : d \in Filled(g)' <=> d < c + 1
        BY <1>10, <3>2, <3>3, <4>4
      <4>6. c + 1 \in a + 1 .. a + G - 1
        <5>1. c \in a .. a + G - 1
          BY <1>4, <3>2
        <5>2. c # a + G - 1
          <6> SUFFICES ASSUME c = a + G - 1 PROVE FALSE
            OBVIOUS
          <6>1. \A d \in CellsOf(g) : d \in Filled(g)'
            BY <3>2, <4>5
          <6>2. Filled(g)' \subseteq CellsOf(g)
            BY <1>4, <1>10, <3>3
          <6> QED BY <2>1, <2>4, <6>1, <6>2
        <5> QED BY <3>2, <5>1, <5>2
      <4>7. ASSUME NEW e \in CellsOf(g), NEW d \in Cells, Holds(s, e)', Holds(s, d)',
                   d \in CellsOf(g) => d < e
            PROVE  Older(d, e)'
        <5>1. CASE e = c
          <6>1. d # c
            BY <1>4, <3>3, <4>7, <5>1
          <6> QED BY <1>9, <5>1, <6>1
        <5>2. CASE e # c
          <6>1. e \in Cells /\ e < c /\ e \in Nat
            BY <2>2, <2>4, <3>2, <3>4, <4>4, <4>7, <5>2
          <6>2. d # c
            BY <1>4, <3>3, <4>7, <6>1
          <6>3. Holds(s, e) /\ Holds(s, d)
            BY <1>9, <4>7, <5>2, <6>1, <6>2
          <6>4. Older(d, e)
            BY <4>3, <4>7, <6>3 DEF Growing
          <6> QED BY <1>9, <5>2, <6>1, <6>2, <6>4
        <5> QED BY <5>1, <5>2
      <4> QED BY <1>9, <2>4, <3>1, <3>2, <4>5, <4>6, <4>7 DEF Growing, CellsOf
    <3> QED BY <3>5, <3>6
  <2> QED BY <2>3, <2>4
<1> QED BY <1>14, <1>15, <1>16, <1>17 DEF HInv

-----------------------------------------------------------------------------
(* Between batches a head is the stored one, a cell is held by its         *)
(* sequences, and the positions tell the order.                            *)
LEMMA NoPlan ==
    ASSUME plan = <<>>, pc \notin DryRun
    PROVE  /\ \A s : FinalHead(s) = heads[s]
           /\ \A s, c : Holds(s, c) <=> s \in seqs[c]
           /\ \A c, d : Older(d, c) <=> pos[d] < pos[c]
           /\ \A g : Filled(g) = {c \in CellsOf(g) : seqs[c] # {}}
<1>1. 1 .. Len(plan) = {}
  OBVIOUS
<1> QED BY <1>1 DEF FinalHead, Holds, Older, Filled, Base, BasePos

(* The same once a step is done.                                           *)
LEMMA NoPlanAfter ==
    ASSUME plan' = <<>>, pc' \notin DryRun
    PROVE  /\ \A s : FinalHead(s)' = heads'[s]
           /\ \A s, c : Holds(s, c)' <=> s \in seqs'[c]
           /\ \A c, d : Older(d, c)' <=> pos'[d] < pos'[c]
           /\ \A g : Filled(g)' = {c \in CellsOf(g) : seqs'[c] # {}}
           /\ HeadsFollow'
<1>1. 1 .. Len(plan') = {}
  OBVIOUS
<1>2. HeadsFollow'
  BY <1>1 DEF HeadsFollow
<1> QED BY <1>1, <1>2 DEF FinalHead, Holds, Older, Filled, Base, BasePos, CellsOf

(* An edit that takes from a sequence only the newest tokens leaves its    *)
(* head in the group it is filling, if anything of that is left.           *)
LEMMA EditGrows ==
    ASSUME IInv, IInv', HInv, pc = "idle", pc' = "idle", EditOnly, pos' = Blanked(seqs'),
           \A c \in Cells : seqs[c] = {} => seqs'[c] = {},
           \A s \in Seqs :
              \/ heads'[s] = heads[s] /\ \A c \in Cells : s \in seqs'[c] <=> s \in seqs[c]
              \/ /\ heads'[s] = rebuilt(seqs', pos', s)
                 /\ \A c \in Cells : s \in seqs'[c] => s \in seqs[c]
                 /\ \A c \in Cells, d \in Cells :
                       s \in seqs'[c] /\ s \in seqs[d] /\ pos[d] < pos[c] => s \in seqs'[d]
              \/ /\ heads'[s] = rebuilt(seqs', pos', s)
                 /\ \A c \in Cells : s \in seqs'[c] => Group(c) \in copied'
    PROVE  HInv'
<1>1. plan = <<>> /\ plan' = <<>> /\ pc \notin DryRun /\ pc' \notin DryRun
  BY DEF IInv, Phase, DryRun
<1>2. /\ \A s : FinalHead(s) = heads[s]
      /\ \A s, c : Holds(s, c) <=> s \in seqs[c]
      /\ \A c, d : Older(d, c) <=> pos[d] < pos[c]
      /\ \A g : Filled(g) = {c \in CellsOf(g) : seqs[c] # {}}
  BY <1>1, NoPlan
<1>3. /\ \A s : FinalHead(s)' = heads'[s]
      /\ \A s, c : Holds(s, c)' <=> s \in seqs'[c]
      /\ \A c, d : Older(d, c)' <=> pos'[d] < pos'[c]
      /\ \A g : Filled(g)' = {c \in CellsOf(g) : seqs'[c] # {}}
      /\ HeadsFollow'
  BY <1>1, NoPlanAfter
<1>4. /\ \A c \in Cells : pos[c] \in Int /\ pos'[c] \in Int
      /\ \A c \in Cells : seqs'[c] # {} => pos'[c] = pos[c]
  BY DEF IInv, TypeOK, Blanked
<1>5. PICK sq \in [Cells -> SUBSET Seqs] : sq = seqs'
  BY DEF IInv, TypeOK
<1>6. PICK ps \in [Cells -> -1 .. MaxLen - 1] : ps = pos'
  BY DEF IInv, TypeOK
<1>7. \A s \in Seqs :
         \/ rebuilt(sq, ps, s) = 0 /\ \A c \in Cells : s \notin sq[c]
         \/ \E c \in Cells :
              /\ rebuilt(sq, ps, s) = c + 1 /\ s \in sq[c]
              /\ \A d \in Cells : s \in sq[d] => ps[d] < ps[c] \/ (ps[d] = ps[c] /\ c <= d)
  BY RebuiltNewest
<1>8. HeadAfter'
  <2> SUFFICES ASSUME NEW s \in Seqs
               PROVE  heads'[s] = 0 \/ (heads'[s] - 1 \in Cells /\ s \in seqs'[heads'[s] - 1])
    BY <1>3 DEF HeadAfter
  <2>1. CASE heads'[s] = heads[s] /\ \A c \in Cells : s \in seqs'[c] <=> s \in seqs[c]
    <3>1. heads[s] = 0 \/ (heads[s] - 1 \in Cells /\ s \in seqs[heads[s] - 1])
      BY <1>2 DEF HInv, HeadAfter
    <3> QED BY <2>1, <3>1
  <2>2. CASE heads'[s] = rebuilt(seqs', pos', s)
    <3>1. PICK x : x = heads'[s] /\ x = rebuilt(sq, ps, s)
      BY <1>5, <1>6, <2>2
    <3>2. x = 0 \/ \E c \in Cells : x = c + 1 /\ s \in sq[c]
      BY <1>7, <3>1
    <3>3. CASE \E c \in Cells : x = c + 1 /\ s \in sq[c]
      <4>1. PICK c \in Cells : x = c + 1 /\ s \in sq[c]
        BY <3>3
      <4>2. c \in Int
        BY DEF Cells
      <4>3. x - 1 = c
        BY <4>1, <4>2
      <4> QED BY <1>5, <3>1, <4>1, <4>3
    <3> QED BY <3>1, <3>2, <3>3
  <2> QED BY <2>1, <2>2
<1>9. PosFollow'
  BY DEF PosFollow
<1>10. LiveGrows'
  <2> SUFFICES ASSUME NEW g \in Groups, g \notin copied', NEW s \in Seqs, Incomplete(g)',
                      NEW b \in CellsOf(g), s \in seqs'[b]
               PROVE  Growing(s, g)'
    BY <1>3 DEF LiveGrows, CellsOf
  <2>1. \A c \in CellsOf(g) : c \in Cells /\ Group(c) = g
    BY GroupCells
  <2>2. g \notin copied /\ \A c \in CellsOf(g) : seqs'[c] \subseteq seqs[c]
    BY DEF EditOnly, EditRows, Shared
  <2>3. Incomplete(g)
    <3>1. g > 0 /\ Filled(g)' # {} /\ ~sealed[g]
      BY DEF Incomplete, EditOnly, EditRows
    <3>2. Filled(g) # CellsOf(g) /\ Filled(g) # {}
      BY <1>2, <1>3, <2>1, <3>1 DEF IInv, FullSealed
    <3> QED BY <3>1, <3>2 DEF Incomplete
  <2>4. Growing(s, g) /\ s \in seqs[b]
    BY <1>2, <2>2, <2>3 DEF HInv, LiveGrows
  <2>5. \A c \in CellsOf(g) :
           (seqs[c] # {} <=> s \in seqs[c]) /\ (seqs'[c] # {} <=> s \in seqs'[c])
    <3>1. Claims(s, g)
      BY <1>2, <2>4, HoldsClaims
    <3>2. ASSUME NEW c \in CellsOf(g), NEW r \in seqs[c] PROVE r = s
      <4>1. r \in Seqs
        BY <2>1 DEF IInv, TypeOK
      <4>2. Claims(r, g)
        BY <1>2, <4>1, HoldsClaims
      <4> QED BY <2>2, <3>1, <4>1, <4>2 DEF IInv, OneClaim
    <3> QED BY <2>2, <3>2
  <2>6. PICK a \in Nat, h \in Nat :
           /\ a = G * g /\ h = heads[s] /\ G \in Nat /\ h \in a + 1 .. a + G - 1
           /\ CellsOf(g) = a .. a + G - 1
    <3>1. PICK a \in Nat : a = G * g /\ G \in Nat
      BY AllocAssumption DEF Groups
    <3>2. heads[s] \in a + 1 .. a + G - 1
      BY <1>2, <2>4, <3>1 DEF Growing
    <3> QED BY <3>1, <3>2 DEF CellsOf
  <2>7. \A c \in CellsOf(g) : s \in seqs[c] <=> c < h
    BY <1>2, <2>4, <2>5, <2>6 DEF Growing
  <2>8. \A c \in CellsOf(g), d \in Cells :
           s \in seqs[c] /\ s \in seqs[d] /\ (d \in CellsOf(g) => d < c) => pos[d] < pos[c]
    BY <1>2, <2>4 DEF Growing
  <2>9. ASSUME \A c \in Cells : s \in seqs'[c] => s \in seqs[c],
               heads'[s] \in a + 1 .. a + G - 1,
               \A c \in CellsOf(g) : s \in seqs'[c] <=> c < heads'[s]
        PROVE  Growing(s, g)'
    <3>1. FinalHead(s)' \in G * g + 1 .. G * g + G - 1
      BY <1>3, <2>6, <2>9
    <3>2. \A c \in CellsOf(g) : c \in Filled(g)' <=> c < FinalHead(s)'
      BY <1>3, <2>5, <2>9
    <3>3. ASSUME NEW c \in CellsOf(g), NEW d \in Cells, s \in seqs'[c], s \in seqs'[d],
                 d \in CellsOf(g) => d < c
          PROVE  pos'[d] < pos'[c]
      <4>1. pos[d] < pos[c]
        BY <2>1, <2>8, <2>9, <3>3
      <4> QED BY <1>4, <2>1, <3>3, <4>1
    <3> QED BY <1>3, <3>1, <3>2, <3>3 DEF Growing, CellsOf
  <2>10. CASE heads'[s] = heads[s] /\ \A c \in Cells : s \in seqs'[c] <=> s \in seqs[c]
    BY <2>1, <2>6, <2>7, <2>9, <2>10
  <2>11. CASE /\ heads'[s] = rebuilt(seqs', pos', s)
              /\ \A c \in Cells : s \in seqs'[c] => s \in seqs[c]
              /\ \A c \in Cells, d \in Cells :
                    s \in seqs'[c] /\ s \in seqs[d] /\ pos[d] < pos[c] => s \in seqs'[d]
    <3>1. PICK m \in Cells :
             /\ heads'[s] = m + 1 /\ s \in seqs'[m]
             /\ \A d \in Cells :
                   s \in seqs'[d] => pos'[d] < pos'[m] \/ (pos'[d] = pos'[m] /\ m <= d)
      BY <1>5, <1>6, <1>7, <2>1, <2>11
    <3>2. \A d \in Cells : s \in seqs'[d] => pos[d] <= pos[m]
      BY <1>4, <3>1
    <3>3. m \in CellsOf(g)
      <4> SUFFICES ASSUME m \notin CellsOf(g) PROVE FALSE
        OBVIOUS
      <4>1. pos[m] < pos[b]
        BY <2>4, <2>8, <2>11, <3>1
      <4>2. pos[b] <= pos[m]
        BY <2>1, <3>2
      <4> QED BY <1>4, <2>1, <4>1, <4>2
    <3>4. m < h /\ m \in Nat
      BY <2>6, <2>7, <2>11, <3>1, <3>3
    <3>5. m + 1 \in a + 1 .. a + G - 1
      BY <2>6, <3>3, <3>4
    <3>6. ASSUME NEW c \in CellsOf(g) PROVE s \in seqs'[c] <=> c < m + 1
      <4>1. c \in Cells /\ c \in Nat
        BY <2>1, <2>6
      <4>2. CASE c = m
        BY <3>1, <3>4, <4>2
      <4>3. CASE c > m
        <5>1. s \in seqs'[c] => pos[m] < pos[c]
          BY <2>8, <2>11, <3>1, <3>3, <4>1, <4>3
        <5>2. s \in seqs'[c] => pos[c] <= pos[m]
          BY <3>2, <4>1
        <5>3. ~(s \in seqs'[c])
          BY <1>4, <4>1, <5>1, <5>2
        <5> QED BY <3>4, <4>1, <4>3, <5>3
      <4>4. CASE c < m
        <5>1. c < h
          BY <2>6, <3>4, <4>1, <4>4
        <5>2. s \in seqs[c] /\ s \in seqs[m]
          BY <2>7, <2>11, <3>1, <5>1
        <5>3. pos[c] < pos[m]
          BY <2>8, <3>3, <4>1, <4>4, <5>2
        <5>4. s \in seqs'[c]
          BY <2>11, <3>1, <4>1, <5>2, <5>3
        <5> QED BY <3>4, <4>1, <4>4, <5>4
      <4> QED BY <3>4, <4>1, <4>2, <4>3, <4>4
    <3> QED BY <2>9, <2>11, <3>1, <3>5, <3>6
  <2>12. CASE \A c \in Cells : s \in seqs'[c] => Group(c) \in copied'
    BY <2>1, <2>12
  <2> QED BY <2>10, <2>11, <2>12
<1> QED BY <1>3, <1>8, <1>9, <1>10 DEF HInv

(* llama_memory_clear.                                                     *)
LEMMA ClearGrows == ASSUME IInv, clear PROVE HInv'
<1>1. /\ pc' = "idle" /\ plan' = <<>> /\ seqs' = [c \in Cells |-> {}]
      /\ heads' = [s \in Seqs |-> 0]
  BY DEF clear, EditOnly, EditRows, IInv, Phase
<1>2. pc' \notin DryRun
  BY <1>1 DEF DryRun
<1>3. /\ \A s : FinalHead(s)' = heads'[s]
      /\ \A g : Filled(g)' = {c \in CellsOf(g) : seqs'[c] # {}}
      /\ HeadsFollow'
  BY <1>1, <1>2, NoPlanAfter
<1>4. \A g \in Groups : Filled(g)' = {}
  BY <1>1, <1>3, GroupCells
<1>5. LiveGrows' /\ HeadAfter' /\ PosFollow'
  BY <1>1, <1>3, <1>4 DEF LiveGrows, Incomplete, HeadAfter, PosFollow
<1> QED BY <1>3, <1>5 DEF HInv

(* seq_rm takes the positions from p0 on.                                  *)
LEMMA SeqRmGrows ==
    ASSUME IInv, IInv', HInv, NEW s \in Seqs, NEW p0 \in 0 .. MaxLen - 1, seq_rm(s, p0)
    PROVE  HInv'
<1>1. /\ pc = "idle" /\ pc' = "idle" /\ EditOnly
      /\ seqs' = Without(s, {c \in Cells : pos[c] >= p0}) /\ pos' = Blanked(seqs')
      /\ heads' = [heads EXCEPT ![s] = rebuilt(seqs', pos', s)]
  BY DEF seq_rm
<1>2. \A c \in Cells : seqs'[c] = IF pos[c] >= p0 THEN seqs[c] \ {s} ELSE seqs[c]
  BY <1>1 DEF Without
<1>3. ASSUME NEW r \in Seqs, r # s
      PROVE  heads'[r] = heads[r] /\ \A c \in Cells : r \in seqs'[c] <=> r \in seqs[c]
  <2>1. heads'[r] = heads[r]
    BY <1>1, <1>3 DEF IInv, TypeOK
  <2>2. \A c \in Cells : r \in seqs'[c] <=> r \in seqs[c]
    BY <1>2, <1>3
  <2> QED BY <2>1, <2>2
<1>4. heads'[s] = rebuilt(seqs', pos', s)
  BY <1>1 DEF IInv, TypeOK
<1>5. /\ \A c \in Cells : s \in seqs'[c] => s \in seqs[c] /\ ~(pos[c] >= p0)
      /\ \A c \in Cells : s \in seqs[c] /\ ~(pos[c] >= p0) => s \in seqs'[c]
  BY <1>2
<1>6. \A c \in Cells, d \in Cells :
         s \in seqs'[c] /\ s \in seqs[d] /\ pos[d] < pos[c] => s \in seqs'[d]
  <2>1. \A c \in Cells : pos[c] \in Int
    BY DEF IInv, TypeOK
  <2>2. \A c \in Cells, d \in Cells : ~(pos[c] >= p0) /\ pos[d] < pos[c] => ~(pos[d] >= p0)
    BY <2>1
  <2> QED BY <1>5, <2>2
<1>7. \A c \in Cells : seqs[c] = {} => seqs'[c] = {}
  BY <1>2
<1>8. ASSUME NEW r \in Seqs PROVE
         \/ heads'[r] = heads[r] /\ \A c \in Cells : r \in seqs'[c] <=> r \in seqs[c]
         \/ /\ heads'[r] = rebuilt(seqs', pos', r)
            /\ \A c \in Cells : r \in seqs'[c] => r \in seqs[c]
            /\ \A c \in Cells, d \in Cells :
                  r \in seqs'[c] /\ r \in seqs[d] /\ pos[d] < pos[c] => r \in seqs'[d]
         \/ /\ heads'[r] = rebuilt(seqs', pos', r)
            /\ \A c \in Cells : r \in seqs'[c] => Group(c) \in copied'
  BY <1>3, <1>4, <1>5, <1>6
<1> QED BY <1>1, <1>7, <1>8, EditGrows

(* seq_keep takes nothing from s, and everything from the others.          *)
LEMMA SeqKeepGrows == ASSUME IInv, IInv', HInv, NEW s \in Seqs, seq_keep(s) PROVE HInv'
<1>1. /\ pc = "idle" /\ pc' = "idle" /\ EditOnly
      /\ seqs' = [c \in Cells |-> seqs[c] \cap {s}] /\ pos' = Blanked(seqs')
      /\ heads' = [r \in Seqs |-> rebuilt(seqs', pos', r)]
  BY DEF seq_keep
<1>2. \A c \in Cells : seqs'[c] = seqs[c] \cap {s}
  BY <1>1
<1>3. \A r \in Seqs : heads'[r] = rebuilt(seqs', pos', r)
  BY <1>1
<1>4. \A r \in Seqs, c \in Cells : r \in seqs'[c] <=> r \in seqs[c] /\ r = s
  BY <1>2
<1>5. \A c \in Cells : seqs[c] = {} => seqs'[c] = {}
  BY <1>2
<1> QED BY <1>1, <1>3, <1>4, <1>5, EditGrows

(* seq_cp: what the destination gets is in groups that are now shared.     *)
LEMMA SeqCpGrows ==
    ASSUME IInv, IInv', HInv, NEW src \in Seqs, NEW dst \in Seqs, seq_cp(src, dst)
    PROVE  HInv'
<1> DEFINE bare == Without(dst, Cells)
<1>1. /\ pc = "idle" /\ pc' = "idle" /\ EditOnly /\ src # dst
      /\ seqs' = [c \in Cells |-> IF src \in bare[c] THEN bare[c] \cup {dst} ELSE bare[c]]
      /\ pos' = Blanked(seqs')
      /\ heads' = [heads EXCEPT ![dst] = rebuilt(seqs', pos', dst)]
  BY DEF seq_cp
<1>2. \A c \in Cells : bare[c] = seqs[c] \ {dst}
  BY DEF Without
<1> HIDE DEF bare
<1>3. /\ \A c \in Cells : seqs[c] = {} => seqs'[c] = {}
      /\ \A c \in Cells : dst \in seqs'[c] => src \in seqs[c] /\ src \in seqs'[c]
      /\ \A r \in Seqs : r # dst =>
            heads'[r] = heads[r] /\ \A c \in Cells : r \in seqs'[c] <=> r \in seqs[c]
  BY <1>1, <1>2 DEF IInv, TypeOK
<1>4. heads'[dst] = rebuilt(seqs', pos', dst)
  BY <1>1 DEF IInv, TypeOK
<1>5. ASSUME NEW c \in Cells, dst \in seqs'[c] PROVE Group(c) \in copied'
  <2>1. PICK g \in Groups : g = Group(c) /\ c \in CellsOf(g)
    BY CellGroup
  <2>2. g \in copied \cup Shared
    <3>1. CASE dst \notin seqs[c]
      BY <1>5, <2>1, <3>1 DEF Shared
    <3>2. CASE dst \in seqs[c]
      <4>1. Base = seqs
        BY <1>1 DEF Base, DryRun
      <4>2. Claims(src, g) /\ Claims(dst, g)
        BY <1>3, <1>5, <2>1, <3>2, <4>1 DEF Claims
      <4> QED BY <1>1, <4>2 DEF IInv, OneClaim
    <3> QED BY <3>1, <3>2
  <2> QED BY <1>1, <1>5, <2>1, <2>2 DEF EditOnly, EditRows
<1>6. ASSUME NEW r \in Seqs PROVE
         \/ heads'[r] = heads[r] /\ \A c \in Cells : r \in seqs'[c] <=> r \in seqs[c]
         \/ /\ heads'[r] = rebuilt(seqs', pos', r)
            /\ \A c \in Cells : r \in seqs'[c] => r \in seqs[c]
            /\ \A c \in Cells, d \in Cells :
                  r \in seqs'[c] /\ r \in seqs[d] /\ pos[d] < pos[c] => r \in seqs'[d]
         \/ /\ heads'[r] = rebuilt(seqs', pos', r)
            /\ \A c \in Cells : r \in seqs'[c] => Group(c) \in copied'
  BY <1>3, <1>4, <1>5
<1>7. \A c \in Cells : seqs[c] = {} => seqs'[c] = {}
  BY <1>3
<1> QED BY <1>1, <1>6, <1>7, EditGrows

-----------------------------------------------------------------------------
(* An empty cache has no groups to fill.                                   *)
LEMMA InitGrows == Init => HInv
<1> SUFFICES ASSUME Init PROVE HInv
  OBVIOUS
<1>1. /\ pc = "idle" /\ plan = <<>> /\ seqs = [c \in Cells |-> {}]
      /\ heads = [s \in Seqs |-> 0]
  BY DEF Init
<1>2. pc \notin DryRun
  BY <1>1 DEF DryRun
<1>3. /\ \A s : FinalHead(s) = heads[s]
      /\ \A g : Filled(g) = {c \in CellsOf(g) : seqs[c] # {}}
  BY <1>1, <1>2, NoPlan
<1>4. \A g \in Groups : Filled(g) = {}
  BY <1>1, <1>3, GroupCells
<1>5. 1 .. Len(plan) = {}
  BY <1>1
<1>6. LiveGrows /\ HeadAfter /\ PosFollow /\ HeadsFollow
  BY <1>1, <1>3, <1>4, <1>5 DEF LiveGrows, Incomplete, HeadAfter, PosFollow, HeadsFollow
<1> QED BY <1>6 DEF HInv

(* A failed graph leaves the sequences that it does not clear as they were.*)
LEMMA GraphFailsGrows ==
    ASSUME IInv, IInv', HInv, NEW S \in SUBSET Seqs, GraphFails(S) PROVE HInv'
<1>1. /\ pc \in {"store", "attend"} /\ pc' = "idle" /\ plan' = <<>>
      /\ seqs' = [c \in Cells |-> seqs[c] \ S] /\ pos' = Blanked(seqs')
      /\ heads' = [s \in Seqs |-> IF s \in S THEN 0 ELSE heads[s]]
      /\ sealed' = sealed /\ \A t \in 1 .. Len(batch) : batch[t] \in S
  BY DEF GraphFails
<1>2. /\ pc \notin DryRun /\ pc' \notin DryRun /\ Base = seqs /\ BasePos = pos /\ pc # "failed"
  BY <1>1 DEF DryRun, Base, BasePos
<1>3. /\ \A s : FinalHead(s)' = heads'[s]
      /\ \A s, c : Holds(s, c)' <=> s \in seqs'[c]
      /\ \A g : Filled(g)' = {c \in CellsOf(g) : seqs'[c] # {}}
      /\ \A c, d : Older(d, c)' <=> pos'[d] < pos'[c]
  BY <1>1, <1>2, NoPlanAfter
<1>4. ASSUME NEW s \in Seqs, s \notin S, NEW t \in 1 .. Len(plan) PROVE batch[t] # s
  <2>1. t \in 1 .. Len(batch)
    BY PlanType DEF IInv
  <2> QED BY <1>1, <1>4, <2>1
<1>5. ASSUME NEW s \in Seqs, s \notin S
      PROVE  /\ FinalHead(s) = heads[s] /\ heads'[s] = heads[s]
             /\ \A c : Holds(s, c) <=> s \in seqs[c]
  <2>1. FinalHead(s) = heads[s]
    <3>1. \A t \in 1 .. Len(plan) : batch[t] # s
      BY <1>4, <1>5
    <3> QED BY <3>1 DEF FinalHead, IsLast
  <2>2. \A c : Holds(s, c) <=> s \in seqs[c]
    BY <1>2, <1>4, <1>5 DEF Holds
  <2> QED BY <1>1, <1>5, <2>1, <2>2
<1>6. \A c \in Cells : seqs'[c] # {} => pos'[c] = pos[c]
  BY <1>1 DEF Blanked
<1>7. HeadAfter'
  <2> SUFFICES ASSUME NEW s \in Seqs
               PROVE  heads'[s] = 0 \/ (heads'[s] - 1 \in Cells /\ s \in seqs'[heads'[s] - 1])
    BY <1>3 DEF HeadAfter
  <2>1. CASE s \in S
    BY <1>1, <2>1
  <2>2. CASE s \notin S
    <3>1. heads[s] = 0 \/ (heads[s] - 1 \in Cells /\ s \in seqs[heads[s] - 1])
      BY <1>2, <1>5, <2>2 DEF HInv, HeadAfter
    <3> QED BY <1>1, <1>5, <2>2, <3>1
  <2> QED BY <2>1, <2>2
<1>8. LiveGrows'
  <2> SUFFICES ASSUME NEW g \in Groups, g \notin copied', NEW s \in Seqs, Incomplete(g)',
                      NEW c \in CellsOf(g), s \in seqs'[c]
               PROVE  Growing(s, g)'
    BY <1>3 DEF LiveGrows, CellsOf
  <2>1. /\ g \notin copied
        /\ \A t \in 1 .. Len(plan) : Group(plan[t]) # g
        /\ \A d \in CellsOf(g) : d \in Cells /\ seqs'[d] = seqs[d]
    BY FailLeaves
  <2>2. s \notin S /\ s \in seqs[c]
    BY <1>1, <2>1
  <2>3. \A t \in 1 .. Len(plan), d \in CellsOf(g) : plan[t] # d
    BY <2>1, GroupCells
  <2>4. Filled(g)' = Filled(g)
    BY <1>2, <1>3, <2>1, <2>3 DEF Filled
  <2>5. Incomplete(g)
    BY <1>1, <2>4 DEF Incomplete, CellsOf
  <2>6. Growing(s, g)
    <3>1. Holds(s, c)
      BY <1>5, <2>2
    <3> QED BY <1>2, <2>1, <2>5, <3>1 DEF HInv, LiveGrows
  <2>7. /\ heads'[s] \in G * g + 1 .. G * g + G - 1
        /\ \A d \in CellsOf(g) : d \in Filled(g)' <=> d < heads'[s]
    BY <1>5, <2>2, <2>4, <2>6 DEF Growing
  <2>8. ASSUME NEW a \in CellsOf(g), NEW d \in Cells, s \in seqs'[a], s \in seqs'[d],
               d \in CellsOf(g) => d < a
        PROVE  pos'[d] < pos'[a]
    <3>1. a \in Cells /\ s \in seqs[a] /\ s \in seqs[d]
      BY <1>1, <2>1, <2>8
    <3>2. Older(d, a)
      BY <1>5, <2>2, <2>6, <2>8, <3>1 DEF Growing
    <3>3. pos[d] < pos[a]
      BY <1>2, <2>3, <3>2 DEF Older
    <3> QED BY <1>6, <2>8, <3>1, <3>3
  <2> QED BY <1>3, <2>7, <2>8 DEF Growing, CellsOf
<1>9. HeadsFollow' /\ PosFollow'
  BY <1>1 DEF HeadsFollow, PosFollow
<1> QED BY <1>7, <1>8, <1>9 DEF HInv

(* Every step keeps the heads in the groups their sequences fill.          *)
LEMMA GrowsStep == IInv /\ IInv' /\ HInv /\ [Next]_vars => HInv'
<1> SUFFICES ASSUME IInv, IInv', HInv, [Next]_vars PROVE HInv'
  OBVIOUS
<1>1. CASE InitBatch
  BY <1>1, InitBatchGrows
<1>2. CASE FindSeed
  BY <1>2, FindSeedGrows
<1>3. CASE FindToken
  BY <1>3, FindTokenGrows
<1>4. CASE FindFail
  BY <1>4, FindFailGrows
<1>5. CASE Emplace
  BY <1>5, EmplaceGrows
<1>6. CASE Restore
  BY <1>6, RestoreGrows
<1>7. CASE Apply
  BY <1>7, ApplyGrows
<1>8. CASE Store
  BY <1>8, StoreGrows
<1>9. CASE Attended
  BY <1>9, AttendedGrows
<1>10. CASE clear
  BY <1>10, ClearGrows
<1>11. ASSUME NEW s \in Seqs, NEW p0 \in 0 .. MaxLen - 1, seq_rm(s, p0) PROVE HInv'
  BY <1>11, SeqRmGrows
<1>12. ASSUME NEW s \in Seqs, seq_keep(s) PROVE HInv'
  BY <1>12, SeqKeepGrows
<1>13. ASSUME NEW src \in Seqs, NEW dst \in Seqs, seq_cp(src, dst) PROVE HInv'
  BY <1>13, SeqCpGrows
<1>14. CASE UNCHANGED vars
  <2>1. /\ \A s : FinalHead(s)' = FinalHead(s)
        /\ \A s, c : Holds(s, c)' <=> Holds(s, c)
        /\ \A c, d : Older(d, c)' <=> Older(d, c)
        /\ \A g : Filled(g)' = Filled(g) /\ (Incomplete(g)' <=> Incomplete(g))
        /\ Applied' = Applied
    BY <1>14 DEF vars, FinalHead, IsLast, Holds, Older, Filled, Incomplete, Base, BasePos,
                 Applied, LastOf, CellsOf
  <2>2. \A s, g : Growing(s, g)' <=> Growing(s, g)
    BY <2>1 DEF Growing, CellsOf
  <2>3. LiveGrows'
    BY <1>14, <2>1, <2>2 DEF vars, LiveGrows, HInv, CellsOf
  <2>4. HeadAfter' /\ HeadsFollow' /\ PosFollow'
    BY <1>14, <2>1 DEF vars, HeadAfter, HeadsFollow, PosFollow, HInv
  <2> QED BY <2>3, <2>4 DEF HInv
<1>15. ASSUME NEW S \in SUBSET Seqs, GraphFails(S) PROVE HInv'
  BY <1>15, GraphFailsGrows
<1> QED BY <1>1, <1>2, <1>3, <1>4, <1>5, <1>6, <1>7, <1>8, <1>9, <1>10, <1>11, <1>12, <1>13,
           <1>14, <1>15 DEF Next, DecodeStep, FailStep, EditStep

(* In every reachable state a live incomplete group is the one its         *)
(* sequence fills, row by row from the first, with the head at the next.   *)
THEOREM AllocHeadInvariant == Spec => []HInv
<1>1. IInv /\ HInv /\ [Next]_vars => (IInv /\ HInv)'
  BY InvStep, GrowsStep
<1>2. Init => IInv /\ HInv
  BY InitInv, InitGrows
<1> QED BY <1>1, <1>2, PTL DEF Spec

(* Between batches the head of a sequence is inside the one live           *)
(* incomplete group that it has, so the code that reads by heads           *)
(* (allocation_cell_uses_stage) finds that group in the stage.  Batches    *)
(* are completed, or a graph of theirs fails and the server clears the     *)
(* processing slots; one that found no cells is followed by a clear        *)
(* (KvarnRetry is about trying it again).                                  *)
THEOREM AllocLiveGroupHasHead == Spec => []LiveGroupHasHead
<1>1. IInv /\ HInv => LiveGroupHasHead
  <2> SUFFICES ASSUME IInv, HInv, pc = "idle", NEW g \in Groups, g \notin copied, Live(g),
                      NEW c \in CellsOf(g), NEW s \in seqs[c]
               PROVE  heads[s] % G # 0 /\ (heads[s] - 1) \div G = g
    BY DEF LiveGroupHasHead
  <2>1. plan = <<>> /\ pc \notin DryRun /\ pc # "failed"
    BY DEF IInv, Phase, DryRun
  <2>2. /\ \A r : FinalHead(r) = heads[r]
        /\ \A r, d : Holds(r, d) <=> r \in seqs[d]
        /\ \A h : Filled(h) = {d \in CellsOf(h) : seqs[d] # {}}
    BY <2>1, NoPlan
  <2>3. c \in Cells /\ s \in Seqs
    BY GroupCells DEF IInv, TypeOK
  <2>4. Incomplete(g)
    <3>1. Filled(g) \in SUBSET CellsOf(g) /\ Used(g) = Cardinality(Filled(g))
      BY <2>2 DEF Used, is_empty
    <3>2. Filled(g) # {} /\ Filled(g) # CellsOf(g)
      <4>1. PICK n \in Nat : n = Cardinality(Filled(g)) /\ n \in 1 .. G - 1 /\ G \in Nat
        BY <3>1, Counted, AllocAssumption DEF Live
      <4>2. /\ Cardinality(Filled(g)) = 0 <=> Filled(g) = {}
            /\ Cardinality(Filled(g)) >= G <=> Filled(g) = CellsOf(g)
        BY <3>1, Counted
      <4>3. n # 0 /\ ~(n >= G)
        BY <4>1
      <4> QED BY <4>1, <4>2, <4>3
    <3> QED BY <3>2 DEF Live, Incomplete
  <2>5. heads[s] \in G * g + 1 .. G * g + G - 1
    BY <2>1, <2>2, <2>3, <2>4 DEF HInv, LiveGrows, Growing
  <2>6. PICK a \in Nat, h \in Nat, n \in Nat \ {0} :
           a = G * g /\ h = heads[s] /\ n = G /\ h \in a + 1 .. a + n - 1
    <3>1. PICK a \in Nat : a = G * g
      BY AllocAssumption DEF Groups
    <3>2. heads[s] \in a + 1 .. a + G - 1 /\ G \in Nat \ {0}
      BY <2>5, <3>1, AllocAssumption
    <3>3. heads[s] \in Nat
      BY <3>2
    <3> QED BY <3>1, <3>2, <3>3
  <2>7. g \in Nat
    BY DEF Groups
  <2>8. h \div n = g /\ (h - 1) \div n = g
    <3>1. n * g = a /\ h - 1 \in Nat
      BY <2>6
    <3>2. a <= h /\ h < a + n /\ a <= h - 1 /\ h - 1 < a + n
      BY <2>6
    <3> QED BY <2>7, <3>1, <3>2, DivUnique
  <2>9. h % n = h - n * g
    BY <2>6, <2>8, DivMod
  <2>10. h % n # 0
    BY <2>6, <2>9
  <2> QED BY <2>6, <2>8, <2>10
<1> QED BY <1>1, AllocInvariant, AllocHeadInvariant, PTL

-----------------------------------------------------------------------------
(* No ubatch has the tokens for a whole group, so find_slot never begins a *)
(* group without a stage slot for it (fills_here).                         *)
SmallUbatches == NUbatch < G \/ MaxBatch < G

(* There is only one sequence.                                             *)
OneSequence == \A r, s \in Seqs : r = s

(* A group never loses its stage slot to one that is filled without one.   *)
StageKept == SmallUbatches \/ OneSequence

(* The number of tokens whose rows are stored.                             *)
Stored ==
    IF pc \in {"apply", "store"} THEN at - 1 ELSE IF pc = "attend" THEN at ELSE 0

(* The cells of group g that are occupied once the first n tokens are in.  *)
FilledAt(g, n) ==
    {c \in CellsOf(g) :
        IF \E t \in 1 .. Len(plan) : plan[t] = c
        THEN \E t \in 1 .. Len(plan) : plan[t] = c /\ t <= n
        ELSE Base[c] # {}}

(* The batch has a token for group g.                                      *)
Planned(g) == \E t \in 1 .. Len(plan) : Group(plan[t]) = g

(* After n tokens group g needs no stage slot: it is empty, or complete.   *)
Settled(g, n) ==
    FilledAt(g, n) = {} \/ FilledAt(g, n) = CellsOf(g) \/ (sealed[g] /\ ~Planned(g))

(* When a token is stored, no other group needs its stage slot.            *)
SlotFree ==
    \A t \in 1 .. Len(plan), g \in Groups :
        g > 0 /\ g # Group(plan[t]) /\ stage_slot(g) = stage_slot(Group(plan[t]))
            => Settled(g, t)

(* A group is filled row by row.                                           *)
RowByRow ==
    \A t \in 1 .. Len(plan), g \in Groups \ copied :
        g > 0 /\ plan[t] \in CellsOf(g) => FilledAt(g, t) = G * g .. plan[t]

(* A sequence fills one group at a time.                                   *)
OneOpen ==
    \A t \in 1 .. Len(plan), g \in Groups \ copied :
        g > 0 /\ g # Group(plan[t]) /\ (\E c \in FilledAt(g, t) : Holds(batch[t], c))
            => Settled(g, t)

(* A group is sealed by the batch only when the batch fills it.            *)
SealedFull == \A g \in Groups : g > 0 /\ sealed[g] /\ Planned(g) => Filled(g) = CellsOf(g)

(* The cells of the tokens to come are empty.                              *)
Unapplied ==
    pc \in {"apply", "store", "attend"} =>
        \A t \in 1 .. Len(plan) : t > Applied => seqs[plan[t]] = {}

(* A stored head is after a cell of its sequence.                          *)
HeadHeld ==
    \A s \in Seqs : heads[s] = 0 \/ (heads[s] - 1 \in Cells /\ Holds(s, heads[s] - 1))

(* Within a find_slot call every incomplete group owns its stage slot.     *)
Owned ==
    SmallUbatches /\ pc = "find" =>
        \A g \in Groups : Incomplete(g) => owners[stage_slot(g)] = g

(* Every token of the batch for group g is stored.                         *)
Done(g) == \A t \in 1 .. Len(plan) : Group(plan[t]) = g => t <= Stored

(* The stored rows of a complete group are in its record ...               *)
InRecord ==
    \A g \in Groups \ copied :
        g > 0 /\ sealed[g] /\ Done(g) => FilledAt(g, Stored) \subseteq recorded

(* ... and those of the sink and of an incomplete group in the stage.      *)
InStage ==
    \A g \in Groups \ copied :
        g = 0 \/ ~sealed[g] \/ ~Done(g) => FilledAt(g, Stored) \subseteq staged

(* With one sequence nothing is ever copied.                               *)
NothingCopied == OneSequence => copied = {}

Schedule == SlotFree /\ RowByRow /\ OneOpen /\ SealedFull

Rows == InRecord /\ InStage

SInv ==
    /\ NothingCopied
    /\ pc # "failed" => Schedule /\ Rows /\ Unapplied /\ HeadHeld /\ Owned

-----------------------------------------------------------------------------
(* Tokens only add to a group, and all of them make it what it will be.    *)
LEMMA FilledAtBounds ==
    ASSUME TypeOK, NEW g, NEW n
    PROVE  /\ FilledAt(g, n) \subseteq Filled(g) /\ Filled(g) \subseteq CellsOf(g)
           /\ (\A t \in 1 .. Len(plan) : t <= n) => FilledAt(g, n) = Filled(g)
<1>1. FilledAt(g, n) \subseteq Filled(g)
  BY DEF FilledAt, Filled
<1>2. ASSUME \A t \in 1 .. Len(plan) : t <= n PROVE Filled(g) \subseteq FilledAt(g, n)
  BY <1>2 DEF FilledAt, Filled
<1> QED BY <1>1, <1>2 DEF Filled

(* A group without a free cell is sealed, and has no token to come.        *)
LEMMA FullDone ==
    ASSUME IInv, pc # "failed", NEW g \in Groups, g > 0, NEW n, FilledAt(g, n) = CellsOf(g)
    PROVE  sealed[g] /\ \A t \in 1 .. Len(plan) : Group(plan[t]) = g => t <= n
<1>1. Filled(g) = CellsOf(g)
  BY FilledAtBounds DEF IInv
<1>2. sealed[g]
  BY <1>1 DEF IInv, FullSealed
<1>3. ASSUME NEW t \in 1 .. Len(plan), Group(plan[t]) = g PROVE t <= n
  <2>1. plan[t] \in CellsOf(g)
    BY <1>3, PlanType, CellGroup DEF IInv
  <2>2. PICK v \in 1 .. Len(plan) : plan[v] = plan[t] /\ v <= n
    BY <2>1 DEF FilledAt
  <2> QED BY <2>2 DEF IInv, OwnCells
<1> QED BY <1>2, <1>3

(* A group that needs no stage slot is empty, or sealed with all its rows. *)
LEMMA SettledDone ==
    ASSUME IInv, pc # "failed", NEW g \in Groups, g > 0, NEW n, Settled(g, n)
    PROVE  \/ FilledAt(g, n) = {}
           \/ sealed[g] /\ \A t \in 1 .. Len(plan) : Group(plan[t]) = g => t <= n
  BY FullDone DEF Settled, Planned

(* What the tokens have filled depends on the plan and on the cells that   *)
(* are not in it.                                                          *)
LEMMA SameFilledAt ==
    ASSUME plan' = plan,
           \A c \in Cells :
               (\A t \in 1 .. Len(plan) : plan[t] # c) => (Base'[c] = {} <=> Base[c] = {})
    PROVE  /\ \A g \in Groups : \A n : FilledAt(g, n)' = FilledAt(g, n)
           /\ \A g \in Groups : Planned(g)' <=> Planned(g)
           /\ \A g \in Groups : Filled(g)' = Filled(g)
<1>1. ASSUME NEW g \in Groups, NEW n PROVE FilledAt(g, n)' = FilledAt(g, n)
  BY GroupCells DEF FilledAt, CellsOf
<1>2. ASSUME NEW g \in Groups PROVE Filled(g)' = Filled(g)
  BY GroupCells DEF Filled, CellsOf
<1>3. ASSUME NEW g \in Groups PROVE Planned(g)' <=> Planned(g)
  BY DEF Planned, Group
<1> QED BY <1>1, <1>2, <1>3

(* A step that finds no cell and edits none keeps the schedule.            *)
LEMMA SameSchedule ==
    ASSUME IInv, Schedule, plan' = plan, copied' = copied,
           \A t \in 1 .. Len(plan) : batch'[t] = batch[t],
           \A c \in Cells :
               (\A t \in 1 .. Len(plan) : plan[t] # c) => (Base'[c] = {} <=> Base[c] = {}),
           \A s \in Seqs, c \in Cells : Holds(s, c)' <=> Holds(s, c),
           \A g \in Groups :
               g > 0 => (sealed'[g] => sealed[g]) /\ (sealed[g] => sealed'[g] \/ Filled(g) = {})
    PROVE  Schedule'
<1>1. /\ \A g \in Groups : \A n : FilledAt(g, n)' = FilledAt(g, n)
      /\ \A g \in Groups : Planned(g)' <=> Planned(g)
      /\ \A g \in Groups : Filled(g)' = Filled(g)
  BY SameFilledAt
<1>2. ASSUME NEW g \in Groups, g > 0, NEW n, Settled(g, n) PROVE Settled(g, n)'
  <2>1. FilledAt(g, n) \subseteq Filled(g)
    BY FilledAtBounds DEF IInv
  <2>2. FilledAt(g, n)' = FilledAt(g, n) /\ CellsOf(g)' = CellsOf(g)
    BY <1>1 DEF CellsOf
  <2> QED BY <1>1, <1>2, <2>1, <2>2 DEF Settled
<1>3. /\ \A t \in 1 .. Len(plan) :
            plan[t] \in Cells /\ Group(plan[t]) \in Groups /\ batch[t] \in Seqs
      /\ \A g \in Groups : stage_slot(g)' = stage_slot(g)
  BY PlanType, CellGroup DEF IInv, stage_slot
<1>4. SlotFree'
  <2> SUFFICES ASSUME NEW t \in 1 .. Len(plan), NEW g \in Groups, g > 0, g # Group(plan[t]),
                      stage_slot(g) = stage_slot(Group(plan[t]))
               PROVE  Settled(g, t)'
    BY <1>3 DEF SlotFree, stage_slot
  <2>1. Settled(g, t)
    BY DEF Schedule, SlotFree
  <2> QED BY <1>2, <2>1
<1>5. RowByRow'
  <2> SUFFICES ASSUME NEW t \in 1 .. Len(plan), NEW g \in Groups \ copied, g > 0,
                      plan[t] \in CellsOf(g)
               PROVE  FilledAt(g, t)' = G * g .. plan[t]
    BY DEF RowByRow, CellsOf
  <2>1. FilledAt(g, t) = G * g .. plan[t]
    BY DEF Schedule, RowByRow
  <2> QED BY <1>1, <2>1
<1>6. OneOpen'
  <2> SUFFICES ASSUME NEW t \in 1 .. Len(plan), NEW g \in Groups \ copied, g > 0,
                      g # Group(plan[t]), NEW c \in FilledAt(g, t), Holds(batch[t], c)'
               PROVE  Settled(g, t)'
    BY <1>1 DEF OneOpen
  <2>1. c \in Cells
    BY FilledAtBounds, GroupCells DEF IInv
  <2>2. Holds(batch[t], c)
    BY <1>3, <2>1
  <2>3. Settled(g, t)
    BY <2>2 DEF Schedule, OneOpen
  <2> QED BY <1>2, <2>3
<1>7. SealedFull'
  BY <1>1 DEF Schedule, SealedFull, CellsOf
<1> QED BY <1>4, <1>5, <1>6, <1>7 DEF Schedule

(* ... and one that stores no row either keeps the rows where they are.    *)
LEMMA SameRows ==
    ASSUME IInv, Rows, plan' = plan, copied' = copied,
           \A c \in Cells :
               (\A t \in 1 .. Len(plan) : plan[t] # c) => (Base'[c] = {} <=> Base[c] = {}),
           \A g \in Groups :
               g > 0 => (sealed'[g] => sealed[g]) /\ (sealed[g] => sealed'[g] \/ Filled(g) = {}),
           Stored' = Stored, staged' = staged, recorded' = recorded
    PROVE  Rows'
<1>1. /\ \A g \in Groups : \A n : FilledAt(g, n)' = FilledAt(g, n)
      /\ \A g \in Groups : Planned(g)' <=> Planned(g)
      /\ \A g \in Groups : Filled(g)' = Filled(g)
  BY SameFilledAt
<1>2. PICK n : n = Stored
  OBVIOUS
<1>3. ASSUME NEW g \in Groups
      PROVE  FilledAt(g, Stored)' = FilledAt(g, n) /\ (Done(g)' <=> Done(g))
  <2>1. FilledAt(g, Stored)' = FilledAt(g, n)'
    BY <1>2 DEF FilledAt
  <2>2. FilledAt(g, n)' = FilledAt(g, n)
    BY <1>1
  <2>3. Done(g)' <=> Done(g)
    BY DEF Done, Group
  <2> QED BY <2>1, <2>2, <2>3
<1>4. InRecord'
  BY <1>2, <1>3 DEF Rows, InRecord
<1>5. InStage'
  <2> SUFFICES ASSUME NEW g \in Groups \ copied, g = 0 \/ ~sealed'[g] \/ ~Done(g)
               PROVE  FilledAt(g, n) \subseteq staged
    BY <1>3 DEF InStage
  <2>1. g = 0 \/ g > 0
    BY AllocAssumption DEF Groups
  <2>2. FilledAt(g, n) \subseteq Filled(g)
    BY FilledAtBounds DEF IInv
  <2>3. CASE g = 0 \/ ~sealed[g] \/ ~Done(g)
    BY <1>2, <2>3 DEF Rows, InStage
  <2>4. CASE g > 0 /\ sealed[g] /\ ~sealed'[g]
    BY <2>2, <2>4
  <2> QED BY <2>1, <2>3, <2>4
<1> QED BY <1>4, <1>5 DEF Rows

-----------------------------------------------------------------------------
(* A head moves to just after a token that has a cell.                     *)
LEMMA NewHeadsHeld ==
    ASSUME IInv, HeadHeld, pc \in {"emplace", "apply"}, heads' = newHeads(UbatchOf(at)),
           plan' = plan, batch' = batch,
           \A s \in Seqs, c \in Cells : Holds(s, c)' <=> Holds(s, c)
    PROVE  HeadHeld'
<1>1. PICK u \in Nat, l \in Nat :
          /\ u = UbatchOf(at) /\ l = LastOf(u) /\ FirstOf(u) = at
          /\ at \in 1 .. Len(batch) /\ l \in at .. Len(batch) /\ l <= Len(plan)
          /\ TokensOf(u) = at .. l
          /\ TokensOf(u) \subseteq 1 .. Len(plan) /\ TokensOf(u) \subseteq 1 .. Len(batch)
  BY CurrentUbatch DEF IInv
<1> SUFFICES ASSUME NEW s \in Seqs, NEW h, h = heads'[s], h # 0
             PROVE  h - 1 \in Cells /\ Holds(s, h - 1)'
  BY DEF HeadHeld
<1> DEFINE mine == {t \in TokensOf(u) : batch[t] = s}
<1>2. CASE mine = {}
  <2>1. h = heads[s]
    BY <1>1, <1>2 DEF newHeads
  <2>2. h - 1 \in Cells /\ Holds(s, h - 1)
    BY <2>1 DEF HeadHeld
  <2> QED BY <2>2
<1>3. CASE mine # {}
  <2>1. PICK m : m = CHOOSE t \in mine : \A v \in mine : v <= t
    OBVIOUS
  <2>2. h = plan[m] + 1
    BY <1>1, <1>3, <2>1 DEF newHeads
  <2>3. m \in mine
    <3>1. mine \subseteq Nat /\ l \in Nat /\ \A k \in mine : k <= l
      BY <1>1
    <3> HIDE DEF mine
    <3> QED BY <1>3, <2>1, <3>1, LastChosen
  <2>4. m \in 1 .. Len(plan) /\ batch[m] = s
    BY <1>1, <2>3
  <2>5. plan[m] \in Cells /\ plan[m] \in Int
    BY <2>4, PlanType, CellGroup DEF IInv
  <2>6. h - 1 = plan[m]
    BY <2>2, <2>5
  <2>7. Holds(s, plan[m])
    BY <2>4 DEF Holds
  <2> QED BY <2>5, <2>6, <2>7
<1> QED BY <1>2, <1>3

(* Nothing is known of a plan without tokens, and all rows are stored.     *)
LEMMA NoSchedule ==
    ASSUME plan' = <<>>
    PROVE  Schedule' /\ \A g : Done(g)' /\ ~Planned(g)'
<1>1. Len(plan') = 0 /\ \A t : ~(t \in 1 .. 0)
  OBVIOUS
<1> QED BY <1>1 DEF Schedule, SlotFree, RowByRow, OneOpen, SealedFull, Done, Planned

(* A batch arrives.                                                        *)
LEMMA InitBatchStores == ASSUME IInv, SInv, InitBatch PROVE SInv'
<1>1. /\ pc = "idle" /\ pc' = "seed" /\ plan' = <<>> /\ saved' = <<pos, seqs>>
      /\ UNCHANGED <<pos, seqs, heads, sealed, staged, recorded, copied>>
  BY DEF InitBatch, cellVars, payload
<1>2. plan = <<>> /\ Len(plan) = 0 /\ Len(plan') = 0 /\ \A t : ~(t \in 1 .. 0)
  BY <1>1 DEF IInv, Phase
<1>3. Base' = Base /\ Stored' = Stored
  BY <1>1 DEF Base, DryRun, Stored
<1>4. \A s \in Seqs, c \in Cells : Holds(s, c)' <=> Holds(s, c)
  BY <1>2, <1>3 DEF Holds
<1>5. Schedule'
  BY <1>1, NoSchedule
<1>6. Rows'
  <2>1. Rows /\ plan' = plan
    BY <1>1, <1>2 DEF SInv
  <2> QED BY <1>1, <1>3, <2>1, SameRows
<1>7. HeadHeld'
  BY <1>1, <1>4 DEF SInv, HeadHeld
<1>8. NothingCopied' /\ Unapplied' /\ Owned'
  BY <1>1 DEF SInv, NothingCopied, OneSequence, Unapplied, Owned
<1> QED BY <1>5, <1>6, <1>7, <1>8 DEF SInv

(* find_slot starts: no seal is set, and one is cleared only of a group    *)
(* with nothing in it.                                                     *)
LEMMA FindSeedStores == ASSUME IInv, SInv, FindSeed PROVE SInv'
<1>1. /\ pc = "seed"
      /\ UNCHANGED <<pos, seqs, heads, staged, recorded, batch, plan, at, saved, copied>>
  BY DEF FindSeed, payload
<1>2. /\ pc' = "find" /\ \A g \in Groups : Filled(g)' = Filled(g)
      /\ \A g \in Groups : g > 0 =>
            (sealed'[g] <=> Filled(g) # {} /\ (Filled(g) = CellsOf(g) \/ sealed[g]))
      /\ \A g \in Groups : Incomplete(g)' => owners'[stage_slot(g)] = g
  BY SeedEffect
<1>3. Base' = Base /\ Stored' = Stored
  BY <1>1, <1>2 DEF Base, DryRun, Stored
<1>4. \A g \in Groups :
         g > 0 => (sealed'[g] => sealed[g]) /\ (sealed[g] => sealed'[g] \/ Filled(g) = {})
  BY <1>1, <1>2 DEF IInv, FullSealed
<1>5. \A s \in Seqs, c \in Cells : Holds(s, c)' <=> Holds(s, c)
  BY <1>1, <1>3, SameHolds
<1>6. Schedule /\ Rows /\ HeadHeld
  BY <1>1 DEF SInv
<1>7. Schedule'
  BY <1>1, <1>3, <1>4, <1>5, <1>6, SameSchedule
<1>8. Rows'
  BY <1>1, <1>3, <1>4, <1>6, SameRows
<1>9. HeadHeld'
  BY <1>1, <1>5, <1>6 DEF HeadHeld
<1>10. Owned'
  BY <1>2 DEF Owned, stage_slot
<1>11. NothingCopied' /\ Unapplied'
  BY <1>1, <1>2 DEF SInv, NothingCopied, OneSequence, Unapplied
<1> QED BY <1>7, <1>8, <1>9, <1>10, <1>11 DEF SInv

(* The dry run emplaces an ubatch.                                         *)
LEMMA EmplaceStores == ASSUME IInv, SInv, Emplace PROVE SInv'
<1>1. /\ pc = "emplace" /\ pc' = "seed" /\ heads' = newHeads(UbatchOf(at))
      /\ UNCHANGED <<sealed, staged, recorded, batch, plan, saved, copied>>
  BY DEF Emplace, apply_ubatch, payload
<1>2. Base' = Base /\ Stored' = Stored
  BY <1>1 DEF Base, DryRun, Stored
<1>3. \A s \in Seqs, c \in Cells : Holds(s, c)' <=> Holds(s, c)
  BY <1>1, <1>2, SameHolds
<1>4. Schedule /\ Rows /\ HeadHeld
  BY <1>1 DEF SInv
<1>5. Schedule'
  BY <1>1, <1>2, <1>3, <1>4, SameSchedule
<1>6. Rows'
  BY <1>1, <1>2, <1>4, SameRows
<1>7. HeadHeld'
  BY <1>1, <1>3, <1>4, NewHeadsHeld
<1>8. NothingCopied' /\ Unapplied' /\ Owned'
  BY <1>1 DEF SInv, NothingCopied, OneSequence, Unapplied, Owned
<1> QED BY <1>5, <1>6, <1>7, <1>8 DEF SInv

(* prepare() puts the cells back: none of the batch's is in its cell.      *)
LEMMA RestoreStores == ASSUME IInv, SInv, Restore PROVE SInv'
<1>1. /\ pc = "emplace" /\ pc' = "apply" /\ heads' = newHeads(UbatchOf(at)) /\ at' = 1
      /\ seqs' = saved[2]
      /\ UNCHANGED <<sealed, staged, recorded, batch, plan, copied>>
  BY DEF Restore, payload
<1>2. Base' = Base /\ Stored' = Stored
  BY <1>1 DEF Base, DryRun, Stored
<1>3. \A s \in Seqs, c \in Cells : Holds(s, c)' <=> Holds(s, c)
  BY <1>1, <1>2, SameHolds
<1>4. Schedule /\ Rows /\ HeadHeld
  BY <1>1 DEF SInv
<1>5. Schedule'
  BY <1>1, <1>2, <1>3, <1>4, SameSchedule
<1>6. Rows'
  BY <1>1, <1>2, <1>4, SameRows
<1>7. HeadHeld'
  BY <1>1, <1>3, <1>4, NewHeadsHeld
<1>8. Unapplied'
  <2>1. \A t \in 1 .. Len(plan) : saved[2][plan[t]] = {}
    BY <1>1 DEF IInv, Overlay, DryRun
  <2> QED BY <1>1, <2>1 DEF Unapplied
<1>9. NothingCopied' /\ Owned'
  BY <1>1 DEF SInv, NothingCopied, OneSequence, Owned
<1> QED BY <1>5, <1>6, <1>7, <1>8, <1>9 DEF SInv

(* An ubatch is applied for good.                                          *)
LEMMA ApplyStores == ASSUME IInv, SInv, Apply PROVE SInv'
<1>1. /\ pc = "apply" /\ pc' = "store" /\ apply_ubatch(UbatchOf(at))
      /\ heads' = newHeads(UbatchOf(at))
      /\ UNCHANGED <<sealed, staged, recorded, batch, plan, at, saved, copied>>
  BY DEF Apply, apply_ubatch, payload
<1>2. PICK u \in Nat, l \in Nat :
          /\ u = UbatchOf(at) /\ l = LastOf(u) /\ FirstOf(u) = at
          /\ at \in 1 .. Len(batch) /\ l \in at .. Len(batch) /\ l <= Len(plan)
          /\ TokensOf(u) = at .. l
          /\ TokensOf(u) \subseteq 1 .. Len(plan) /\ TokensOf(u) \subseteq 1 .. Len(batch)
  BY <1>1, CurrentUbatch DEF IInv
<1>3. \A c \in Cells : (\A v \in TokensOf(u) : plan[v] # c) => seqs'[c] = seqs[c]
  BY <1>1, <1>2, ApplyCells DEF IInv
<1>4. Base = seqs /\ Base' = seqs' /\ Stored' = Stored
  BY <1>1 DEF Base, DryRun, Stored
<1>5. \A c \in Cells : (\A t \in 1 .. Len(plan) : plan[t] # c) => (Base'[c] = {} <=> Base[c] = {})
  BY <1>2, <1>3, <1>4
<1>6. \A s \in Seqs, c \in Cells : Holds(s, c)' <=> Holds(s, c)
  BY ApplyHolds
<1>7. Schedule /\ Rows /\ HeadHeld /\ Unapplied
  BY <1>1 DEF SInv
<1>8. Schedule'
  BY <1>1, <1>5, <1>6, <1>7, SameSchedule
<1>9. Rows'
  BY <1>1, <1>4, <1>5, <1>7, SameRows
<1>10. HeadHeld'
  BY <1>1, <1>6, <1>7, NewHeadsHeld
<1>11. Unapplied'
  <2>1. Applied' = l
    <3>1. LastOf(u)' = l
      BY <1>1, <1>2 DEF LastOf
    <3> QED BY <1>1, <1>2, <3>1 DEF Applied, DryRun
  <2> SUFFICES ASSUME NEW t \in 1 .. Len(plan), t > l PROVE seqs'[plan[t]] = {}
    BY <1>1, <2>1 DEF Unapplied
  <2>2. \A v \in TokensOf(u) : plan[v] # plan[t]
    BY <1>2 DEF IInv, OwnCells
  <2>3. plan[t] \in Cells
    BY PlanType DEF IInv
  <2>4. t > Applied
    BY <1>1, <1>2 DEF Applied, DryRun
  <2>5. seqs[plan[t]] = {}
    BY <1>1, <1>7, <2>4 DEF Unapplied
  <2> QED BY <1>3, <2>2, <2>3, <2>5
<1>12. NothingCopied' /\ Owned'
  BY <1>1 DEF SInv, NothingCopied, OneSequence, Owned
<1> QED BY <1>8, <1>9, <1>10, <1>11, <1>12 DEF SInv

(* One more token is one more cell.                                        *)
LEMMA NextFilled ==
    ASSUME IInv, NEW n \in 1 .. Len(plan), NEW g \in Groups
    PROVE  FilledAt(g, n) = FilledAt(g, n - 1) \cup {c \in CellsOf(g) : c = plan[n]}
<1>1. Len(plan) \in Nat
  BY PlanType DEF IInv
<1>2. \A t \in 1 .. Len(plan) : t <= n <=> t = n \/ t <= n - 1
  BY <1>1
<1> QED BY <1>2 DEF FilledAt

(* A row goes to the stage over rows that no group needs there any more,   *)
(* and a group's last row takes it to its record.                          *)
LEMMA StoreStores == ASSUME IInv, SInv, Store PROVE SInv'
<1>1. /\ pc = "store" /\ pc' \in {"store", "attend"}
      /\ UNCHANGED <<pos, seqs, heads, sealed, batch, plan, saved, copied>>
      /\ \/ at = LastOf(UbatchOf(at)) /\ pc' = "attend" /\ at' = at
         \/ at # LastOf(UbatchOf(at)) /\ pc' = "store" /\ at' = at + 1
  BY DEF Store
<1>2. /\ at \in 1 .. Len(plan) /\ at \in 1 .. Len(batch) /\ Len(batch) \in Nat
      /\ Len(plan) = Len(batch) /\ TypeOK
  BY <1>1 DEF IInv, Phase, TypeOK
<1>3. Base' = Base /\ Stored = at - 1 /\ Stored' = at
  BY <1>1, <1>2 DEF Base, DryRun, Stored
<1>4. \A s \in Seqs, c \in Cells : Holds(s, c)' <=> Holds(s, c)
  BY <1>1, <1>3, SameHolds
<1>5. Schedule /\ Rows /\ HeadHeld /\ Unapplied
  BY <1>1 DEF SInv
<1>6. Schedule'
  BY <1>1, <1>3, <1>4, <1>5, SameSchedule
<1>7. PICK c \in Cells, g \in Groups :
         /\ c = plan[at] /\ g = Group(c) /\ c \in CellsOf(g) /\ Row(c) = c - G * g
         /\ staged' = (staged \ SameRow(c)) \cup {c}
         /\ recorded' = IF Row(c) = G - 1 /\ g > 0
                        THEN (recorded \ CellsOf(g)) \cup (staged' \cap CellsOf(g))
                        ELSE recorded \ {c}
  BY <1>2, PlanType, CellGroup DEF Store
<1>8. ASSUME NEW h \in Groups
      PROVE  /\ FilledAt(h, Stored)' = FilledAt(h, at)
             /\ h # g => FilledAt(h, at) = FilledAt(h, at - 1)
             /\ FilledAt(g, at) = FilledAt(g, at - 1) \cup {c}
             /\ Done(h)' <=> \A t \in 1 .. Len(plan) : Group(plan[t]) = h => t <= at
             /\ Done(h) <=> \A t \in 1 .. Len(plan) : Group(plan[t]) = h => t <= at - 1
  <2>1. FilledAt(h, Stored)' = FilledAt(h, at)
    BY <1>1, <1>3 DEF FilledAt, CellsOf
  <2>2. h # g => c \notin CellsOf(h)
    BY <1>7, GroupCells
  <2>3. FilledAt(h, at) = FilledAt(h, at - 1) \cup {x \in CellsOf(h) : x = c}
    BY <1>2, <1>7, NextFilled
  <2>4. FilledAt(g, at) = FilledAt(g, at - 1) \cup {x \in CellsOf(g) : x = c}
    BY <1>2, <1>7, NextFilled
  <2>5. Done(h)' <=> \A t \in 1 .. Len(plan) : Group(plan[t]) = h => t <= at
    BY <1>1, <1>3 DEF Done, Group
  <2>6. Done(h) <=> \A t \in 1 .. Len(plan) : Group(plan[t]) = h => t <= at - 1
    BY <1>3 DEF Done
  <2> QED BY <1>7, <2>1, <2>2, <2>3, <2>4, <2>5, <2>6
<1>9. ~Done(g)
  BY <1>2, <1>7, <1>8
<1>10. \A h \in Groups : Done(h) => Done(h)'
  BY <1>2, <1>8
<1>11. \A h \in Groups : h # g /\ Done(h)' => Done(h)
  <2> SUFFICES ASSUME NEW h \in Groups, h # g, Done(h)', NEW t \in 1 .. Len(plan),
                      Group(plan[t]) = h
               PROVE  t <= at - 1
    BY <1>8
  <2>1. t <= at /\ t # at
    BY <1>7, <1>8
  <2> QED BY <1>2, <2>1
<1>12. InStage'
  <2> SUFFICES ASSUME NEW h \in Groups \ copied, h = 0 \/ ~sealed[h] \/ ~Done(h)',
                      NEW d \in FilledAt(h, at)
               PROVE  d \in staged'
    BY <1>1, <1>8 DEF InStage
  <2>1. FilledAt(h, at - 1) \subseteq staged
    BY <1>3, <1>5, <1>10 DEF Rows, InStage
  <2>2. d \in CellsOf(h) /\ d \in Cells /\ Group(d) = h /\ Row(d) = d - G * h
    BY <1>2, FilledAtBounds, GroupCells
  <2>3. CASE h = g
    <3>1. d = c \/ d \in FilledAt(g, at - 1)
      BY <1>8, <2>3
    <3>2. d # c => Row(d) # Row(c)
      <4>1. d \in Int /\ c \in Int /\ G * g \in Int
        BY <2>2, CellGroup, AllocAssumption DEF Groups
      <4> QED BY <1>7, <2>2, <2>3, <4>1
    <3> QED BY <1>7, <2>1, <2>3, <3>1, <3>2 DEF SameRow
  <2>4. CASE h # g
    <3>1. d \in staged
      BY <1>8, <2>1, <2>4
    <3>2. stage_slot(h) # stage_slot(g)
      <4>1. CASE h = 0 \/ g = 0
        <5>1. g > 0 \/ h > 0
          BY <2>4, <4>1, AllocAssumption DEF Groups
        <5>2. stage_slot(0) = 0
          BY DEF stage_slot
        <5> QED BY <4>1, <5>1, <5>2, RingSlot
      <4>2. CASE h # 0 /\ g # 0
        <5>1. h > 0
          BY <4>2, AllocAssumption DEF Groups
        <5>2. SUFFICES ASSUME stage_slot(h) = stage_slot(g) PROVE FALSE
          OBVIOUS
        <5>3. Settled(h, at)
          BY <1>2, <1>5, <1>7, <2>4, <5>1, <5>2 DEF Schedule, SlotFree
        <5>4. sealed[h] /\ \A t \in 1 .. Len(plan) : Group(plan[t]) = h => t <= at
          BY <1>1, <5>1, <5>3, SettledDone
        <5> QED BY <1>8, <4>2, <5>4
      <4> QED BY <4>1, <4>2
    <3> QED BY <1>7, <2>2, <3>1, <3>2 DEF SameRow
  <2> QED BY <2>3, <2>4
<1>13. InRecord'
  <2> SUFFICES ASSUME NEW h \in Groups \ copied, h > 0, sealed[h], Done(h)',
                      NEW d \in FilledAt(h, at)
               PROVE  d \in recorded'
    BY <1>1, <1>8 DEF InRecord
  <2>1. d \in CellsOf(h) /\ d \in Cells /\ Group(d) = h
    BY <1>2, FilledAtBounds, GroupCells
  <2>2. CASE h # g
    <3>1. Done(h) /\ d \in FilledAt(h, at - 1)
      BY <1>8, <1>11, <2>2
    <3>2. d \in recorded
      BY <1>3, <1>5, <3>1 DEF Rows, InRecord
    <3>3. d \notin CellsOf(g)
      BY <2>1, <2>2, GroupCells
    <3> QED BY <1>7, <3>2, <3>3
  <2>3. CASE h = g
    <3>1. Filled(g) = CellsOf(g)
      BY <1>2, <1>5, <1>7, <2>3 DEF Schedule, SealedFull, Planned
    <3>2. FilledAt(g, at) = CellsOf(g)
      <4>1. ASSUME NEW x \in CellsOf(g) PROVE x \in FilledAt(g, at)
        <5>1. CASE \E t \in 1 .. Len(plan) : plan[t] = x
          <6>1. PICK t \in 1 .. Len(plan) : plan[t] = x
            BY <5>1
          <6>2. Group(plan[t]) = g
            BY <6>1, GroupCells
          <6>3. t <= at
            BY <1>8, <2>3, <6>2
          <6> QED BY <6>1, <6>3 DEF FilledAt
        <5>2. CASE ~\E t \in 1 .. Len(plan) : plan[t] = x
          BY <3>1, <5>2 DEF FilledAt, Filled
        <5> QED BY <5>1, <5>2
      <4> QED BY <4>1 DEF FilledAt
    <3>3. FilledAt(g, at) = G * g .. c
      BY <1>2, <1>5, <1>7, <2>3 DEF Schedule, RowByRow
    <3>4. Row(c) = G - 1
      <4>1. PICK a \in Nat : a = G * g /\ G \in Nat \ {0, 1} /\ CellsOf(g) = a .. a + G - 1
        BY AllocAssumption DEF Groups, CellsOf
      <4>2. c \in a .. a + G - 1 /\ a + G - 1 \in a .. a + G - 1
        BY <1>7, <4>1
      <4>3. a .. c = a .. a + G - 1
        BY <3>2, <3>3, <4>1
      <4>4. a + G - 1 <= c
        BY <4>1, <4>2, <4>3
      <4> QED BY <1>7, <4>1, <4>2, <4>4
    <3>5. d \in staged'
      <4>1. FilledAt(g, at - 1) \subseteq staged
        BY <1>3, <1>5, <1>9, <2>3 DEF Rows, InStage
      <4>2. d = c \/ d \in FilledAt(g, at - 1)
        BY <1>8, <2>3
      <4>3. d # c => Row(d) # Row(c)
        <5>1. d \in Int /\ c \in Int /\ G * g \in Int /\ Row(d) = d - G * g
          BY <2>1, <2>3, CellGroup, AllocAssumption DEF Groups
        <5> QED BY <1>7, <5>1
      <4> QED BY <1>7, <4>1, <4>2, <4>3 DEF SameRow
    <3> QED BY <1>7, <2>1, <2>3, <3>4, <3>5
  <2> QED BY <2>2, <2>3
<1>14. HeadHeld'
  BY <1>1, <1>4, <1>5 DEF HeadHeld
<1>15. Unapplied'
  <2>1. Applied' = Applied
    BY StoreApplied
  <2> QED BY <1>1, <1>5, <2>1 DEF Unapplied
<1>16. NothingCopied' /\ Owned'
  BY <1>1 DEF SInv, NothingCopied, OneSequence, Owned
<1>17. Rows'
  BY <1>12, <1>13 DEF Rows
<1> QED BY <1>6, <1>14, <1>15, <1>16, <1>17 DEF SInv

(* Attention has read an ubatch; after the last one every row is stored.   *)
LEMMA AttendedStores == ASSUME IInv, HInv', SInv, Attended PROVE SInv'
<1>1. /\ pc = "attend"
      /\ UNCHANGED <<pos, seqs, heads, sealed, staged, recorded, saved, copied>>
  BY DEF Attended, payload
<1>2. /\ at \in 1 .. Len(batch) /\ Len(batch) \in Nat /\ Len(plan) = Len(batch)
      /\ at = LastOf(UbatchOf(at)) /\ TypeOK
  BY <1>1 DEF IInv, Phase, TypeOK
<1>3. Schedule /\ Rows /\ HeadHeld /\ Unapplied /\ Stored = at /\ Applied = at
  BY <1>1, <1>2 DEF SInv, Stored, Applied, DryRun
<1>4. NothingCopied'
  BY <1>1 DEF SInv, NothingCopied, OneSequence
<1>5. CASE at # Len(batch)
  <2>1. pc' = "apply" /\ at' = at + 1 /\ batch' = batch /\ plan' = plan
    BY <1>5 DEF Attended
  <2>2. Base' = Base /\ Stored' = Stored /\ Applied' = Applied
    BY <1>1, <1>2, <1>3, <2>1 DEF Base, DryRun, Stored, Applied
  <2>3. \A s \in Seqs, c \in Cells : Holds(s, c)' <=> Holds(s, c)
    BY <2>1, <2>2, SameHolds
  <2>4. Schedule'
    BY <1>1, <1>3, <2>1, <2>2, <2>3, SameSchedule
  <2>5. Rows'
    BY <1>1, <1>3, <2>1, <2>2, SameRows
  <2>6. HeadHeld'
    BY <1>1, <1>3, <2>3 DEF HeadHeld
  <2>7. Unapplied' /\ Owned'
    BY <1>1, <1>3, <2>1, <2>2 DEF Unapplied, Owned
  <2> QED BY <1>4, <2>4, <2>5, <2>6, <2>7 DEF SInv
<1>6. CASE at = Len(batch)
  <2>1. pc' = "idle" /\ batch' = <<>> /\ plan' = <<>>
    BY <1>6 DEF Attended, NoBatch
  <2>2. pc' \notin DryRun /\ Len(plan') = 0 /\ \A t : ~(t \in 1 .. 0)
    BY <2>1 DEF DryRun
  <2>3. Base = seqs /\ Base' = seqs
    BY <1>1, <2>2 DEF Base, DryRun
  <2>4. \A t \in 1 .. Len(plan) : t <= at /\ seqs[plan[t]] = {batch[t]}
    <3>1. \A t \in 1 .. Len(plan) : t <= at
      BY <1>2, <1>6
    <3> QED BY <1>3, <3>1 DEF IInv, Overlay
  <2>5. ASSUME NEW g \in Groups PROVE FilledAt(g, Stored)' = FilledAt(g, at) /\ Done(g)
    <3>1. FilledAt(g, Stored)' = {c \in CellsOf(g) : seqs[c] # {}}
      BY <2>2, <2>3 DEF FilledAt, CellsOf
    <3>2. FilledAt(g, at) = {c \in CellsOf(g) : seqs[c] # {}}
      <4>1. ASSUME NEW c \in CellsOf(g) PROVE c \in FilledAt(g, at) <=> seqs[c] # {}
        <5>1. CASE \E t \in 1 .. Len(plan) : plan[t] = c
          <6>1. PICK t \in 1 .. Len(plan) : plan[t] = c
            BY <5>1
          <6>2. t <= at /\ seqs[c] # {}
            BY <2>4, <6>1
          <6> QED BY <6>1, <6>2 DEF FilledAt
        <5>2. CASE ~\E t \in 1 .. Len(plan) : plan[t] = c
          BY <2>3, <5>2 DEF FilledAt
        <5> QED BY <5>1, <5>2
      <4> QED BY <4>1 DEF FilledAt
    <3>3. Done(g)
      BY <1>3, <2>4 DEF Done
    <3> QED BY <3>1, <3>2, <3>3
  <2>6. Schedule' /\ \A g : Done(g)' /\ ~Planned(g)'
    BY <2>1, NoSchedule
  <2>7. Rows'
    <3>1. InRecord'
      BY <1>1, <1>3, <2>5 DEF Rows, InRecord
    <3>2. InStage'
      BY <1>1, <1>3, <2>5, <2>6 DEF Rows, InStage
    <3> QED BY <3>1, <3>2 DEF Rows
  <2>8. HeadHeld'
    <3>1. /\ \A s : FinalHead(s)' = heads'[s]
      BY <2>1, <2>2, NoPlanAfter
    <3> QED BY <2>1, <3>1 DEF HInv, HeadAfter, HeadHeld
  <2>9. Unapplied' /\ Owned'
    BY <2>1 DEF Unapplied, Owned
  <2> QED BY <1>4, <2>6, <2>7, <2>8, <2>9 DEF SInv
<1> QED BY <1>5, <1>6

(* A batch that does not fit leaves the heads and seals of the dry run     *)
(* behind: until the cache is cleared nothing more is said.                *)
LEMMA FindFailStores == ASSUME SInv, FindFail PROVE SInv'
<1>1. pc' = "failed" /\ copied' = copied
  BY DEF FindFail
<1> QED BY <1>1 DEF SInv, NothingCopied, OneSequence

-----------------------------------------------------------------------------
(* An edit between batches takes cells from groups; rows stay where they   *)
(* are.                                                                    *)
LEMMA EditStores ==
    ASSUME IInv, HInv', SInv, pc \in {"idle", "failed"}, pc' = "idle", EditOnly,
           \A c \in Cells : seqs[c] = {} => seqs'[c] = {},
           pc = "failed" => \A c \in Cells : seqs'[c] = {},
           OneSequence => \A c \in Cells : seqs'[c] \subseteq seqs[c]
    PROVE  SInv'
<1>1. /\ UNCHANGED <<sealed, batch, plan>> /\ plan = <<>> /\ plan' = <<>>
      /\ staged' = {c \in staged : seqs'[c] # {}}
      /\ recorded' = {c \in recorded : seqs'[c] # {}}
      /\ copied' = {g \in copied \cup Shared : \E c \in CellsOf(g) : seqs'[c] # {}}
  BY DEF EditOnly, EditRows, IInv, Phase
<1>2. /\ pc \notin DryRun /\ pc' \notin DryRun /\ Len(plan) = 0 /\ Len(plan') = 0
      /\ \A t : ~(t \in 1 .. 0)
  BY <1>1 DEF DryRun
<1>3. ASSUME NEW g \in Groups
      PROVE  /\ FilledAt(g, Stored)' = {c \in CellsOf(g) : seqs'[c] # {}}
             /\ FilledAt(g, Stored) = {c \in CellsOf(g) : seqs[c] # {}}
  BY <1>2 DEF FilledAt, CellsOf, Base
<1>4. Schedule' /\ \A g : Done(g)' /\ ~Planned(g)'
  BY <1>1, NoSchedule
<1>5. \A g : Done(g)
  BY <1>2 DEF Done
<1>6. ASSUME NEW g \in Groups, g \notin copied', NEW c \in CellsOf(g), seqs'[c] # {}
      PROVE  g \notin copied /\ c \in FilledAt(g, Stored) /\ pc # "failed"
  <2>1. c \in Cells
    BY GroupCells
  <2> QED BY <1>1, <1>3, <1>6, <2>1
<1>7. InRecord'
  <2> SUFFICES ASSUME NEW g \in Groups, g \notin copied', g > 0, sealed[g],
                      NEW c \in CellsOf(g), seqs'[c] # {}
               PROVE  c \in recorded'
    BY <1>1, <1>3 DEF InRecord
  <2> QED BY <1>1, <1>5, <1>6 DEF SInv, Rows, InRecord
<1>8. InStage'
  <2> SUFFICES ASSUME NEW g \in Groups, g \notin copied', g = 0 \/ ~sealed[g],
                      NEW c \in CellsOf(g), seqs'[c] # {}
               PROVE  c \in staged'
    BY <1>1, <1>3, <1>4 DEF InStage
  <2> QED BY <1>1, <1>6 DEF SInv, Rows, InStage
<1>9. HeadHeld'
  <2>1. /\ \A s : FinalHead(s)' = heads'[s]
    BY <1>1, <1>2, NoPlanAfter
  <2> QED BY <2>1 DEF HInv, HeadAfter, HeadHeld
<1>10. NothingCopied'
  <2> SUFFICES ASSUME OneSequence PROVE copied' = {}
    BY DEF NothingCopied, OneSequence
  <2>1. copied = {}
    BY DEF SInv, NothingCopied
  <2>2. Shared = {}
    BY GroupCells DEF Shared
  <2> QED BY <1>1, <2>1, <2>2
<1>11. Unapplied' /\ Owned'
  BY DEF Unapplied, Owned
<1> QED BY <1>4, <1>7, <1>8, <1>9, <1>10, <1>11 DEF SInv, Rows

(* A failed graph leaves the rows of the groups it does not clear.         *)
LEMMA GraphFailsStores ==
    ASSUME IInv, HInv', SInv, NEW S \in SUBSET Seqs, GraphFails(S) PROVE SInv'
<1>1. /\ pc \in {"store", "attend"} /\ pc' = "idle" /\ sealed' = sealed /\ plan' = <<>>
      /\ seqs' = [c \in Cells |-> seqs[c] \ S]
      /\ staged' = {c \in staged : seqs'[c] # {}}
      /\ recorded' = {c \in recorded : seqs'[c] # {}}
      /\ copied' = {g \in copied \cup Shared : \E c \in CellsOf(g) : seqs'[c] # {}}
  BY DEF GraphFails, EditRows
<1>2. /\ pc \notin DryRun /\ pc' \notin DryRun /\ Len(plan') = 0 /\ pc # "failed"
      /\ \A t : ~(t \in 1 .. 0)
  BY <1>1 DEF DryRun
<1>3. \A g \in Groups : FilledAt(g, Stored)' = {c \in CellsOf(g) : seqs'[c] # {}}
  BY <1>2 DEF FilledAt, CellsOf, Base
<1>4. Schedule' /\ \A g : Done(g)' /\ ~Planned(g)'
  BY <1>1, NoSchedule
<1>5. ASSUME NEW g \in Groups, g \notin copied', NEW c \in CellsOf(g), seqs'[c] # {}
      PROVE  g \notin copied /\ c \in FilledAt(g, Stored) /\ Done(g)
  <2>1. /\ g \notin copied /\ \A t \in 1 .. Len(plan) : Group(plan[t]) # g
        /\ c \in Cells /\ seqs'[c] = seqs[c]
    BY <1>5, FailLeaves
  <2>2. Group(c) = g
    BY GroupCells
  <2>3. \A t \in 1 .. Len(plan) : plan[t] # c
    BY <2>1, <2>2
  <2>4. c \in FilledAt(g, Stored)
    BY <1>2, <1>5, <2>1, <2>3 DEF FilledAt, Base
  <2> QED BY <2>1, <2>4 DEF Done
<1>6. InRecord'
  <2> SUFFICES ASSUME NEW g \in Groups, g \notin copied', g > 0, sealed[g],
                      NEW c \in CellsOf(g), seqs'[c] # {}
               PROVE  c \in recorded'
    BY <1>1, <1>3 DEF InRecord
  <2> QED BY <1>1, <1>2, <1>5 DEF SInv, Rows, InRecord
<1>7. InStage'
  <2> SUFFICES ASSUME NEW g \in Groups, g \notin copied', g = 0 \/ ~sealed[g],
                      NEW c \in CellsOf(g), seqs'[c] # {}
               PROVE  c \in staged'
    BY <1>1, <1>3, <1>4 DEF InStage
  <2> QED BY <1>1, <1>2, <1>5 DEF SInv, Rows, InStage
<1>8. HeadHeld'
  <2>1. \A s : FinalHead(s)' = heads'[s]
    BY <1>1, <1>2, NoPlanAfter
  <2> QED BY <1>1, <2>1 DEF HInv, HeadAfter, HeadHeld
<1>9. NothingCopied'
  <2> SUFFICES ASSUME OneSequence PROVE copied' = {}
    BY DEF NothingCopied, OneSequence
  <2>1. copied = {}
    BY DEF SInv, NothingCopied
  <2>2. Shared = {}
    BY <1>1, GroupCells DEF Shared
  <2> QED BY <1>1, <2>1, <2>2
<1>10. Unapplied' /\ Owned'
  BY <1>1 DEF Unapplied, Owned
<1> QED BY <1>4, <1>6, <1>7, <1>8, <1>9, <1>10 DEF SInv, Rows

(* clear empties every cell.                                               *)
LEMMA ClearStores == ASSUME IInv, HInv', SInv, clear PROVE SInv'
<1>1. /\ pc \in {"idle", "failed"} /\ pc' = "idle" /\ EditOnly
      /\ seqs' = [c \in Cells |-> {}]
  BY DEF clear
<1>2. \A c \in Cells : seqs'[c] = {}
  BY <1>1
<1> QED BY <1>1, <1>2, EditStores

(* seq_rm takes one sequence out of the cells from a position on.          *)
LEMMA SeqRmStores ==
    ASSUME IInv, HInv', SInv, NEW s \in Seqs, NEW p0 \in 0 .. MaxLen - 1, seq_rm(s, p0)
    PROVE  SInv'
<1>1. /\ pc = "idle" /\ pc' = "idle" /\ EditOnly
      /\ seqs' = Without(s, {c \in Cells : pos[c] >= p0})
  BY DEF seq_rm
<1>2. \A c \in Cells : seqs'[c] \subseteq seqs[c]
  BY <1>1 DEF Without
<1> QED BY <1>1, <1>2, EditStores

(* seq_keep takes all the others out.                                      *)
LEMMA SeqKeepStores == ASSUME IInv, HInv', SInv, NEW s \in Seqs, seq_keep(s) PROVE SInv'
<1>1. /\ pc = "idle" /\ pc' = "idle" /\ EditOnly /\ seqs' = [c \in Cells |-> seqs[c] \cap {s}]
  BY DEF seq_keep
<1>2. \A c \in Cells : seqs'[c] \subseteq seqs[c]
  BY <1>1
<1> QED BY <1>1, <1>2, EditStores

(* seq_cp adds a sequence to cells that have one.                          *)
LEMMA SeqCpStores ==
    ASSUME IInv, HInv', SInv, NEW src \in Seqs, NEW dst \in Seqs, seq_cp(src, dst)
    PROVE  SInv'
<1>1. /\ pc = "idle" /\ pc' = "idle" /\ EditOnly /\ src # dst
      /\ LET bare == Without(dst, Cells) IN
           seqs' = [c \in Cells |-> IF src \in bare[c] THEN bare[c] \cup {dst} ELSE bare[c]]
  BY DEF seq_cp
<1>2. \A c \in Cells : seqs[c] = {} => seqs'[c] = {}
  BY <1>1 DEF Without
<1>3. ~OneSequence
  BY <1>1 DEF OneSequence
<1> QED BY <1>1, <1>2, <1>3, EditStores

(* In an empty cache there is nothing to lose.                             *)
LEMMA InitStores == Init => SInv
<1> SUFFICES ASSUME Init PROVE SInv
  OBVIOUS
<1>1. /\ seqs = [c \in Cells |-> {}] /\ heads = [s \in Seqs |-> 0] /\ pc = "idle"
      /\ plan = <<>> /\ copied = {}
  BY DEF Init
<1>2. pc \notin DryRun /\ Len(plan) = 0 /\ \A t : ~(t \in 1 .. 0)
  BY <1>1 DEF DryRun
<1>3. Schedule
  BY <1>2 DEF Schedule, SlotFree, RowByRow, OneOpen, SealedFull, Planned
<1>4. Rows
  <2>1. \A g \in Groups : FilledAt(g, Stored) = {}
    BY <1>1, <1>2, GroupCells DEF FilledAt, Base
  <2> QED BY <2>1 DEF Rows, InRecord, InStage
<1>5. HeadHeld /\ Unapplied /\ Owned /\ NothingCopied
  BY <1>1 DEF HeadHeld, Unapplied, Owned, NothingCopied
<1> QED BY <1>3, <1>4, <1>5 DEF SInv

-----------------------------------------------------------------------------
(* A small ubatch has too few tokens to fill a group.                      *)
LEMMA NeverFillsHere ==
    ASSUME IInv, SmallUbatches, pc = "find", NEW c
    PROVE  ~fills_here(c)
<1>1. PICK u \in Nat, f \in Nat, l \in Nat :
         /\ u = UbatchOf(at) /\ f = FirstOf(u) /\ l = LastOf(u)
         /\ 1 <= f /\ f <= at /\ at <= l /\ l <= Len(batch)
         /\ at \in Nat /\ Len(batch) \in Nat /\ Len(plan) = at - 1
         /\ Placed = f .. at - 1 /\ Applied = f - 1 /\ TokensOf(u) = f .. l
         /\ \A v \in f .. l : UbatchOf(v) = u
  BY FindAt
<1>2. Len(batch) <= MaxBatch /\ MaxBatch \in Nat /\ G \in Nat /\ NUbatch \in Nat
  BY AllocAssumption DEF IInv, TypeOK
<1>3. f \in Nat /\ l \in Nat /\ at \in Nat /\ f <= at /\ at <= l /\ l <= Len(batch) /\ 1 <= f
  BY <1>1
<1>4. l <= f - 1 + NUbatch
  <2>1. PICK k \in Nat : k = u * NUbatch /\ (u + 1) * NUbatch = k + NUbatch
    BY <1>1, <1>2
  <2>2. f = k + 1 /\ l = IF k + NUbatch <= Len(batch) THEN k + NUbatch ELSE Len(batch)
    BY <1>1, <2>1 DEF FirstOf, LastOf
  <2> QED BY <1>2, <1>3, <2>1, <2>2
<1>5. l - at + 1 < G
  <2>1. CASE NUbatch < G
    BY <1>2, <1>4, <1>3, <2>1
  <2>2. CASE MaxBatch < G
    BY <1>2, <1>3, <2>2
  <2> QED BY <2>1, <2>2 DEF SmallUbatches
<1> QED BY <1>1, <1>2, <1>5 DEF fills_here

(* A token never goes to a group that is sealed with something in it.      *)
LEMMA NotSealed ==
    ASSUME IInv, pc = "find", NEW c, NEW s, NEW g \in Groups, TokenGoes(c, s, g), g > 0
    PROVE  ~sealed[g] /\ Filled(g) # CellsOf(g) /\ (Filled(g) # {} => Incomplete(g))
<1>1. Filled(g) # CellsOf(g)
  BY DEF TokenGoes
<1>2. Filled(g) \in SUBSET CellsOf(g) /\ group_used(g) = Cardinality(Filled(g))
  BY GroupUsed DEF Filled
<1>3. /\ Cardinality(Filled(g)) \in Nat /\ (Cardinality(Filled(g)) = 0 <=> Filled(g) = {})
      /\ Cardinality(Filled(g)) >= G <=> Filled(g) = CellsOf(g)
  BY <1>2, Counted
<1>4. ~sealed_partial(g)
  BY DEF TokenGoes, acceptable
<1>5. ~sealed[g]
  <2> SUFFICES ASSUME sealed[g] PROVE FALSE
    OBVIOUS
  <2>1. Filled(g) # {}
    BY DEF IInv, SlotsOwned
  <2>2. group_used(g) \in 1 .. G - 1
    BY <1>1, <1>2, <1>3, <2>1, AllocAssumption
  <2> QED BY <1>4, <2>2 DEF sealed_partial
<1> QED BY <1>1, <1>5 DEF Incomplete

(* A token goes to the next row of its group.                              *)
LEMMA GoesToNextRow ==
    ASSUME IInv, IInv', HInv, pc = "find", NEW c \in Cells, NEW s \in Seqs, NEW g \in Groups,
           TokenGoes(c, s, g), batch' = batch, g > 0, g \notin copied
    PROVE  Filled(g)' = G * g .. c
<1>1. /\ s = batch[at] /\ g = Group(c) /\ c \in CellsOf(g) /\ acceptable(c, s)
      /\ c - 1 \in Cells /\ acceptable(c - 1, s) => c = head_cur(s)
      /\ Filled(g)' = Filled(g) \cup {c}
  BY DEF TokenGoes
<1>2. PICK a \in Nat : a = G * g /\ G \in Nat \ {0, 1} /\ CellsOf(g) = a .. a + G - 1
  BY AllocAssumption DEF Groups, CellsOf
<1>3. CASE Filled(g) = {}
  <2>1. c = a
    BY <1>1, <1>2, <1>3, BeginsAtRowZero DEF HInv
  <2> QED BY <1>1, <1>2, <1>3, <2>1
<1>4. CASE Filled(g) # {}
  <2>1. PICK x \in Filled(g) : TRUE
    BY <1>4
  <2>2. PICK r \in Seqs : Holds(r, x) /\ x \in CellsOf(g) /\ x \in Cells
    BY <2>1, FilledHeld
  <2>3. r = s
    <3>1. Claims(r, g) /\ Claims(s, g)'
      <4>1. Claims(r, g)
        BY <2>2, HoldsClaims
      <4>2. at \in 1 .. Len(plan') /\ Group(plan'[at]) = g /\ batch'[at] = s
        <5>1. at \in 1 .. at
          BY FindAt
        <5> QED BY <1>1, <5>1 DEF TokenGoes
      <4> QED BY <4>1, <4>2 DEF Claims
    <3>2. Claims(r, g)'
      <4>1. /\ Base' = Base /\ Len(plan') = at /\ Len(plan) = at - 1 /\ at \in Nat
            /\ \A t \in 1 .. at - 1 : plan'[t] = plan[t]
        BY FindAt DEF TokenGoes
      <4>2. \A t \in 1 .. at - 1 : t \in 1 .. at
        BY <4>1
      <4> QED BY <3>1, <4>1, <4>2 DEF Claims, CellsOf
    <3>3. \E t \in 1 .. Len(plan') : Group(plan'[t]) = g
      <4>1. at \in 1 .. at
        BY FindAt
      <4> QED BY <1>1, <4>1 DEF TokenGoes
    <3> QED BY <3>1, <3>2, <3>3 DEF IInv, OneClaim
  <2>4. Incomplete(g)
    BY <1>4, NotSealed
  <2>5. c = FinalHead(s) /\ Growing(s, g)
    BY <2>2, <2>3, <2>4, GoesToOwnGroup
  <2>6. \A d \in CellsOf(g) : d \in Filled(g) <=> d < c
    BY <2>5 DEF Growing
  <2>7. Filled(g) \subseteq CellsOf(g)
    BY DEF Filled
  <2> QED BY <1>1, <1>2, <2>6, <2>7
<1> QED BY <1>3, <1>4

(* find_slot places a token; when that takes a stage slot, no incomplete   *)
(* group is in it.                                                         *)
LEMMA FindTokenStores ==
    ASSUME StageKept, IInv, IInv', HInv, SInv, FindToken PROVE SInv'
<1>1. /\ pc = "find" /\ pc' \in {"find", "emplace"} /\ pc # "failed"
      /\ UNCHANGED <<pos, seqs, heads, staged, recorded, batch, saved, copied>>
  BY DEF FindToken, payload
<1>2. /\ at \in Nat /\ 1 <= at /\ Len(plan) = at - 1 /\ Len(batch) \in Nat /\ at <= Len(batch)
      /\ at \in 1 .. at /\ \A t \in 1 .. at : t = at \/ t \in 1 .. at - 1
      /\ \A t \in 1 .. at - 1 : t \in 1 .. at /\ t < at
  <2>1. /\ at \in Nat /\ 1 <= at /\ Len(plan) = at - 1 /\ Len(batch) \in Nat /\ at <= Len(batch)
    BY <1>1 DEF IInv, Phase, TypeOK
  <2> QED BY <2>1
<1>3. PICK c \in Cells, s \in Seqs, g \in Groups : TokenGoes(c, s, g)
  BY TokenEffect
<1>4. /\ s = batch[at] /\ g = Group(c) /\ c \in CellsOf(g) /\ Len(plan') = at /\ plan'[at] = c
      /\ \A t \in 1 .. at - 1 : plan'[t] = plan[t] /\ plan[t] \in Cells /\ plan[t] # c
      /\ Base[c] = {} /\ Base' = Base
      /\ Filled(g)' = Filled(g) \cup {c} /\ c \notin Filled(g)
      /\ \A h \in Groups : h # g => Filled(h)' = Filled(h) /\ sealed'[h] = sealed[h]
      /\ g > 0 => (sealed'[g] <=> sealed[g] \/ Filled(g)' = CellsOf(g))
  BY <1>3 DEF TokenGoes
<1>5. Schedule /\ Rows /\ HeadHeld /\ Owned
  BY <1>1 DEF SInv
<1>6. g > 0 => ~sealed[g] /\ Filled(g) # CellsOf(g) /\ (Filled(g) # {} => Incomplete(g))
  BY <1>1, <1>3, NotSealed
<1>7. ASSUME NEW h \in Groups, NEW n \in Int, n < at PROVE FilledAt(h, n)' = FilledAt(h, n)
  <2>1. ASSUME NEW d \in CellsOf(h) PROVE d \in FilledAt(h, n)' <=> d \in FilledAt(h, n)
    <3>1. CASE d = c
      <4>1. d \notin FilledAt(h, n)
        BY <1>2, <1>4, <3>1 DEF FilledAt
      <4>2. d \notin FilledAt(h, n)'
        <5>1. \A t \in 1 .. at : plan'[t] = c => t = at
          BY <1>2, <1>4
        <5>2. \E t \in 1 .. at : plan'[t] = c
          BY <1>2, <1>4
        <5>3. ~(at <= n)
          BY <1>2, <1>7
        <5> QED BY <1>4, <3>1, <5>1, <5>2, <5>3 DEF FilledAt
      <4> QED BY <4>1, <4>2
    <3>2. CASE d # c
      <4>1. \A t \in 1 .. at : plan'[t] = d <=> t \in 1 .. at - 1 /\ plan[t] = d
        BY <1>2, <1>4, <3>2
      <4> QED BY <1>2, <1>4, <2>1, <4>1 DEF FilledAt, CellsOf
    <3> QED BY <3>1, <3>2
  <2>2. FilledAt(h, n) \subseteq CellsOf(h) /\ FilledAt(h, n)' \subseteq CellsOf(h)
    BY DEF FilledAt, CellsOf
  <2> QED BY <2>1, <2>2
<1>8. PICK k \in Int : k = at
  BY <1>2
<1>9. ASSUME NEW h \in Groups PROVE FilledAt(h, k)' = Filled(h)'
  <2>1. \A t \in 1 .. at : t <= k
    BY <1>2, <1>8
  <2> QED BY <1>4, <2>1 DEF FilledAt, Filled, CellsOf
<1>10. \A h \in Groups : Planned(h)' <=> Planned(h) \/ h = g
  <2> SUFFICES ASSUME NEW h \in Groups PROVE Planned(h)' <=> Planned(h) \/ h = g
    OBVIOUS
  <2>1. Planned(h)' <=> \E t \in 1 .. at : Group(plan'[t]) = h
    BY <1>4 DEF Planned, Group
  <2>2. Planned(h) <=> \E t \in 1 .. at - 1 : Group(plan'[t]) = h
    BY <1>2, <1>4 DEF Planned
  <2> QED BY <1>2, <1>4, <2>1, <2>2
<1>11. ASSUME NEW h \in Groups, h > 0, NEW n \in Int, n < at, Settled(h, n)
       PROVE  Settled(h, n)'
  <2>1. CASE FilledAt(h, n) = {} \/ FilledAt(h, n) = CellsOf(h)
    BY <1>7, <1>11, <2>1 DEF Settled, CellsOf
  <2>2. CASE sealed[h] /\ ~Planned(h)
    <3>1. h # g
      BY <1>6, <1>11, <2>2
    <3> QED BY <1>4, <1>10, <2>2, <3>1 DEF Settled
  <2> QED BY <1>11, <2>1, <2>2 DEF Settled
<1>12. ASSUME NEW h \in Groups, h > 0, h # g, ~Settled(h, k)' PROVE Incomplete(h)
  <2>1. Filled(h) # {} /\ Filled(h) # CellsOf(h) /\ ~(sealed[h] /\ ~Planned(h))
    BY <1>4, <1>9, <1>10, <1>12 DEF Settled, CellsOf
  <2>2. ~sealed[h]
    BY <1>5, <1>12, <2>1 DEF Schedule, SealedFull
  <2> QED BY <1>12, <2>1, <2>2 DEF Incomplete
<1>13. ASSUME NEW h \in Groups, h # g, h \notin copied, Incomplete(h), NEW d \in CellsOf(h)
       PROVE  ~Holds(s, d)
  BY <1>1, <1>3, <1>13, GoesToOwnGroup
<1>14. SlotFree'
  <2> SUFFICES ASSUME NEW t \in 1 .. at, NEW h \in Groups, h > 0, h # Group(plan'[t]),
                      stage_slot(h) = stage_slot(Group(plan'[t]))
               PROVE  Settled(h, t)'
    BY <1>4 DEF SlotFree, stage_slot
  <2>1. CASE t \in 1 .. at - 1
    <3>1. Settled(h, t)
      BY <1>2, <1>4, <1>5, <2>1 DEF Schedule, SlotFree
    <3> QED BY <1>2, <1>11, <2>1, <3>1
  <2>2. CASE t = at
    <3>1. h # g /\ stage_slot(h) = stage_slot(g)
      BY <1>4, <2>2
    <3>2. SUFFICES ASSUME ~Settled(h, k)' PROVE FALSE
      BY <1>8, <2>2
    <3>3. Incomplete(h)
      BY <1>12, <3>1, <3>2
    <3>4. g > 0
      <4>1. g # 0
        BY <3>1, RingSlot DEF stage_slot
      <4> QED BY <4>1, AllocAssumption DEF Groups
    <3>5. CASE SmallUbatches
      <4>1. owners[stage_slot(h)] = h /\ (Incomplete(g) => owners[stage_slot(g)] = g)
        BY <1>1, <1>5, <3>3, <3>5 DEF Owned
      <4>2. Filled(g) = {}
        BY <1>6, <3>1, <3>4, <4>1
      <4>3. h # NoGroup
        BY AllocAssumption DEF NoGroup, Groups
      <4>4. slot_taken(g)
        BY <3>1, <4>1, <4>3 DEF slot_taken
      <4>5. ~fills_here(c)
        BY <1>1, <3>5, NeverFillsHere
      <4> QED BY <1>3, <1>4, <4>2, <4>4, <4>5 DEF TokenGoes, acceptable
    <3>6. CASE OneSequence
      <4>1. PICK x \in Filled(h) : TRUE
        BY <3>3 DEF Incomplete
      <4>2. PICK r \in Seqs : Holds(r, x) /\ x \in CellsOf(h)
        BY <4>1, FilledHeld
      <4>3. r = s /\ h \notin copied
        BY <3>6 DEF OneSequence, SInv, NothingCopied
      <4> QED BY <1>13, <3>1, <3>3, <4>2, <4>3
    <3> QED BY <3>5, <3>6 DEF StageKept
  <2> QED BY <1>2, <2>1, <2>2
<1>15. RowByRow'
  <2> SUFFICES ASSUME NEW t \in 1 .. at, NEW h \in Groups, h \notin copied, h > 0,
                      plan'[t] \in CellsOf(h)
               PROVE  FilledAt(h, t)' = G * h .. plan'[t]
    BY <1>1, <1>4 DEF RowByRow, CellsOf
  <2>1. CASE t \in 1 .. at - 1
    <3>1. FilledAt(h, t) = G * h .. plan[t]
      BY <1>2, <1>4, <1>5, <2>1 DEF Schedule, RowByRow
    <3>2. FilledAt(h, t)' = FilledAt(h, t)
      BY <1>2, <1>7, <2>1
    <3> QED BY <1>4, <2>1, <3>1, <3>2
  <2>2. CASE t = at
    <3>1. h = g
      BY <1>4, <2>2, GroupCells
    <3>2. Filled(g)' = G * g .. c
      BY <1>1, <1>3, <3>1, GoesToNextRow
    <3> QED BY <1>4, <1>9, <1>8, <2>2, <3>1, <3>2
  <2> QED BY <1>2, <2>1, <2>2
<1>16. \A o \in Seqs, d \in Cells : Holds(o, d)' <=> Holds(o, d) \/ (o = s /\ d = c)
  <2> SUFFICES ASSUME NEW o \in Seqs, NEW d \in Cells
               PROVE  Holds(o, d)' <=> Holds(o, d) \/ (o = s /\ d = c)
    OBVIOUS
  <2>1. Holds(o, d)' <=> o \in Base[d] \/ \E t \in 1 .. at : plan'[t] = d /\ batch[t] = o
    BY <1>1, <1>4 DEF Holds
  <2>2. Holds(o, d) <=> o \in Base[d] \/ \E t \in 1 .. at - 1 : plan'[t] = d /\ batch[t] = o
    BY <1>2, <1>4 DEF Holds
  <2> QED BY <1>2, <1>4, <2>1, <2>2
<1>17. OneOpen'
  <2> SUFFICES ASSUME NEW t \in 1 .. at, NEW h \in Groups, h \notin copied, h > 0,
                      h # Group(plan'[t]), NEW d \in CellsOf(h), d \in FilledAt(h, t)',
                      NEW r \in Seqs, r = batch[t], Holds(r, d)'
               PROVE  Settled(h, t)'
    <3>1. \A t \in 1 .. at, h \in Groups : FilledAt(h, t)' \subseteq CellsOf(h)
      BY DEF FilledAt, CellsOf
    <3>2. \A t \in 1 .. at : batch'[t] \in Seqs /\ batch'[t] = batch[t]
      BY <1>1, <1>2 DEF IInv, TypeOK
    <3> QED BY <1>1, <1>4, <3>1, <3>2 DEF OneOpen, Holds
  <2>1. d \in Cells /\ Group(d) = h
    BY GroupCells
  <2>2. CASE t \in 1 .. at - 1
    <3>1. d \in FilledAt(h, t)
      BY <1>2, <1>7, <2>2
    <3>2. d # c
      <4>1. d \in Filled(h)
        BY <3>1, FilledAtBounds DEF IInv
      <4> QED BY <1>4, <2>1, <4>1
    <3>4. Holds(r, d)
      BY <1>16, <2>1, <3>2
    <3>5. Settled(h, t)
      BY <1>2, <1>4, <1>5, <2>2, <3>1, <3>4 DEF Schedule, OneOpen
    <3> QED BY <1>2, <1>11, <2>2, <3>5
  <2>3. CASE t = at
    <3>1. h # g /\ d # c
      BY <1>4, <2>1, <2>3
    <3>2. Holds(s, d)
      BY <1>4, <1>16, <2>1, <2>3, <3>1
    <3>3. ~Incomplete(h)
      BY <1>13, <3>1, <3>2
    <3> QED BY <1>12, <1>8, <2>3, <3>1, <3>3
  <2> QED BY <1>2, <2>2, <2>3
<1>18. SealedFull'
  <2> SUFFICES ASSUME NEW h \in Groups, h > 0, sealed'[h], Planned(h)'
               PROVE  Filled(h)' = CellsOf(h)
    BY DEF SealedFull, CellsOf
  <2>1. CASE h = g
    BY <1>4, <1>6, <2>1
  <2>2. CASE h # g
    BY <1>4, <1>5, <1>10, <2>2 DEF Schedule, SealedFull
  <2> QED BY <2>1, <2>2
<1>19. Owned'
  <2> SUFFICES ASSUME SmallUbatches, NEW h \in Groups, Incomplete(h)'
               PROVE  owners'[stage_slot(h)] = h
    BY DEF Owned, SmallUbatches, stage_slot
  <2>1. h > 0 /\ Filled(h)' # {} /\ Filled(h)' # CellsOf(h) /\ ~sealed'[h]
    BY DEF Incomplete, CellsOf
  <2>2. CASE h # g
    <3>1. Incomplete(h)
      BY <1>4, <2>1, <2>2 DEF Incomplete
    <3>2. owners[stage_slot(h)] = h
      BY <1>1, <1>5, <3>1 DEF Owned
    <3> QED BY <1>3, <2>2, <3>2 DEF TokenGoes
  <2>3. CASE h = g
    <3>1. owners'[stage_slot(g)] = IF Filled(g) = {} THEN g ELSE owners[stage_slot(g)]
      BY <1>1, <1>3, <2>1, <2>3, NeverFillsHere DEF TokenGoes
    <3>2. Filled(g) # {} => owners[stage_slot(g)] = g
      BY <1>1, <1>5, <1>6, <2>1, <2>3 DEF Owned
    <3> QED BY <2>3, <3>1, <3>2
  <2> QED BY <2>2, <2>3
<1>20. HeadHeld'
  BY <1>1, <1>5, <1>16 DEF HeadHeld
<1>21. Rows'
  <2>1. Stored = 0 /\ Stored' = 0
    BY <1>1 DEF Stored
  <2>2. ASSUME NEW h \in Groups
        PROVE  /\ FilledAt(h, Stored)' = FilledAt(h, Stored)
               /\ Done(h) <=> ~Planned(h)
               /\ Done(h)' <=> ~Planned(h)'
    <3>1. FilledAt(h, 0)' = FilledAt(h, 0)
      BY <1>2, <1>7
    <3>2. FilledAt(h, Stored)' = FilledAt(h, 0)'
      BY <2>1 DEF FilledAt
    <3>3. \A t \in 1 .. at : ~(t <= 0)
      BY <1>2
    <3> QED BY <1>2, <1>4, <2>1, <3>1, <3>2, <3>3 DEF Done, Planned
  <2>3. InRecord'
    <3> SUFFICES ASSUME NEW h \in Groups, h \notin copied, h > 0, sealed'[h], Done(h)'
                 PROVE  FilledAt(h, Stored) \subseteq recorded
      BY <1>1, <2>2 DEF InRecord
    <3>1. h # g /\ ~Planned(h)
      BY <1>10, <2>2
    <3> QED BY <1>4, <1>5, <2>2, <3>1 DEF Rows, InRecord
  <2>4. InStage'
    <3> SUFFICES ASSUME NEW h \in Groups, h \notin copied, h = 0 \/ ~sealed'[h] \/ ~Done(h)'
                 PROVE  FilledAt(h, Stored) \subseteq staged
      BY <1>1, <2>2 DEF InStage
    <3>1. CASE h # g
      BY <1>4, <1>5, <1>10, <2>2, <3>1 DEF Rows, InStage
    <3>2. CASE h = g
      <4>1. g = 0 \/ g > 0
        BY AllocAssumption DEF Groups
      <4> QED BY <1>5, <1>6, <3>2, <4>1 DEF Rows, InStage
    <3> QED BY <3>1, <3>2
  <2> QED BY <2>3, <2>4 DEF Rows
<1>22. NothingCopied' /\ Unapplied'
  BY <1>1 DEF SInv, NothingCopied, OneSequence, Unapplied
<1> QED BY <1>14, <1>15, <1>17, <1>18, <1>19, <1>20, <1>21, <1>22 DEF SInv, Schedule

-----------------------------------------------------------------------------
(* One step of the specification keeps the rows where attention looks.     *)
LEMMA StoresStep ==
    StageKept /\ IInv /\ IInv' /\ HInv /\ HInv' /\ SInv /\ [Next]_vars => SInv'
<1> SUFFICES ASSUME StageKept, IInv, IInv', HInv, HInv', SInv, [Next]_vars PROVE SInv'
  OBVIOUS
<1>1. CASE UNCHANGED vars
  <2>1. /\ UNCHANGED <<seqs, heads, sealed, owners, staged, recorded, pc, batch, plan, at, saved>>
        /\ copied' = copied
    BY <1>1 DEF vars
  <2>2. Schedule' <=> Schedule
    BY <2>1 DEF Schedule, SlotFree, RowByRow, OneOpen, SealedFull, Settled, FilledAt, Filled,
                Planned, Holds, Base, stage_slot, Group, CellsOf
  <2>3. Rows' <=> Rows
    BY <2>1 DEF Rows, InRecord, InStage, Done, Stored, FilledAt, Base, Group, CellsOf
  <2>4. Unapplied' <=> Unapplied
    BY <2>1 DEF Unapplied, Applied, FirstOf, LastOf, UbatchOf
  <2>5. (HeadHeld' <=> HeadHeld) /\ (NothingCopied' <=> NothingCopied)
    BY <2>1 DEF HeadHeld, Holds, Base, NothingCopied, OneSequence
  <2>6. Owned' <=> Owned
    BY <2>1 DEF Owned, Incomplete, Filled, Base, stage_slot, CellsOf, SmallUbatches
  <2> QED BY <2>1, <2>2, <2>3, <2>4, <2>5, <2>6 DEF SInv
<1>2. CASE DecodeStep
  BY <1>2, InitBatchStores, FindSeedStores, FindTokenStores, FindFailStores, EmplaceStores,
     RestoreStores, ApplyStores, StoreStores, AttendedStores DEF DecodeStep
<1>3. CASE clear
  BY <1>3, ClearStores
<1>4. CASE \E s \in Seqs, p0 \in 0 .. MaxLen - 1 : seq_rm(s, p0)
  BY <1>4, SeqRmStores
<1>5. CASE \E s \in Seqs : seq_keep(s)
  BY <1>5, SeqKeepStores
<1>6. CASE \E src, dst \in Seqs : seq_cp(src, dst)
  BY <1>6, SeqCpStores
<1>7. CASE FailStep
  BY <1>7, GraphFailsStores DEF FailStep
<1> QED BY <1>1, <1>2, <1>3, <1>4, <1>5, <1>6, <1>7 DEF Next, EditStep

(* If the stage is kept, so is the invariant of the rows.                  *)
THEOREM AllocRowsInvariant == ASSUME StageKept PROVE Spec => []SInv
<1>1. IInv /\ IInv' /\ HInv /\ HInv' /\ SInv /\ [Next]_vars => SInv'
  BY StoresStep
<1> QED BY <1>1, InitStores, AllocInvariant, AllocHeadInvariant, PTL DEF Spec

(* Between batches a sealed group lives in its record, for any cache, ring *)
(* and batch: find_slot never gives away the slot of a group that is not   *)
(* complete yet, so the stage holds all its rows when the last one comes.  *)
THEOREM AllocSealedLivesInRecords ==
    ASSUME StageKept PROVE Spec => []SealedLivesInRecords
<1>1. IInv /\ SInv => SealedLivesInRecords
  <2> SUFFICES ASSUME IInv, SInv, pc = "idle", NEW g \in Groups \ (copied \cup {0}), sealed[g],
                      NEW c \in CellsOf(g), seqs[c] # {}
               PROVE  c \in recorded
    BY DEF SealedLivesInRecords, is_empty
  <2>1. plan = <<>> /\ Len(plan) = 0 /\ \A t : ~(t \in 1 .. 0)
    BY DEF IInv, Phase
  <2>2. Done(g)
    BY <2>1 DEF Done
  <2>3. c \in FilledAt(g, Stored)
    BY <2>1 DEF FilledAt, Base, DryRun
  <2>4. g > 0
    BY AllocAssumption DEF Groups
  <2> QED BY <2>2, <2>3, <2>4 DEF SInv, Rows, InRecord
<1> QED BY <1>1, AllocInvariant, AllocRowsInvariant, PTL

(* A head inside a group is its sequence's.                                *)
LEMMA OwnHead ==
    ASSUME IInv, HeadHeld, NEW g \in Groups \ copied, NEW s \in Seqs, Claims(s, g),
           NEW o \in Seqs, heads[o] # 0, (heads[o] - 1) \div G = g
    PROVE  o = s
<1>1. PICK x : x = heads[o] - 1
  OBVIOUS
<1>2. x \in Cells /\ Holds(o, x)
  BY <1>1 DEF HeadHeld
<1>3. x \in CellsOf(g)
  BY <1>1, <1>2, CellGroup DEF Group
<1>4. Claims(o, g)
  BY <1>2, <1>3, HoldsClaims
<1> QED BY <1>4 DEF IInv, OneClaim

(* A head after the last row of a group is inside none.                    *)
LEMMA HeadRow ==
    ASSUME NEW g \in Groups, NEW x \in CellsOf(g), NEW h, h = x + 1
    PROVE  (h - 1) \div G = g /\ h # 0 /\ (h % G = 0 <=> x = G * g + G - 1)
<1>1. PICK a \in Nat : a = G * g /\ G \in Nat \ {0, 1} /\ CellsOf(g) = a .. a + G - 1 /\ g \in Nat
  BY AllocAssumption DEF Groups, CellsOf
<1>2. x \in Nat /\ a <= x /\ x <= a + G - 1
  BY <1>1
<1>3. h \in Nat /\ h # 0 /\ (h - 1) \div G = g
  <2>1. Group(x) = g
    BY GroupCells
  <2>2. h - 1 = x
    BY <1>2
  <2> QED BY <1>2, <2>1, <2>2 DEF Group
<1>4. PICK y \in Nat : y = h
  BY <1>3
<1>5. /\ y \div G \in Nat /\ y % G = y - G * (y \div G)
  BY <1>1, <1>4, DivMod
<1>6. CASE x = a + G - 1
  <2>1. y = G * (g + 1) /\ g + 1 \in Nat
    BY <1>1, <1>4, <1>6
  <2>2. G * (g + 1) <= y /\ y < G * (g + 1) + G
    BY <1>1, <1>4, <2>1
  <2>3. y \div G = g + 1
    BY <1>1, <1>4, <2>1, <2>2, DivUnique
  <2>4. y % G = 0
    BY <1>4, <1>5, <2>1, <2>3
  <2> QED BY <1>1, <1>2, <1>3, <1>4, <1>6, <2>4
<1>7. CASE x # a + G - 1
  <2>1. G * g <= y /\ y < G * g + G
    BY <1>1, <1>2, <1>4, <1>7
  <2>2. y \div G = g
    BY <1>1, <1>4, <2>1, DivUnique
  <2>3. y % G = y - a
    BY <1>1, <1>5, <2>2
  <2> QED BY <1>1, <1>2, <1>3, <1>4, <1>7, <2>3
<1> QED BY <1>6, <1>7

(* What attention reads of a cell is what was last stored for it: a group  *)
(* that a head is inside of has all its rows in the stage, and every other *)
(* one that has been begun is complete and has them in its record.         *)
LEMMA ReadsStored == IInv /\ HInv /\ SInv => ReadsWhatWasStored
<1> SUFFICES ASSUME IInv, HInv, SInv, pc = "attend", NEW t0 \in TokensOf(UbatchOf(at)),
                    NEW c \in CellsWith(batch[t0]), Group(c) \notin copied
             PROVE  Readable(c)
  BY DEF ReadsWhatWasStored
<1>1. /\ at \in 1 .. Len(plan) /\ at \in Nat /\ Len(plan) \in Nat /\ at = LastOf(UbatchOf(at))
      /\ Stored = at /\ Applied = at /\ Base = seqs /\ pc # "failed"
  BY DEF IInv, Phase, TypeOK, Stored, Applied, Base, DryRun
<1>2. t0 \in 1 .. Len(plan) /\ t0 <= at
  <2>1. PICK u \in Nat, f \in Nat, l \in Nat :
           /\ u = UbatchOf(at) /\ f = FirstOf(u) /\ l = LastOf(u)
           /\ f \in 1 .. at /\ l \in at .. Len(batch) /\ \A v \in f .. l : UbatchOf(v) = u
    BY <1>1, UbatchExists DEF IInv, Phase, TypeOK
  <2> QED BY <1>1, <2>1 DEF TokensOf
<1>3. PICK s \in Seqs, g \in Groups \ copied :
         /\ s = batch[t0] /\ g = Group(c) /\ c \in Cells /\ c \in CellsOf(g) /\ s \in seqs[c]
  BY <1>2, PlanType, CellGroup DEF IInv, CellsWith
<1>4. PICK tl \in 1 .. Len(plan) :
         /\ batch[tl] = s /\ tl <= at
         /\ \A v \in 1 .. Len(plan) : v <= at /\ batch[v] = s => v <= tl
  <2> DEFINE K == {t \in 1 .. Len(plan) : t <= at /\ batch[t] = s}
  <2>1. K \subseteq Nat /\ K # {} /\ \A k \in K : k <= at
    BY <1>1, <1>2, <1>3
  <2>2. PICK m : m = CHOOSE t \in K : \A v \in K : v <= t
    OBVIOUS
  <2>3. m \in K /\ \A v \in K : v <= m
    <3> HIDE DEF K
    <3> QED BY <1>1, <2>1, <2>2, LastChosen
  <2> QED BY <2>3
<1>5. PICK x \in Cells, k \in Groups :
         x = plan[tl] /\ k = Group(x) /\ x \in CellsOf(k) /\ heads[s] = x + 1
  <2>1. heads[s] = plan[tl] + 1
    BY <1>1, <1>4 DEF HInv, HeadsFollow
  <2> QED BY <2>1, PlanType, CellGroup DEF IInv
<1>6. /\ (heads[s] - 1) \div G = k /\ heads[s] # 0
      /\ heads[s] % G = 0 <=> x = G * k + G - 1
  BY <1>5, HeadRow
<1>7. Schedule /\ Rows /\ HeadHeld /\ Unapplied
  BY <1>1 DEF SInv
<1>8. ASSUME NEW v \in 1 .. Len(plan), plan[v] = c PROVE v <= tl
  <2>1. v <= at
    <3> SUFFICES ASSUME ~(v <= at) PROVE FALSE
      OBVIOUS
    <3>1. seqs[plan[v]] = {}
      BY <1>1, <1>7 DEF Unapplied
    <3> QED BY <1>3, <1>8, <3>1
  <2>2. seqs[c] = {batch[v]}
    BY <1>1, <1>8, <2>1 DEF IInv, Overlay
  <2> QED BY <1>3, <1>4, <2>1, <2>2
<1>9. c \in FilledAt(g, tl) /\ c \in FilledAt(g, Stored)
  <2>1. CASE \E v \in 1 .. Len(plan) : plan[v] = c
    <3>1. PICK v \in 1 .. Len(plan) : plan[v] = c
      BY <2>1
    <3>2. v <= tl /\ v <= at
      BY <1>1, <1>4, <1>8, <3>1
    <3> QED BY <1>1, <1>3, <3>1, <3>2 DEF FilledAt
  <2>2. CASE ~\E v \in 1 .. Len(plan) : plan[v] = c
    BY <1>1, <1>3, <2>2 DEF FilledAt
  <2> QED BY <2>1, <2>2
<1>10. Holds(s, c) /\ Claims(s, g)
  BY <1>1, <1>3 DEF Holds, Claims
<1>11. \A o \in Seqs : heads[o] # 0 /\ (heads[o] - 1) \div G = g => o = s
  BY <1>7, <1>10, OwnHead
<1>12. allocation_cell_uses_stage(c) <=> g = 0 \/ (k = g /\ x # G * k + G - 1)
  BY <1>3, <1>6, <1>11 DEF allocation_cell_uses_stage
<1>13. (\A t \in 1 .. Len(plan) : Group(plan[t]) = g => t <= tl) => Done(g)
  BY <1>1, <1>4 DEF Done
<1>14. CASE g = 0
  BY <1>7, <1>9, <1>12, <1>14 DEF Readable, Rows, InStage
<1>15. CASE g # 0 /\ k # g
  <2>1. g > 0
    BY <1>15, AllocAssumption DEF Groups
  <2>2. Settled(g, tl)
    BY <1>4, <1>5, <1>7, <1>9, <1>10, <1>15, <2>1 DEF Schedule, OneOpen
  <2>3. sealed[g] /\ \A t \in 1 .. Len(plan) : Group(plan[t]) = g => t <= tl
    BY <1>1, <1>9, <2>1, <2>2, SettledDone
  <2>4. c \in recorded
    BY <1>7, <1>9, <1>13, <2>1, <2>3 DEF Rows, InRecord
  <2> QED BY <1>12, <1>15, <2>4 DEF Readable
<1>16. CASE g # 0 /\ k = g
  <2>1. g > 0 /\ G \in Nat \ {0, 1} /\ G * g \in Nat
    BY <1>16, AllocAssumption DEF Groups
  <2>2. FilledAt(g, tl) = G * g .. x
    BY <1>5, <1>7, <1>16, <2>1 DEF Schedule, RowByRow
  <2>3. CASE x = G * g + G - 1
    <3>1. FilledAt(g, tl) = CellsOf(g)
      BY <2>2, <2>3 DEF CellsOf
    <3>2. sealed[g] /\ \A t \in 1 .. Len(plan) : Group(plan[t]) = g => t <= tl
      BY <1>1, <2>1, <3>1, FullDone
    <3>3. c \in recorded
      BY <1>7, <1>9, <1>13, <2>1, <3>2 DEF Rows, InRecord
    <3> QED BY <1>12, <1>16, <2>3, <3>3 DEF Readable
  <2>4. CASE x # G * g + G - 1
    <3>1. ~(sealed[g] /\ Done(g))
      <4> SUFFICES ASSUME sealed[g], Done(g) PROVE FALSE
        OBVIOUS
      <4>1. Filled(g) = CellsOf(g)
        BY <1>5, <1>7, <1>16, <2>1 DEF Schedule, SealedFull, Planned
      <4>2. PICK y \in CellsOf(g) : y = G * g + G - 1 /\ y \notin G * g .. x
        <5>1. x \in G * g .. G * g + G - 1
          BY <1>5, <1>16 DEF CellsOf
        <5> QED BY <2>1, <2>4, <5>1 DEF CellsOf
      <4>3. y \notin FilledAt(g, tl) /\ y \in Filled(g)
        BY <2>2, <4>1, <4>2
      <4>4. PICK t \in 1 .. Len(plan) : plan[t] = y /\ ~(t <= tl)
        BY <4>2, <4>3 DEF FilledAt, Filled
      <4>5. Group(plan[t]) = g
        BY <4>2, <4>4, GroupCells
      <4>6. t <= at
        BY <1>1, <4>5 DEF Done
      <4>7. batch[t] \in Seqs /\ Claims(batch[t], g)
        BY <4>5, PlanType DEF IInv, Claims
      <4>8. batch[t] = s
        BY <1>10, <4>7 DEF IInv, OneClaim
      <4> QED BY <1>4, <4>4, <4>6, <4>8
    <3>2. c \in staged
      BY <1>7, <1>9, <3>1 DEF Rows, InStage
    <3> QED BY <1>12, <1>16, <2>4, <3>2 DEF Readable
  <2> QED BY <2>3, <2>4
<1> QED BY <1>14, <1>15, <1>16

(* Attention reads what was stored, for any cache, ring and batch: the     *)
(* stage slot that a group takes is one that no other group needs, and     *)
(* allocation_cell_uses_stage tells from the heads alone which groups have *)
(* their rows there.                                                       *)
THEOREM AllocReadsWhatWasStored == ASSUME StageKept PROVE Spec => []ReadsWhatWasStored
  BY ReadsStored, AllocInvariant, AllocHeadInvariant, AllocRowsInvariant, PTL
=============================================================================
