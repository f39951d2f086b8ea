----------------------------- MODULE KvarnAlloc -----------------------------
(***************************************************************************)
(* The structured cell allocator of the KVarN cache in one unified stream: *)
(* the group branch of llama_kv_cache::find_slot, prepare/apply_ubatch     *)
(* around it, the sequence operations that move its heads, and where the   *)
(* rows it places physically live.                                         *)
(*                                                                         *)
(* Cells are grouped by G.  A group is written row by row to one slot of a *)
(* ring of F16 stage slots; when its last row arrives it is quantized into *)
(* its record.  Group 0 (the sink) has a slot of its own and is never      *)
(* recorded.  Attention reads a cell from the stage if the cell's group is *)
(* the sink or the group some sequence's head is inside of, and otherwise  *)
(* from the record.                                                        *)
(*                                                                         *)
(* Row contents are abstracted to the only thing that matters: `staged'    *)
(* and `recorded' are the occupied cells whose stage row, respectively     *)
(* record row, holds what was stored for the token now in the cell.        *)
(***************************************************************************)
EXTENDS Integers, FiniteSets, Sequences

CONSTANTS
    G,            \* cells in a group (KVAR_N_GROUP)
    NGroups,      \* groups of the cache
    StageGroups,  \* slots of the stage ring, the sink's not counted
    Seqs,         \* the sequences, n_seq_max of them
    NUbatch,      \* n_ubatch, the tokens of a full ubatch
    MaxBatch,     \* bound: tokens of a batch
    MaxLen        \* bound: tokens of a sequence

\* NUbatch stays below three groups: the sequential store, which the CPU
\* always uses and CUDA uses for ubatches of fewer than three groups.
ASSUME AllocAssumption ==
    /\ G \in Nat \ {0, 1} /\ IsFiniteSet(Seqs)
    /\ StageGroups \in Nat \ {0} /\ NGroups \in Nat /\ NGroups >= StageGroups
    /\ NUbatch \in 1..(3 * G - 1) /\ MaxBatch \in Nat \ {0} /\ MaxLen \in Nat \ {0}

NCells == G * NGroups
Cells == 0..NCells - 1
Groups == 0..NGroups - 1
Slots == 0..StageGroups
NoGroup == -1

VARIABLES
    pos,      \* cell positions, -1 in an empty cell
    seqs,     \* cell sequence sets
    heads,    \* allocation_seq_heads
    sealed,   \* allocation_group_sealed
    owners,   \* stage_owners, local to a find_slot call
    staged, recorded,
    pc,       \* where the decode of the current batch is
    batch,    \* the batch: the sequence of every token
    plan,     \* the cells found so far, one per token
    at,       \* the token the current phase is at
    saved,    \* the cells prepare() has to put back
    copied    \* history: groups that seq_cp has shared, until they are emptied

cellVars == <<pos, seqs>>
payload == <<staged, recorded>>
vars == <<pos, seqs, heads, sealed, owners, staged, recorded,
          pc, batch, plan, at, saved, copied>>

Group(c) == c \div G
Row(c) == c % G
CellsOf(g) == G * g .. G * g + G - 1
stage_slot(g) == IF g = 0 THEN 0 ELSE 1 + ((g - 1) % StageGroups)
is_empty(c) == seqs[c] = {}
Used(g) == Cardinality({c \in CellsOf(g) : ~is_empty(c)})
CellsWith(s) == {c \in Cells : s \in seqs[c]}
NoOwners == [t \in Slots |-> NoGroup]
NoBatch == <<>>

seq_pos_max(sq, ps, s) ==
    LET held == {ps[c] : c \in {d \in Cells : s \in sq[d]}} IN
    IF held = {} THEN -1 ELSE CHOOSE p \in held : \A q \in held : q <= p

\* Mutant: reset where the code rebuilds.
rebuilt_as_reset(sq, ps, s) == 0

\* rebuild_allocation_head: just after the newest cell, 0 when there is none.
rebuilt(sq, ps, s) ==
    LET held == {c \in Cells : s \in sq[c]}
        newest == {c \in held : \A d \in held : ps[d] < ps[c] \/ (ps[d] = ps[c] /\ c <= d)}
    IN IF held = {} THEN 0 ELSE (CHOOSE c \in newest : TRUE) + 1

allocation_cell_uses_stage(c) ==
    \/ Group(c) = 0
    \/ \E s \in Seqs : /\ heads[s] # 0 /\ heads[s] % G # 0
                       /\ (heads[s] - 1) \div G = Group(c)

\* The cell is where attention will look for it.
Readable(c) == IF allocation_cell_uses_stage(c) THEN c \in staged ELSE c \in recorded

-----------------------------------------------------------------------------
\* The batch and its ubatches (split_simple).

UbatchOf(t) == (t - 1) \div NUbatch
FirstOf(u) == u * NUbatch + 1
LastOf(u) == IF (u + 1) * NUbatch <= Len(batch) THEN (u + 1) * NUbatch ELSE Len(batch)
TokensOf(u) == FirstOf(u)..LastOf(u)
\* The tokens of the current ubatch that find_slot has placed already.
Placed == FirstOf(UbatchOf(at))..at - 1

Init ==
    /\ pos = [c \in Cells |-> -1] /\ seqs = [c \in Cells |-> {}]
    /\ heads = [s \in Seqs |-> 0] /\ sealed = [g \in Groups |-> FALSE]
    /\ owners = NoOwners /\ staged = {} /\ recorded = {}
    /\ pc = "idle" /\ batch = NoBatch /\ plan = <<>> /\ at = 1
    /\ saved = <<>> /\ copied = {}

\* init_batch -> prepare: remember the cells and start on the first ubatch.
InitBatch ==
    /\ pc = "idle"
    /\ \E n \in 1..MaxBatch : \E b \in [1..n -> Seqs] :
        /\ \A s \in Seqs : seq_pos_max(seqs, pos, s)
                             + Cardinality({t \in 1..n : b[t] = s}) < MaxLen
        /\ batch' = b
    /\ pc' = "seed" /\ at' = 1 /\ plan' = <<>> /\ saved' = cellVars
    /\ UNCHANGED <<pos, seqs, heads, sealed, owners, payload, copied>>

\* Mutant: the seal of an emptied group sticks.
seededSeal_sticks == [g \in Groups |->
    IF g = 0 THEN sealed[0] ELSE Used(g) >= G \/ sealed[g]]

\* Which groups hold a stage slot at the start of a find_slot call: the live
\* incomplete ones.  Emptied groups lose their seal, full ones get one.
seededSeal == [g \in Groups |->
    IF g = 0 THEN sealed[0]
    ELSE IF Used(g) = 0 THEN FALSE ELSE Used(g) >= G \/ sealed[g]]

Live(g) == g > 0 /\ Used(g) \in 1..G - 1 /\ ~sealed[g]

FindSeed ==
    /\ pc = "seed"
    /\ IF \E g, h \in Groups : Live(g) /\ Live(h) /\ g # h /\ stage_slot(g) = stage_slot(h)
       THEN pc' = "alias" /\ UNCHANGED <<sealed, owners>>
       ELSE /\ pc' = "find"
            /\ sealed' = seededSeal
            /\ owners' = [t \in Slots |->
                  IF t = 0 THEN IF is_empty(0) THEN NoGroup ELSE 0
                  ELSE IF \E g \in Groups : Live(g) /\ stage_slot(g) = t
                       THEN CHOOSE g \in Groups : Live(g) /\ stage_slot(g) = t
                       ELSE NoGroup]
    /\ UNCHANGED <<pos, seqs, heads, payload, batch, plan, at, saved, copied>>

\* group_used, counting what this call has reserved.
group_used(g) == Used(g) + Cardinality({t \in Placed : Group(plan[t]) = g})

\* The whole ubatch belongs to one sequence.
ubatch_one_seq ==
    \A t, v \in TokensOf(UbatchOf(at)) : batch[t] = batch[v]

fills_here(c) ==
    /\ ubatch_one_seq /\ Group(c) > 0 /\ Row(c) = 0
    /\ LastOf(UbatchOf(at)) - at + 1 >= G

\* Mutant: the cells reserved by this very call are not looked at.
compatible_without_claims(c, s) ==
    \A d \in CellsOf(Group(c)) : ~is_empty(d) => seqs[d] = {s}

\* No token of another sequence has been placed in the group, by this call or
\* before it.
compatible(c, s) ==
    /\ \A t \in Placed : Group(plan[t]) = Group(c) => batch[t] = s
    /\ \A d \in CellsOf(Group(c)) : ~is_empty(d) => seqs[d] = {s}

\* Mutants: sealed groups are continued; the ring is not consulted.
sealed_partial_ignored(g) == FALSE
slot_taken_ignored(g) == FALSE

\* Rows of a sealed group are in its record: it cannot be continued.
sealed_partial(g) == g > 0 /\ group_used(g) \in 1..G - 1 /\ sealed[g]

slot_taken(g) == owners[stage_slot(g)] \notin {NoGroup, g}

acceptable(c, s) ==
    /\ is_empty(c) /\ \A t \in Placed : plan[t] # c
    /\ compatible(c, s)
    /\ ~sealed_partial(Group(c))
    /\ ~(group_used(Group(c)) = 0 /\ ~fills_here(c) /\ slot_taken(Group(c)))

\* The head the scan starts from: where this call left it, else the stored one.
head_cur(s) ==
    LET mine == {t \in Placed : batch[t] = s} IN
    IF mine = {} THEN heads[s]
    ELSE plan[CHOOSE t \in mine : \A v \in mine : v <= t] + 1

Distance(from, c) == (c - from) % NCells

FindToken ==
    /\ pc = "find"
    /\ LET s == batch[at]
           from == head_cur(s)
           fit == {c \in Cells : acceptable(c, s)}
           c == CHOOSE c \in fit : \A d \in fit : Distance(from, c) <= Distance(from, d)
           g == Group(c)
           t == stage_slot(g)
           new == group_used(g) = 0
           taken == [owners EXCEPT ![t] = IF new /\ ~fills_here(c) THEN g ELSE @]
           full == g > 0 /\ group_used(g) + 1 = G
       IN /\ fit # {}
          /\ plan' = Append(plan, c)
          /\ sealed' = [sealed EXCEPT ![g] = @ \/ full]
          /\ owners' = [taken EXCEPT ![t] = IF full /\ @ = g THEN NoGroup ELSE @]
    /\ IF at = LastOf(UbatchOf(at))
       THEN pc' = "emplace" /\ at' = FirstOf(UbatchOf(at))
       ELSE pc' = "find" /\ at' = at + 1
    /\ UNCHANGED <<pos, seqs, heads, payload, batch, saved, copied>>

\* No cell for a token: prepare() puts the cells back and gives up the batch.
FindFail ==
    /\ pc = "find"
    /\ \A c \in Cells : ~acceptable(c, batch[at])
    /\ pos' = saved[1] /\ seqs' = saved[2]
    /\ pc' = "failed" /\ owners' = NoOwners
    /\ batch' = NoBatch /\ plan' = <<>> /\ at' = 1 /\ saved' = <<>>
    /\ UNCHANGED <<heads, sealed, payload, copied>>

\* apply_ubatch: put the tokens of ubatch u into their cells.  A token takes
\* the position after its sequence's last.
NewPos(u, t) == seq_pos_max(seqs, pos, batch[t])
                  + Cardinality({v \in TokensOf(u) : v <= t /\ batch[v] = batch[t]})

newHeads(u) == [s \in Seqs |->
    LET mine == {t \in TokensOf(u) : batch[t] = s} IN
    IF mine = {} THEN heads[s]
    ELSE plan[CHOOSE t \in mine : \A v \in mine : v <= t] + 1]

apply_ubatch(u) ==
    LET tok(c) == CHOOSE t \in TokensOf(u) : plan[t] = c
        cells == {plan[t] : t \in TokensOf(u)}
    IN /\ pos' = [c \in Cells |-> IF c \in cells THEN NewPos(u, tok(c)) ELSE pos[c]]
       /\ seqs' = [c \in Cells |-> IF c \in cells THEN {batch[tok(c)]} ELSE seqs[c]]
       /\ heads' = newHeads(u)

\* prepare() emplaces a found ubatch before it looks for the next one.
Emplace ==
    /\ pc = "emplace" /\ LastOf(UbatchOf(at)) < Len(batch)
    /\ apply_ubatch(UbatchOf(at))
    /\ owners' = NoOwners
    /\ pc' = "seed" /\ at' = LastOf(UbatchOf(at)) + 1
    /\ UNCHANGED <<sealed, payload, batch, plan, saved, copied>>

\* After the last ubatch, which it emplaces too, prepare() puts the cells back.
Restore ==
    /\ pc = "emplace" /\ LastOf(UbatchOf(at)) = Len(batch)
    /\ heads' = newHeads(UbatchOf(at))
    /\ owners' = NoOwners
    /\ pos' = saved[1] /\ seqs' = saved[2] /\ saved' = <<>>
    /\ pc' = "apply" /\ at' = 1
    /\ UNCHANGED <<sealed, payload, batch, plan, copied>>

\* llama_kv_cache_context::apply, before the graph of the ubatch runs.
Apply ==
    /\ pc = "apply"
    /\ apply_ubatch(UbatchOf(at))
    /\ pc' = "store"
    /\ UNCHANGED <<sealed, owners, payload, batch, plan, at, saved, copied>>

SameRow(c) == {d \in Cells : /\ stage_slot(Group(d)) = stage_slot(Group(c))
                             /\ Row(d) = Row(c)}

\* The store kernel on one token: its stage row, and the record of the group
\* whose last row this is.
Store ==
    /\ pc = "store"
    /\ LET c == plan[at]
           g == Group(c)
           rows == (staged \ SameRow(c)) \cup {c}
       IN /\ staged' = rows
          /\ recorded' = IF Row(c) = G - 1 /\ g > 0
                         THEN (recorded \ CellsOf(g)) \cup (rows \cap CellsOf(g))
                         ELSE recorded \ {c}
    /\ IF at = LastOf(UbatchOf(at))
       THEN pc' = "attend" /\ UNCHANGED at
       ELSE pc' = "store" /\ at' = at + 1
    /\ UNCHANGED <<pos, seqs, heads, sealed, owners, batch, plan, saved, copied>>

\* Attention has read the cache; llama_kv_cache_context::next.
Attended ==
    /\ pc = "attend"
    /\ IF at = Len(batch)
       THEN pc' = "idle" /\ batch' = NoBatch /\ plan' = <<>> /\ at' = 1
       ELSE pc' = "apply" /\ at' = at + 1 /\ UNCHANGED <<batch, plan>>
    /\ UNCHANGED <<pos, seqs, heads, sealed, owners, payload, saved, copied>>

-----------------------------------------------------------------------------
\* Sequence operations, between batches.

\* The groups that an edit of the cells makes two sequences share.
Shared == {g \in Groups : \E c \in CellsOf(g) : ~(seqs'[c] \subseteq seqs[c])}

\* Rows of emptied cells stop counting.
EditRows ==
    /\ staged' = {c \in staged : seqs'[c] # {}}
    /\ recorded' = {c \in recorded : seqs'[c] # {}}
    /\ copied' = {g \in copied \cup Shared : \E c \in CellsOf(g) : seqs'[c] # {}}

\* What an edit of the cells leaves alone.
EditOnly == EditRows /\ UNCHANGED <<sealed, owners, batch, plan, at, saved>>

clear ==
    /\ pc \in {"idle", "failed"} /\ pc' = "idle"
    /\ pos' = [c \in Cells |-> -1] /\ seqs' = [c \in Cells |-> {}]
    /\ heads' = [s \in Seqs |-> 0]
    /\ EditOnly

\* Mutant: the position stays.
Blanked_keeps_pos(sq) == pos

\* Take sequence s out of the cells D and blank the cells that empties.
Without(s, D) == [c \in Cells |-> IF c \in D THEN seqs[c] \ {s} ELSE seqs[c]]
Blanked(sq) == [c \in Cells |-> IF sq[c] = {} THEN -1 ELSE pos[c]]

stream_is_exclusive_for(s) == \A o \in Seqs \ {s} : CellsWith(o) = {}

\* llama_kvarn_can_remove_range and the group-aligned widening, for [p0, end).
can_remove(s, p0) ==
    LET pos_max == seq_pos_max(seqs, pos, s)
        earliest_exact == IF pos_max \div G = 0 THEN 0 ELSE (pos_max \div G - 1) * G
    IN \/ pos_max < 0 \/ p0 = 0 \/ p0 >= earliest_exact
       \/ stream_is_exclusive_for(s) /\ p0 % G = 0

seq_rm(s, p0) ==
    /\ pc = "idle"
    /\ can_remove(s, p0)
    /\ seqs' = Without(s, {c \in Cells : pos[c] >= p0})
    /\ pos' = Blanked(seqs')
    /\ heads' = [heads EXCEPT ![s] = rebuilt(seqs', pos', s)]
    /\ UNCHANGED pc /\ EditOnly

seq_keep(s) ==
    /\ pc = "idle"
    /\ seqs' = [c \in Cells |-> seqs[c] \cap {s}]
    /\ pos' = Blanked(seqs')
    /\ heads' = [r \in Seqs |-> rebuilt(seqs', pos', r)]
    /\ UNCHANGED pc /\ EditOnly

\* server_slot::copy_state_to: the destination is emptied first.
seq_cp(src, dst) ==
    /\ pc = "idle" /\ src # dst
    /\ LET bare == Without(dst, Cells) IN
         seqs' = [c \in Cells |-> IF src \in bare[c] THEN bare[c] \cup {dst} ELSE bare[c]]
    /\ pos' = Blanked(seqs')
    /\ heads' = [heads EXCEPT ![dst] = rebuilt(seqs', pos', dst)]
    /\ UNCHANGED pc /\ EditOnly

\* The graph of a ubatch fails, whatever rows it has stored: decode() takes the
\* positions of the ubatch out again, and the server clears every slot that is
\* processing: those of the batch, S, perhaps with others.  The seals that the
\* dry run has set stay.
GraphFails(S) ==
    /\ pc \in {"store", "attend"} /\ pc' = "idle"
    /\ \A t \in 1..Len(batch) : batch[t] \in S
    /\ seqs' = [c \in Cells |-> seqs[c] \ S]
    /\ pos' = Blanked(seqs')
    /\ heads' = [s \in Seqs |-> IF s \in S THEN 0 ELSE heads[s]]
    /\ batch' = NoBatch /\ plan' = <<>> /\ at' = 1
    /\ UNCHANGED <<sealed, owners, saved>> /\ EditRows

\* The steps of llama_decode while its graphs compute, a graph that fails, and the
\* calls between two batches.
DecodeStep ==
    \/ InitBatch \/ FindSeed \/ FindToken \/ FindFail \/ Emplace \/ Restore
    \/ Apply \/ Store \/ Attended

FailStep == \E S \in SUBSET Seqs : GraphFails(S)

EditStep ==
    \/ clear
    \/ \E s \in Seqs, p0 \in 0..MaxLen - 1 : seq_rm(s, p0)
    \/ \E s \in Seqs : seq_keep(s)
    \/ \E src, dst \in Seqs : seq_cp(src, dst)

Next == DecodeStep \/ FailStep \/ EditStep

Spec == Init /\ [][Next]_vars
-----------------------------------------------------------------------------
\* The types of the variables; a cell has a position exactly when it is in some
\* sequence (Blanked).
TypeOK ==
    /\ pos \in [Cells -> -1..MaxLen - 1] /\ seqs \in [Cells -> SUBSET Seqs]
    /\ heads \in [Seqs -> 0..NCells] /\ sealed \in [Groups -> BOOLEAN]
    /\ owners \in [Slots -> Groups \cup {NoGroup}]
    /\ staged \subseteq Cells /\ recorded \subseteq Cells
    /\ pc \in {"idle", "seed", "find", "emplace", "apply", "store",
               "attend", "failed", "alias"}
    /\ batch \in Seq(Seqs) /\ Len(batch) <= MaxBatch
    /\ plan \in Seq(Cells) /\ Len(plan) <= Len(batch)
    /\ at \in 1..MaxBatch
    /\ \A c \in Cells : pos[c] = -1 <=> seqs[c] = {}

\* "structured KV live groups alias one F16 stage slot" is never thrown: two
\* live incomplete groups never need the same stage slot (find_slot's seed).
NoStageAlias == pc # "alias"

\* When a graph's attention runs, every cell of a sequence of the ubatch is
\* read from a place that holds the row last stored for it: the stage for the
\* groups allocation_cell_uses_stage picks, the record for the others.
ReadsWhatWasStored ==
    pc = "attend" =>
        \A t \in TokensOf(UbatchOf(at)) : \A c \in CellsWith(batch[t]) :
            Group(c) \notin copied => Readable(c)

\* Cells of one group belong to the same sequences (the compatibility test of
\* find_slot): otherwise none of them could complete the group.
OneSetPerGroup ==
    \A g \in Groups \ copied : \A c, d \in CellsOf(g) :
        ~is_empty(c) /\ ~is_empty(d) => seqs[c] = seqs[d]

\* Between batches a live incomplete group is the one the head of its sequence
\* is inside of; so there is at most one per sequence, and the ring of stage
\* slots (two per sequence) cannot run out.
LiveGroupHasHead ==
    pc = "idle" => \A g \in Groups \ copied : Live(g) =>
        \A c \in CellsOf(g) : \A s \in seqs[c] :
            heads[s] % G # 0 /\ (heads[s] - 1) \div G = g

\* Between batches a sealed group lives in its record: every occupied cell of
\* it has its row there (the comment on allocation_group_sealed in find_slot).
SealedLivesInRecords ==
    pc = "idle" => \A g \in Groups \ (copied \cup {0}) : sealed[g] =>
        \A c \in CellsOf(g) : ~is_empty(c) => c \in recorded
=============================================================================
