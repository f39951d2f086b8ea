------------------------------ MODULE KvPlace ------------------------------
(***************************************************************************)
(* Where llama_kv_cache puts the tokens of a batch: the ungrouped branch   *)
(* of find_slot, the dry run of prepare(), apply_ubatch with its purge of  *)
(* positions that fell out of the sliding window, and the sequence         *)
(* operations the server uses, for a unified cache (one stream) or one     *)
(* stream per sequence.  The index of the cells (seq_pos_min and so on) is *)
(* exact by KvCells!IndexExact and is computed from the cells here.        *)
(*                                                                         *)
(* decoded[s] is history: the next position of sequence s as its owner     *)
(* counts it; a cache without a bound would hold 0 .. decoded[s]-1.        *)
(* before is history: the cells when the batch came, until one of its      *)
(* ubatches is applied.  hurt is history: sequences that lost positions to *)
(* a dry run or were rolled back beyond what the window allows.            *)
(***************************************************************************)
EXTENDS Integers, Sequences, FiniteSets, SequencesExt, Ordinals

CONSTANTS NSeq,      (* n_seq_max                                          *)
          NSwa,      (* the sliding window, n_swa                          *)
          NUbatch,   (* n_ubatch                                           *)
          SizeBase,  (* cells of a stream of the cache without a window    *)
          MaxBatch,  (* bound: tokens of a batch                           *)
          MaxLen,    (* bound: positions of a sequence                     *)
          Unified    (* the values of kv_unified to look at                *)

ASSUME PlaceAssumption ==
    /\ {NSeq, NSwa, NUbatch, SizeBase, MaxBatch, MaxLen} \subseteq Nat \ {0}
    /\ NSeq <= NUbatch
    /\ Unified # {} /\ Unified \subseteq BOOLEAN

Seqs      == 0 .. NSeq - 1
Positions == 0 .. MaxLen - 1

VARIABLES unified,
          cells,    (* v_cells[stream][cell]: its position and sequences   *)
          heads,    (* v_heads[stream]                                     *)
          pc,
          batch,    (* the tokens <<seq, pos>> of the batch being prepared *)
          split,    (* the way init_batch is splitting it                  *)
          rest,     (* tokens not split into a ubatch yet                  *)
          stack,    (* the recovery stack of prepare()                     *)
          plan,     (* ubatches and slots found, not computed yet          *)
          decoded, before, hurt

vars == <<unified, cells, heads, pc, batch, split, rest, stack, plan, decoded, before, hurt>>
batchVars == <<batch, split, rest, stack, plan>>

Streams == IF unified THEN {0} ELSE Seqs
seq_to_stream(s) == IF unified THEN 0 ELSE s

(* size_swa, not rounded up to a multiple of 256.                           *)
NCells == LET swa == NSwa * (IF unified THEN NSeq ELSE 1) + NUbatch
          IN  IF SizeBase < swa THEN SizeBase ELSE swa
Cells  == 0 .. NCells - 1

Empty == [pos |-> -1, seqs |-> {}]

-----------------------------------------------------------------------------
(* Queries on the cells k of one stream.                                    *)

PosOf(k, s) == {k[c].pos : c \in {d \in Cells : s \in k[d].seqs}}
seq_pos_min(k, s) ==
    LET P == PosOf(k, s) IN IF P = {} THEN -1 ELSE CHOOSE p \in P : \A q \in P : p <= q
seq_pos_max(k, s) ==
    LET P == PosOf(k, s) IN IF P = {} THEN -1 ELSE CHOOSE p \in P : \A q \in P : p >= q
get_used(k) == Cardinality({c \in Cells : k[c] # Empty})

(* Position p0 is outside of the window of a token at p1, with the window  *)
(* of LLAMA_SWA_TYPE_STANDARD; NONE, CHUNKED and SYMMETRIC are left out.   *)
is_masked_swa(p0, p1) == p1 - p0 >= NSwa

(* The elements of a sequence at the indices of a set, in their order.     *)
Chosen(q, I) == [i \in 1 .. Cardinality(I) |-> q[Nth(I, i)]]

-----------------------------------------------------------------------------
(* Splitting.  A ubatch has for every stream the tokens that go there.      *)

TokensOf(s) == Chosen(rest, {i \in DOMAIN rest : rest[i][1] = s})

split_simple == [st \in {0} |-> SubSeq(rest, 1, IF Len(rest) < NUbatch THEN Len(rest) ELSE NUbatch)]

(* The sequences of an equal split: all that have tokens; with streams     *)
(* only as long as the tokens from the first one on lead to the next id.   *)
cur_seq_set ==
    IF unified THEN {t[1] : t \in Range(rest)}
    ELSE LET first == rest[1][1]
         IN  {s \in Seqs : s >= first /\ \E at \in [first .. s -> DOMAIN rest] :
                 /\ \A r \in first .. s : rest[at[r]][1] = r
                 /\ \A r \in first + 1 .. s : at[r - 1] < at[r]}

(* Their first tokens in the batch, in order.                              *)
FirstTokens == Chosen(rest, {i \in DOMAIN rest : \A j \in 1 .. i - 1 : rest[j][1] # rest[i][1]})

(* As many tokens of each as the shortest has and n_ubatch allows.          *)
n_seq_tokens ==
    LET room == {NUbatch \div Cardinality(cur_seq_set)}
                    \cup {Len(TokensOf(s)) : s \in cur_seq_set}
    IN  CHOOSE m \in room : \A k \in room : m <= k

split_equal ==
    LET n == n_seq_tokens
    IN  IF unified
        THEN [st \in {0} |-> [i \in 1 .. n * Len(FirstTokens) |->
                 LET k == (i - 1) \div n IN TokensOf(FirstTokens[k + 1][1])[i - k * n]]]
        ELSE [st \in cur_seq_set |-> SubSeq(TokensOf(st), 1, n)]

next_ubatch == IF split = "simple" THEN split_simple ELSE split_equal
TokenSet(ub) == UNION {Range(ub[st]) : st \in DOMAIN ub}

-----------------------------------------------------------------------------
(* find_slot.                                                              *)

(* Mutant: the window is measured from one position too far.               *)
can_use_early(k, c) ==
    \/ k[c] = Empty
    \/ \E s \in Seqs : k[c].seqs = {s} /\ is_masked_swa(k[c].pos, seq_pos_max(k, s) + 2)

can_use(k, c) ==
    \/ k[c] = Empty
    \/ \E s \in Seqs : k[c].seqs = {s} /\ is_masked_swa(k[c].pos, seq_pos_max(k, s) + 1)

head_cur(k, h, n) == IF h > get_used(k) + 2 * n THEN 0 ELSE h

(* Mutant: the search does not wrap around.                                *)
SearchOrder_no_wrap(h) == [i \in 1 .. NCells - h |-> h + i - 1]

(* The cells in the order in which they are tested.                        *)
SearchOrder(h) == [i \in 1 .. NCells |->
    IF h + i <= NCells THEN h + i - 1 ELSE h + i - 1 - NCells]

Usable(st, n) ==
    LET order == SearchOrder(head_cur(cells[st], heads[st], n))
    IN  Chosen(order, {i \in DOMAIN order : can_use(cells[st], order[i])})

Fits(ub) == \A st \in DOMAIN ub : Len(Usable(st, Len(ub[st]))) >= Len(ub[st])

find_slot(ub) == [st \in DOMAIN ub |-> SubSeq(Usable(st, Len(ub[st])), 1, Len(ub[st]))]

-----------------------------------------------------------------------------
(* apply_ubatch.                                                           *)

(* Take sequence s at the positions of P out of the cells k.               *)
Without(k, s, P) == [c \in Cells |->
    IF s \notin k[c].seqs \/ k[c].pos \notin P THEN k[c]
    ELSE IF k[c].seqs = {s} THEN Empty ELSE [k[c] EXCEPT !.seqs = @ \ {s}]]

(* If seq_rm freed cells the head moves back to the first of them.         *)
FreedHead(k, new, h) ==
    LET freed == {c \in Cells : k[c] # Empty /\ new[c] = Empty} \cup {h}
    IN  CHOOSE c \in freed : \A d \in freed : c <= d

Placed(k, toks, idxs) == [c \in Cells |->
    IF \E i \in DOMAIN idxs : idxs[i] = c
    THEN LET t == toks[CHOOSE i \in DOMAIN idxs : idxs[i] = c]
         IN  [pos |-> t[2], seqs |-> {t[1]}]
    ELSE k[c]]

(* seq_pos_max_rm: the last position of s that is overwritten, or -1.      *)
seq_pos_max_rm(k, idxs, s) ==
    LET P == {k[c].pos : c \in {d \in Range(idxs) : k[d].seqs = {s}}} \cup {-1}
    IN  CHOOSE p \in P : \A q \in P : p >= q

(* Mutants: positions below an overwritten one are left; a cell without    *)
(* sequences keeps its position.                                           *)
Purged_not(k, old, idxs) == k
Purged_keeps_pos(k, old, idxs) == [c \in Cells |->
    [k[c] EXCEPT !.seqs = {s \in @ : k[c].pos > seq_pos_max_rm(old, idxs, s)}]]

(* Every position up to the last overwritten one goes.  A position that is *)
(* overwritten is the only one of its cell, so sequences do not interfere. *)
Purged(k, old, idxs) == [c \in Cells |->
    LET gone == {s \in k[c].seqs : k[c].pos <= seq_pos_max_rm(old, idxs, s)}
    IN  IF k[c].seqs # {} /\ gone = k[c].seqs THEN Empty
        ELSE [k[c] EXCEPT !.seqs = @ \ gone]]

apply_ubatch(ub, idxs) ==
    /\ cells' = [st \in Streams |->
          IF st \notin DOMAIN ub THEN cells[st]
          ELSE Purged(Placed(cells[st], ub[st], idxs[st]), cells[st], idxs[st])]
    /\ heads' = [st \in Streams |->
          IF st \notin DOMAIN ub THEN heads[st] ELSE Last(idxs[st]) + 1]

-----------------------------------------------------------------------------
Init ==
    /\ unified \in Unified
    /\ cells = [st \in Streams |-> [c \in Cells |-> Empty]]
    /\ heads = [st \in Streams |-> 0]
    /\ pc = "idle" /\ batch = <<>> /\ split = "simple"
    /\ rest = <<>> /\ stack = <<>> /\ plan = <<>>
    /\ decoded = [s \in Seqs |-> 0] /\ before = <<>> /\ hurt = {}

(* llama_decode of the tokens b.  llama_batch_allocr::init refuses them if *)
(* the cache holds a last position that theirs do not follow.              *)
Decode(b) ==
    /\ pc = "idle" /\ pc' = "prepare"
    /\ \A s \in Range(b) :
          seq_pos_max(cells[seq_to_stream(s)], s) \in {-1, decoded[s] - 1}
    /\ rest' = [i \in DOMAIN b |->
          <<b[i], decoded[b[i]] + Cardinality({j \in 1 .. i - 1 : b[j] = b[i]})>>]
    /\ \A i \in DOMAIN b : rest'[i][2] < MaxLen
    /\ batch' = rest' /\ split' = IF unified THEN "simple" ELSE "equal"
    /\ before' = cells
    /\ UNCHANGED <<unified, cells, heads, stack, plan, decoded, hurt>>

(* Sequences of which the ubatch purges positions that are in no cell the  *)
(* recovery stack holds.                                                   *)
Bereft(ub, idxs) ==
    UNION {UNION {cells[st][c].seqs \ cells'[st][c].seqs : c \in Cells \ Range(idxs[st])}
             : st \in DOMAIN ub}

(* prepare(): find slots for the next ubatch, keep a copy of their cells   *)
(* and try the ubatch out.                                                 *)
Prepare ==
    /\ pc = "prepare" /\ rest # <<>>
    /\ LET ub == next_ubatch
           idxs == find_slot(ub)
       IN  /\ Fits(ub)
           /\ stack' = Append(stack, [ub |-> ub, idxs |-> idxs, heads |-> heads,
                 old |-> [st \in DOMAIN ub |-> [c \in Range(idxs[st]) |-> cells[st][c]]]])
           /\ rest' = Chosen(rest, {i \in DOMAIN rest : rest[i] \notin TokenSet(ub)})
           /\ apply_ubatch(ub, idxs)
           /\ hurt' = hurt \cup Bereft(ub, idxs)
    /\ UNCHANGED <<unified, pc, batch, split, plan, decoded, before>>

(* Mutant: the oldest copy is put back first.                              *)
Top_is_first == Head(stack)

Top == Last(stack)

Others == IF Top = Last(stack) THEN Front(stack) ELSE Tail(stack)

(* One level of the restore loop; head = it->v_heads_old[s] with s counting*)
(* the streams of the ubatch.                                              *)
PutBack ==
    /\ cells' = [st \in Streams |->
          IF st \notin DOMAIN Top.ub THEN cells[st]
          ELSE [c \in Cells |-> IF c \in DOMAIN Top.old[st] THEN Top.old[st][c]
                                ELSE cells[st][c]]]
    /\ heads' = [st \in Streams |->
          IF st \notin DOMAIN Top.ub THEN heads[st]
          ELSE Top.heads[OrdinalIn(st, DOMAIN Top.ub)]]
    /\ stack' = Others

NoBatch == batch' = <<>> /\ split' = "simple"

(* All ubatches fit: the slots are the plan.                               *)
Undo ==
    /\ pc = "prepare" /\ rest = <<>> /\ stack # <<>>
    /\ PutBack
    /\ plan' = <<[ub |-> Top.ub, idxs |-> Top.idxs]>> \o plan
    /\ IF Len(stack) = 1 THEN pc' = "apply" /\ NoBatch ELSE UNCHANGED <<pc, batch, split>>
    /\ UNCHANGED <<unified, rest, decoded, before, hurt>>

(* A ubatch does not fit.                                                  *)
NoSlot ==
    /\ pc = "prepare" /\ rest # <<>> /\ ~Fits(next_ubatch)
    /\ pc' = "failed"
    /\ UNCHANGED <<unified, cells, heads, batchVars, decoded, before, hurt>>

UndoFailed ==
    /\ pc = "failed" /\ stack # <<>>
    /\ PutBack
    /\ UNCHANGED <<unified, pc, batch, split, rest, plan, decoded, before, hurt>>

(* After a simple split init_batch tries an equal one, then it gives up.   *)
SplitAgain ==
    /\ pc = "failed" /\ stack = <<>> /\ split = "simple"
    /\ pc' = "prepare" /\ split' = "equal" /\ rest' = batch
    /\ UNCHANGED <<unified, cells, heads, batch, stack, plan, decoded, before, hurt>>

GiveUp ==
    /\ pc = "failed" /\ stack = <<>> /\ split = "equal"
    /\ pc' = "idle" /\ rest' = <<>> /\ NoBatch
    /\ UNCHANGED <<unified, cells, heads, stack, plan, decoded, before, hurt>>

(* llama_kv_cache_context::apply, then the graph of the ubatch runs.       *)
Apply ==
    /\ pc = "apply" /\ pc' = "compute"
    /\ apply_ubatch(plan[1].ub, plan[1].idxs)
    /\ before' = <<>>
    /\ UNCHANGED <<unified, batchVars, decoded, hurt>>

Computed ==
    /\ pc = "compute"
    /\ decoded' = [s \in Seqs |-> decoded[s]
                     + Cardinality({t \in TokenSet(plan[1].ub) : t[1] = s})]
    /\ plan' = Tail(plan)
    /\ pc' = IF Len(plan) = 1 THEN "idle" ELSE "apply"
    /\ UNCHANGED <<unified, cells, heads, batch, split, rest, stack, before, hurt>>

(* llama_kv_cache::seq_rm of [p0, end) for the sequences S at once.        *)
RemoveSuffix(S) ==
    /\ cells' = [st \in Streams |-> [c \in Cells |->
          LET gone == {s \in cells[st][c].seqs : s \in S /\ cells[st][c].pos >= decoded'[s]}
          IN  IF cells[st][c] # Empty /\ gone = cells[st][c].seqs THEN Empty
              ELSE [cells[st][c] EXCEPT !.seqs = @ \ gone]]]
    /\ heads' = [st \in Streams |-> FreedHead(cells[st], cells'[st], heads[st])]

(* The graph failed or was aborted: llama_context::decode takes the        *)
(* positions of the ubatch out again and gives up the batch.               *)
ComputeFails ==
    /\ pc = "compute" /\ pc' = "idle" /\ plan' = <<>>
    /\ UNCHANGED decoded
    /\ RemoveSuffix({t[1] : t \in TokenSet(plan[1].ub)})
    /\ UNCHANGED <<unified, batch, split, rest, stack, before, hurt>>

(* pos_min_thold of the server: below it the window is whole.              *)
WindowKept(s, p0) ==
    LET m == seq_pos_min(cells[seq_to_stream(s)], s)
    IN  m = 0 \/ m < p0 - NSwa

(* The prompt of a new request shares p0 positions with the sequence: the  *)
(* rest is removed.  The memory plans every boundary, so the live plan is  *)
(* taken whatever pos_min is (use_live_plan).                              *)
Reuse(s, p0) ==
    /\ pc = "idle" /\ p0 < decoded[s]
    /\ decoded' = [decoded EXCEPT ![s] = p0]
    /\ RemoveSuffix({s})
    /\ hurt' = IF p0 = 0 THEN hurt \ {s}
               ELSE IF WindowKept(s, p0) THEN hurt ELSE hurt \cup {s}
    /\ before' = <<>>
    /\ UNCHANGED <<unified, pc, batchVars>>

(* server_slot::copy_state_to: the destination is emptied, then it shares  *)
(* the cells of the source or, in a stream of its own, gets copies.        *)
Copy(src, dst) ==
    /\ pc = "idle" /\ src # dst /\ decoded[src] > 0
    /\ decoded' = [decoded EXCEPT ![dst] = decoded[src]]
    /\ LET k == Without(cells[seq_to_stream(dst)], dst, Positions)
       IN  IF unified
           THEN /\ cells' = [cells EXCEPT ![0] = [c \in Cells |->
                      IF src \in k[c].seqs THEN [k[c] EXCEPT !.seqs = @ \cup {dst}] ELSE k[c]]]
                /\ heads' = [heads EXCEPT ![0] = FreedHead(cells[0], k, @)]
           ELSE /\ cells' = [cells EXCEPT ![dst] = [c \in Cells |->
                      IF src \in cells[src][c].seqs
                      THEN [pos |-> cells[src][c].pos, seqs |-> {dst}] ELSE Empty]]
                /\ heads' = [heads EXCEPT ![dst] = heads[src]]
    /\ hurt' = IF src \in hurt THEN hurt \cup {dst} ELSE hurt \ {dst}
    /\ before' = <<>>
    /\ UNCHANGED <<unified, pc, batchVars>>

Batches == UNION {[1 .. n -> Seqs] : n \in 1 .. MaxBatch}

Next ==
    \/ \E b \in Batches : Decode(b)
    \/ Prepare \/ NoSlot \/ Undo \/ UndoFailed \/ SplitAgain \/ GiveUp
    \/ Apply \/ Computed \/ ComputeFails
    \/ \E s \in Seqs, p0 \in Positions : Reuse(s, p0)
    \/ \E src, dst \in Seqs : Copy(src, dst)

Spec == Init /\ [][Next]_vars

-----------------------------------------------------------------------------
(* The types of the variables; a head may stand behind the last cell.      *)
TypeOK ==
    /\ unified \in BOOLEAN
    /\ cells \in [Streams -> [Cells -> [pos : Positions \cup {-1}, seqs : SUBSET Seqs]]]
    /\ heads \in [Streams -> 0 .. NCells]
    /\ pc \in {"idle", "prepare", "failed", "apply", "compute"}
    /\ split \in {"simple", "equal"}
    /\ decoded \in [Seqs -> 0 .. MaxLen] /\ hurt \subseteq Seqs
    /\ \A st \in Streams, c \in Cells : cells[st][c].pos = -1 <=> cells[st][c].seqs = {}

(* What a token of s at p may attend to, and the cells that show it.       *)
Window(p) == {q \in 0 .. p : ~is_masked_swa(q, p)}
Showing(s, q) ==
    {c \in Cells : LET k == cells[seq_to_stream(s)][c] IN s \in k.seqs /\ k.pos = q}

(* When a ubatch is computed, each of its tokens finds every position of   *)
(* its window in exactly one cell.                                         *)
SeesWindowOf(s) ==
    pc = "compute" => \A t \in TokenSet(plan[1].ub) :
        t[1] = s => \A q \in Window(t[2]) : Cardinality(Showing(s, q)) = 1

(* So it is for every sequence that was not rolled back beyond what its    *)
(* window allows and lost no position in a dry run.                        *)
SeesWindow == \A s \in Seqs \ hurt : SeesWindowOf(s)

(* The positions that the cells have of a sequence have no hole.           *)
ContiguousIn(s) ==
    LET P == PosOf(cells[seq_to_stream(s)], s)
    IN  \A p, q \in P : \A r \in p .. q : r \in P

(* "we want to preserve the invariant that all positions between [pos_min, *)
(* pos_max] for each sequence will be present in the cache": no placement, *)
(* purge, failed graph or reuse opens a hole in any sequence, whatever was *)
(* done to it before.  Only the restore of a dry run does, when it puts    *)
(* back a position and not a lower one that the purge took; and a copy of  *)
(* a sequence has the holes of the sequence.                               *)
OnlyRestoreOpensHole ==
    [][\A s \in Seqs : ContiguousIn(s) /\ ~ContiguousIn(s)' =>
          \/ Len(stack') < Len(stack) /\ s \in hurt
          \/ \E r \in Seqs : Copy(r, s) /\ ~ContiguousIn(r)]_vars

(* The dry run is over, with or without success, and no ubatch is applied. *)
JustTried == pc \in {"apply", "idle"} /\ before # <<>>

(* prepare() leaves every sequence but the hurt ones in the cells it was in.*)
DryRunUndone ==
    JustTried => \A st \in Streams, c \in Cells :
        /\ cells[st][c].seqs \ hurt = before[st][c].seqs \ hurt
        /\ cells[st][c].seqs \ hurt # {} => cells[st][c].pos = before[st][c].pos

(* find_slot fails a batch only when two sequences share cells, which no   *)
(* window ever frees: otherwise what the windows keep leaves n_ubatch      *)
(* cells to overwrite, wherever the search starts.                         *)
FailsOnlyWhenShared ==
    pc = "failed" => \E st \in Streams, c \in Cells : Cardinality(cells[st][c].seqs) > 1

=============================================================================
