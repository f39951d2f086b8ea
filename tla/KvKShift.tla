------------------------------ MODULE KvKShift ------------------------------
(***************************************************************************)
(* The cells of KvCells together with the K rows they describe.  kpos[i]   *)
(* is the position to which the K row of cell i is rotated: the decode     *)
(* that fills the cell writes it at pos[i], and the K-shift graph that     *)
(* llama_kv_cache::update() runs before reset_shift() rotates it by the    *)
(* shift[i] that set_input_k_shift() feeds to it.  A row whose cell is     *)
(* empty is never read (-1).                                               *)
(***************************************************************************)
EXTENDS KvCells

VARIABLES kpos,
          divided   (* history: cells moved by pos_div since they were filled *)

kvars == <<vars, kpos, divided>>

(* A row is written when its cell is filled and forgotten when it empties. *)
RowFollowsCell ==
    /\ kpos' = [i \in Cells |-> IF pos[i] = -1 \/ pos'[i] = -1 THEN pos'[i] ELSE kpos[i]]
    /\ divided' = {i \in divided : pos[i] # -1 /\ pos'[i] # -1}

(* Between cp() and set() prepare() tries a ubatch out.                     *)
DryRun == saved.idxs # {}

KShift ==
    /\ ~DryRun
    /\ ResetShift
    /\ kpos' = [i \in Cells |-> IF pos[i] = -1 THEN -1 ELSE kpos[i] + shift[i]]
    /\ UNCHANGED divided

(* The decodes and edits of the cache, and the cp() that starts a dry run. *)
Edit ==
    /\ ~DryRun
    /\ \/ Reset
       \/ \E I \in SUBSET Cells : Cp(I)
       \/ \E i \in Cells : CellEdit(i)
    /\ RowFollowsCell

(* seq_div of the cache.                                                    *)
Divide ==
    /\ ~DryRun
    /\ \E i \in Cells, d \in Divisors : PosDiv(i, d) /\ divided' = divided \cup {i}
    /\ UNCHANGED kpos

(* A dry run of apply_ubatch writes no row: it fills the copied cells, and *)
(* in a sliding-window cache it purges older positions anywhere.           *)
DryEdit ==
    /\ DryRun
    /\ \/ \E i \in saved.idxs :
             \/ Rm(i)
             \/ \E p \in Positions : PosSet(i, p)
             \/ \E S \in Seqs : SeqAdd(i, S)
       \/ \E i \in Cells, S \in Seqs : SeqRm(i, S)
    /\ UNCHANGED <<kpos, divided>>

(* set() puts the cells back; their rows have not moved.                   *)
Restore == Set /\ UNCHANGED <<kpos, divided>>

KInit == Init /\ kpos = [i \in Cells |-> -1] /\ divided = {}

KNext == KShift \/ Edit \/ Divide \/ DryEdit \/ Restore

KSpec == KInit /\ [][KNext]_kvars

(* Once no shift is pending, the K row of every cell that pos_div has not   *)
(* moved is rotated to the position its cell claims, whatever pos_add,     *)
(* removals, refills and dry runs came before.                             *)
KRowAtPosition ==
    ~has_shift /\ ~DryRun =>
        \A i \in Cells \ divided : pos[i] # -1 => kpos[i] = pos[i]

=============================================================================
