---------------------------- MODULE MCKvarnAlloc ----------------------------
(***************************************************************************)
(* KvarnAlloc for TLC.  The code makes the stage ring two slots per        *)
(* sequence (llama_kvarn_non_swa_tail_groups); the configurations that     *)
(* check what holds make it shorter than that, so that two live groups     *)
(* compete for a slot within a few steps, and the ones that show what does *)
(* not hold use the code's own length.                                     *)
(***************************************************************************)
EXTENDS KvarnAlloc, TLC

\* No step tells two sequences apart.
SeqSymmetry == Permutations(Seqs)

\* Decoding alone: no graph fails, and no edits between the batches.
DecodeSpec == Init /\ [][DecodeStep]_vars
=============================================================================
