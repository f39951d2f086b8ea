----------------------------- MODULE KvarnRetry -----------------------------
(***************************************************************************)
(* KvarnAlloc under the server's decode loop: a batch is decoded in views  *)
(* of at most n_batch tokens, and a view that finds no cells is cut to     *)
(* half and tried again.  No slot is idle, so none can be cleared instead, *)
(* and nothing else happens to the cache between two views; no graph       *)
(* fails.                                                                  *)
(***************************************************************************)
EXTENDS KvarnAlloc

VARIABLES
    rest,     \* the tokens of the server's batch from off on
    n_batch   \* the size of a view

retryVars == <<vars, rest, n_batch>>

\* llama_decode of the next view of at most n tokens.
DecodeView(n) ==
    /\ batch' = SubSeq(rest, 1, IF n <= Len(rest) THEN n ELSE Len(rest))
    /\ pc' = "seed" /\ at' = 1 /\ plan' = <<>> /\ saved' = cellVars
    /\ UNCHANGED <<pos, seqs, heads, sealed, owners, payload, copied, rest>>

\* pre_decode has filled a batch.
NewBatch ==
    /\ rest = <<>>
    /\ InitBatch
    /\ rest' = batch' /\ UNCHANGED n_batch

NextView ==
    /\ pc = "idle" /\ rest # <<>>
    /\ DecodeView(n_batch) /\ UNCHANGED n_batch

\* decode() returned 1: half the batch.
Retry ==
    /\ pc = "failed" /\ n_batch > 1
    /\ n_batch' = n_batch \div 2
    /\ DecodeView(n_batch')

\* "Context size has been exceeded.": every slot is released and cleared.
Exceeded ==
    /\ pc = "failed" /\ n_batch = 1
    /\ clear
    /\ rest' = <<>> /\ n_batch' = MaxBatch

\* The view is done when its last token is; then n_batch is the full one again.
ViewStep ==
    /\ FindSeed \/ FindToken \/ FindFail \/ Emplace \/ Restore \/ Apply \/ Store \/ Attended
    /\ IF pc' = "idle"
       THEN rest' = SubSeq(rest, Len(batch) + 1, Len(rest)) /\ n_batch' = MaxBatch
       ELSE UNCHANGED <<rest, n_batch>>

RetryNext == NewBatch \/ NextView \/ Retry \/ Exceeded \/ ViewStep

RetrySpec == Init /\ rest = <<>> /\ n_batch = MaxBatch /\ [][RetryNext]_retryVars
=============================================================================
