------------------------------- MODULE KvTail -------------------------------
(***************************************************************************)
(* The exact tail of a quantized KV cache: src/llama-kv-cache-tail.cpp     *)
(* (llama_kv_tail_store with compact storage) and the calls that           *)
(* llama_kv_cache makes into it.  A sequence keeps the rows of its newest  *)
(* cells unquantized in an arena of N + R slots of its own; attention      *)
(* reads the newest N of them, R is the reserve for rolled back tokens.    *)
(*                                                                         *)
(* One unified stream, a body behind the tail (COMPACT_OVERLAY), no        *)
(* sliding window (an ubatch never overwrites an occupied cell), one       *)
(* sequence per token.  Cells are shared only through seq_cp.              *)
(***************************************************************************)
EXTENDS Integers, FiniteSets, FiniteSetsExt, Ordinals

CONSTANTS
    NCells,         \* cells of the cache
    Seqs,           \* sequence ids
    NTokens,        \* N, --kv-tail-tokens
    Rollback,       \* R, rollback_tokens
    NUbatch,        \* tokens of an ubatch, at most
    MaxLen,         \* bound: positions are 0 .. MaxLen - 1
    GenWrap         \* generations are counted modulo this (the code: 2^64)

ASSUME TailAssumption ==
    /\ NCells \in Nat \ {0} /\ IsFiniteSet(Seqs)
    /\ NTokens \in Nat \ {0} /\ Rollback \in Nat /\ NUbatch \in Nat \ {0}
    /\ MaxLen \in Nat \ {0} /\ GenWrap \in Nat \ {0, 1}

VARIABLES
    pos,            \* position of a cell, -1: empty
    seqs,           \* sequences of a cell
    gen,            \* tail_generations
    tail,           \* per sequence: entries, slots in use, flags
    rows,           \* what a slot of a sequence's arena holds
    batch,          \* batch_transaction, with the ubatch it is for
    pending         \* pending_seq_cp, with the copies queued in sc_info

vars == <<pos, seqs, gen, tail, rows, batch, pending>>

Cells == 0 .. NCells - 1
Limit == NTokens + Rollback             \* history_limit, also the arena's stride
Slots == 0 .. Limit - 1

\* A row is the exact row of what a cell now holds, or Stale, or Raced: one of
\* several rows that one graph wrote to the slot in no particular order.
\* The row of a slot that is not in use is kept as Stale.
Stale == -1
Raced == -2

None == [none |-> TRUE]
NoTail == [entries |-> {}, used |-> {}, degraded |-> FALSE, recovery |-> 0]

Of(s, ps, qs) == {c \in Cells : s \in qs[c] /\ ps[c] >= 0}
Size(s) == Cardinality(Of(s, pos, seqs))
NextPos(s) == IF Size(s) = 0 THEN 0 ELSE 1 + Max({pos[c] : c \in Of(s, pos, seqs)})

-----------------------------------------------------------------------------
(* The store's own operations, on the tail t of one sequence. *)

\* Rows of the slots in use.
Held(rs, ts) == [s \in Seqs |-> [i \in Slots |-> IF i \in ts[s].used THEN rs[s][i] ELSE Stale]]

SlotsOf(entries) == {e.slot : e \in entries}

\* The entries are kept in the order of their positions, which are different: a set.
NewestOf(S, n) == {e \in S : Cardinality({f \in S : f.pos > e.pos}) < n}
Oldest(S) == CHOOSE e \in S : \A f \in S : e.pos <= f.pos

\* Erases the entries in gone and releases their slots.
EraseEntries(t, gone) == [t EXCEPT !.entries = @ \ gone, !.used = @ \ SlotsOf(gone)]

\* trim: the oldest entries beyond the limit go.
Trim(t) == EraseEntries(t, t.entries \ NewestOf(t.entries, Limit))

\* acquire: a free slot.  The code looks for one from a cursor on; slots are only
\* ever compared for equality, so the choice is left at the first.
Acquire(t) == Min(Slots \ t.used)

\* Mutant: the tail counts as recovered one commit late.
Commit_recovers_late(t, c, g, p) ==
    LET full   == Cardinality(t.entries) >= Limit
        slot   == IF full THEN Oldest(t.entries).slot ELSE Acquire(t)
        kept   == IF full THEN t.entries \ {Oldest(t.entries)} ELSE t.entries
        clean  == t.degraded /\ t.recovery + 1 > NTokens
    IN  [slot |-> slot,
         tail |->
           [entries  |-> kept \cup {[cell |-> c, gen |-> g, pos |-> p, slot |-> slot]},
            used     |-> t.used \cup {slot},
            degraded |-> t.degraded /\ ~clean,
            recovery |-> IF clean THEN 0 ELSE IF t.degraded THEN t.recovery + 1 ELSE t.recovery]]

\* commit: the new row takes the slot of the oldest entry once the tail is full.
\* Its generation is new, so the branches for an identity already present are
\* not taken.
Commit(t, c, g, p) ==
    LET full   == Cardinality(t.entries) >= Limit
        slot   == IF full THEN Oldest(t.entries).slot ELSE Acquire(t)
        kept   == IF full THEN t.entries \ {Oldest(t.entries)} ELSE t.entries
        clean  == t.degraded /\ t.recovery + 1 >= NTokens
    IN  [slot |-> slot,
         tail |->
           [entries  |-> kept \cup {[cell |-> c, gen |-> g, pos |-> p, slot |-> slot]},
            used     |-> t.used \cup {slot},
            degraded |-> t.degraded /\ ~clean,
            recovery |-> IF clean THEN 0 ELSE IF t.degraded THEN t.recovery + 1 ELSE t.recovery]]

\* recycle: no tail may go on naming a cell by an older generation.
Recycle(ts, c, g) ==
    [s \in Seqs |-> EraseEntries(ts[s], {e \in ts[s].entries : e.cell = c /\ e.gen # g})]

\* seq_rm of the store, from p0 on.
RemoveEntries(t, p0) ==
    LET left == EraseEntries(t, {e \in t.entries : e.pos >= p0})
        all  == left.entries = {} /\ p0 <= 0
    IN  [left EXCEPT !.degraded = @ /\ ~all, !.recovery = IF all THEN 0 ELSE @]

\* Mutant: a rollback deeper than the reserve goes unnoticed.
MarkIfIncomplete_never(t, available) == t

\* mark_if_incomplete, with coverage() and mark_degraded().
MarkIfIncomplete(t, available) ==
    IF Cardinality(t.entries) < Min({NTokens, available})
    THEN [t EXCEPT !.degraded = TRUE, !.recovery = 0]
    ELSE t

-----------------------------------------------------------------------------
(* llama_kv_cache: sequence operations. *)

Entries == [cell : Cells, gen : 0 .. GenWrap - 1, pos : 0 .. MaxLen - 1, slot : Slots]

\* Types, the length of a tail and the range of the recovery count.
TypeOK ==
    /\ pos \in [Cells -> -1 .. MaxLen - 1]
    /\ seqs \in [Cells -> SUBSET Seqs]
    /\ gen \in [Cells -> 0 .. GenWrap - 1]
    /\ \A s \in Seqs :
          LET t == tail[s] IN
          /\ Cardinality(t.entries) <= Limit
          /\ t.entries \subseteq Entries
          /\ t.used \subseteq Slots
          /\ t.degraded \in BOOLEAN /\ t.recovery \in 0 .. NTokens - 1
    /\ rows \in [Seqs -> [Slots -> Cells \cup {Stale, Raced}]]

Init ==
    /\ pos = [c \in Cells |-> -1]
    /\ seqs = [c \in Cells |-> {}]
    /\ gen = [c \in Cells |-> 0]
    /\ tail = [s \in Seqs |-> NoTail]
    /\ rows = [s \in Seqs |-> [i \in Slots |-> Stale]]
    /\ batch = None
    /\ pending = None

\* The queued row copies, run by materialize_pending_copies or by update.
CopiedRows ==
    IF pending = None THEN rows
    ELSE [rows EXCEPT ![pending.dst] =
            [i \in Slots |->
                LET from == {k \in pending.copies : k.dst = i}
                IN  IF from = {} THEN @[i] ELSE rows[pending.src][(CHOOSE k \in from : TRUE).src]]]

\* commit_seq_cp
CommittedCopy ==
    IF pending = None THEN tail
    ELSE [tail EXCEPT ![pending.dst] =
            [entries  |-> pending.entries,
             used     |-> (@.used \ SlotsOf(@.entries)) \cup SlotsOf(pending.entries),
             degraded |-> pending.degraded,
             recovery |-> pending.recovery]]

\* seq_rm_unchecked on tails ts, cells (ps, qs), for the sequences of from, each from
\* a position on: the tail first, then the cells, then the check of what is left.
Removed(ts, ps, qs, from) ==
    LET left == [c \in Cells |-> qs[c] \ {s \in DOMAIN from : ps[c] >= from[s]}]
        at   == [c \in Cells |-> IF left[c] = {} THEN -1 ELSE ps[c]]
    IN  [pos  |-> at,
         seqs |-> left,
         tail |-> [s \in Seqs |->
                     IF s \in DOMAIN from
                     THEN MarkIfIncomplete(RemoveEntries(ts[s], from[s]), Cardinality(Of(s, at, left)))
                     ELSE ts[s]]]

\* seq_rm: a rollback, the part of a prompt that is not reused, or all of it.
SeqRm(s, p0) ==
    /\ batch = None
    /\ LET r == Removed(CommittedCopy, pos, seqs, [x \in {s} |-> p0])
       IN  /\ pos' = r.pos /\ seqs' = r.seqs /\ tail' = r.tail
    /\ rows' = Held(CopiedRows, tail')
    /\ pending' = None
    /\ UNCHANGED <<gen, batch>>

\* The server's copy_state_to: seq_rm of the destination, then seq_cp of the
\* whole source.  prepare_seq_cp takes slots for the copies and leaves the rows to
\* the next update; the destination's old tail is gone, so nothing of it is kept.
CopyState(src, dst) ==
    /\ batch = None /\ src # dst
    /\ LET r == Removed(CommittedCopy, pos, seqs, [x \in {dst} |-> 0])
           source == r.tail[src].entries
           slot(e) == Nth(Slots \ r.tail[dst].used, 1 + OrdinalIn(e.pos, {f.pos : f \in source}))
           copied == {[e EXCEPT !.slot = slot(e)] : e \in source}
           shared == Of(src, r.pos, r.seqs)
           degraded == r.tail[src].degraded \/ r.tail[dst].degraded
           flags == MarkIfIncomplete(
                [entries  |-> copied,
                 degraded |-> degraded,
                 recovery |-> IF degraded THEN 0
                              ELSE Min({r.tail[src].recovery, r.tail[dst].recovery})],
                Cardinality(shared))
       IN  /\ pos' = r.pos
           /\ seqs' = [c \in Cells |-> IF c \in shared THEN r.seqs[c] \cup {dst} ELSE r.seqs[c]]
           /\ tail' = [r.tail EXCEPT ![dst].used = @ \cup SlotsOf(copied)]
           /\ pending' = [src |-> src, dst |-> dst, entries |-> copied,
                          copies |-> {[src |-> e.slot, dst |-> slot(e)] : e \in source},
                          degraded |-> flags.degraded, recovery |-> flags.recovery]
    /\ rows' = Held(CopiedRows, tail')
    /\ UNCHANGED <<gen, batch>>

\* update() at the start of a decode: the copies are done and committed ...
UpdateCopies ==
    /\ batch = None /\ pending # None
    /\ tail' = CommittedCopy
    /\ rows' = Held(CopiedRows, tail')
    /\ pending' = None
    /\ UNCHANGED <<pos, seqs, gen, batch>>

\* Mutant: the slots taken for the copies are not given back.
CancelledCopy_leaks == tail

\* cancel_seq_cp
CancelledCopy ==
    [tail EXCEPT ![pending.dst].used = @ \ SlotsOf(pending.entries)]

\* ... or their graph fails: cancelled, and the destination is removed.
UpdateFails ==
    /\ batch = None /\ pending # None /\ pending.copies # {}
    /\ LET r == Removed(CancelledCopy, pos, seqs, [x \in {pending.dst} |-> 0])
       IN  /\ pos' = r.pos /\ seqs' = r.seqs /\ tail' = r.tail
    /\ rows' = Held(rows, tail')
    /\ pending' = None
    /\ UNCHANGED <<gen, batch>>

\* clear
Clear ==
    /\ batch = None
    /\ pos' = [c \in Cells |-> -1]
    /\ seqs' = [c \in Cells |-> {}]
    /\ gen' = [c \in Cells |-> 0]
    /\ tail' = [s \in Seqs |-> NoTail]
    /\ rows' = [s \in Seqs |-> [i \in Slots |-> Stale]]
    /\ pending' = None
    /\ UNCHANGED batch

-----------------------------------------------------------------------------
(* A decode: apply_ubatch, then the graph. *)

\* One token of apply_ubatch: a new generation for its cell, recycle, commit.
ApplyToken(a, tok) ==
    LET g == (a.gen[tok.cell] + 1) % GenWrap
        stale == {s \in Seqs : \E e \in a.tail[s].entries : e.cell = tok.cell /\ e.gen # g}
        ts == Recycle(a.tail, tok.cell, g)
        done == Commit(ts[tok.seq], tok.cell, g, tok.pos)
    IN  [gen      |-> [a.gen EXCEPT ![tok.cell] = g],
         tail     |-> [ts EXCEPT ![tok.seq] = done.tail],
         affected |-> a.affected \cup stale \cup {tok.seq},
         current  |-> a.current \cup {[cell |-> tok.cell, gen |-> g, pos |-> tok.pos, seq |-> tok.seq]},
         writes   |-> a.writes \cup {[seq |-> tok.seq, slot |-> done.slot, cell |-> tok.cell]}]

\* The store after k of the n tokens of an ubatch.
Applied(n, ub) ==
    LET after[k \in 0 .. n] ==
            IF k = 0
            THEN [gen |-> gen, tail |-> [s \in Seqs |-> Trim(tail[s])],
                  affected |-> {}, current |-> {}, writes |-> {}]
            ELSE ApplyToken(after[k - 1], ub[k])
    IN  after

\* apply_ubatch: begin_batch keeps the store as it is, the tokens are committed.
\* q names the sequences of the tokens, at the cells find_slot has found.  update()
\* has run before.
ApplyUbatch(n, q, at) ==
    LET ub == [i \in 1 .. n |->
                 [seq |-> q[i], cell |-> at[i],
                  pos |-> NextPos(q[i]) + Cardinality({j \in 1 .. i - 1 : q[j] = q[i]})]]
        put == Applied(n, ub)[n]
        taken == {at[i] : i \in 1 .. n}
        index(c) == CHOOSE i \in 1 .. n : at[i] = c
    IN  /\ batch = None /\ pending = None
        /\ \A i \in 1 .. n : ub[i].pos < MaxLen
        /\ pos' = [c \in Cells |-> IF c \in taken THEN ub[index(c)].pos ELSE pos[c]]
        /\ seqs' = [c \in Cells |-> IF c \in taken THEN {q[index(c)]} ELSE seqs[c]]
        /\ gen' = put.gen
        /\ tail' = put.tail
        /\ rows' = [s \in Seqs |-> [i \in Slots |->
                     IF rows[s][i] \in taken THEN Stale ELSE rows[s][i]]]
        /\ batch' = [ub |-> ub, tail |-> tail, gen |-> gen, affected |-> put.affected,
                     current |-> put.current, writes |-> put.writes]
        /\ UNCHANGED pending

Empty == {c \in Cells : pos[c] = -1}

\* find_slot (module KvPlace) takes empty cells; which ones makes no difference to
\* the tail, so these are the first ones.
Decode ==
    \E n \in 1 .. Min({NUbatch, Cardinality(Empty)}) : \E q \in [1 .. n -> Seqs] :
        ApplyUbatch(n, q, [i \in 1 .. n |-> Nth(Empty, i)])

\* The writes of the graph, after attention has read: set_rows takes them in any
\* order, so a slot with several of them ends up with either row.
Writers(s, i) == {w \in batch.writes : w.seq = s /\ w.slot = i}

GraphComputes ==
    /\ batch # None
    /\ rows' = [s \in Seqs |-> [i \in Slots |->
                 CASE Writers(s, i) = {} -> rows[s][i]
                   [] Cardinality(Writers(s, i)) = 1 ->
                        (CHOOSE w \in Writers(s, i) : TRUE).cell
                   [] OTHER -> Raced]]
    /\ batch' = None
    /\ UNCHANGED <<pos, seqs, gen, tail, pending>>

\* Mutant: the entries come back although their rows may be overwritten.
RolledBack_trusts_rows(modified) == batch.tail

\* Mutant: every tail is dropped, not only those of the ubatch.
RolledBack_drops_all(modified) ==
    [s \in Seqs |->
        LET t == batch.tail[s] IN
        IF modified
        THEN [t EXCEPT !.entries = {}, !.used = {}, !.degraded = TRUE, !.recovery = 0]
        ELSE t]

\* finish_batch(false, modified): the store as it was, without the tails whose rows
\* the graph may have overwritten.
RolledBack(modified) ==
    [s \in Seqs |->
        LET t == batch.tail[s] IN
        IF modified /\ s \in batch.affected
        THEN [t EXCEPT !.entries = {}, !.used = @ \ SlotsOf(t.entries),
                       !.degraded = TRUE, !.recovery = 0]
        ELSE t]

\* The graph is not built or fails; finish_tail_batch puts the store and the
\* generations back, decode() removes the positions of the ubatch.
GraphFails(modified) ==
    /\ batch # None
    /\ LET of(s) == {i \in DOMAIN batch.ub : batch.ub[i].seq = s}
           first == [s \in {batch.ub[i].seq : i \in DOMAIN batch.ub} |->
                        Min({batch.ub[i].pos : i \in of(s)})]
           r == Removed(RolledBack(modified), pos, seqs, first)
       IN  /\ pos' = r.pos /\ seqs' = r.seqs /\ tail' = r.tail
    /\ gen' = batch.gen
    /\ rows' = Held([s \in Seqs |-> [i \in Slots |->
                 IF modified /\ Writers(s, i) # {} THEN Stale ELSE rows[s][i]]], tail')
    /\ batch' = None
    /\ UNCHANGED pending

Next ==
    \/ \E s \in Seqs, p0 \in 0 .. MaxLen - 1 : SeqRm(s, p0)
    \/ \E src, dst \in Seqs : CopyState(src, dst)
    \/ UpdateCopies
    \/ UpdateFails
    \/ Clear
    \/ Decode
    \/ GraphComputes
    \/ \E modified \in BOOLEAN : GraphFails(modified)

Spec == Init /\ [][Next]_vars

-----------------------------------------------------------------------------
(* What attention reads: source_candidates and set_input_kq_mask_tail_impl. *)

History(s) == NewestOf(batch.tail[s].entries, NTokens)

Current(s) ==
    {[cell |-> e.cell, gen |-> e.gen, pos |-> e.pos, slot |-> -1]
        : e \in {x \in batch.current : x.seq = s}}

\* The exact rows of token i: the newest N that are visible and current.
Exact(i) ==
    LET s == batch.ub[i].seq
        visible == {e \in History(s) \cup Current(s) :
                      /\ e.gen = gen[e.cell]
                      /\ s \in seqs[e.cell] /\ pos[e.cell] <= batch.ub[i].pos
                      /\ e.pos <= batch.ub[i].pos}
    IN  NewestOf(visible, NTokens)

\* No query reads the wrong row for exact: a slot it reads from the arena holds the
\* row of the cell it stands for (or lost a race of set_rows), at the cell's position.
ReadsExact ==
    batch # None =>
        \A i \in DOMAIN batch.ub : \A e \in Exact(i) :
            /\ pos[e.cell] = e.pos
            /\ e.slot >= 0 => rows[batch.ub[i].seq][e.slot] \in {e.cell, Raced}

\* A sequence whose tail is not marked degraded has the newest N cells that a query
\* sees exact, each of them, after any rollback, copy or failure.
NewestAreExact ==
    batch # None =>
        \A i \in DOMAIN batch.ub :
            LET s == batch.ub[i].seq
                seen == {[cell |-> c, pos |-> pos[c]] : c \in Of(s, pos, seqs)}
                past == {e \in seen : e.pos <= batch.ub[i].pos}
            IN  ~batch.tail[s].degraded =>
                    {e.cell : e \in Exact(i)} = {e.cell : e \in NewestOf(past, NTokens)}

\* Slots are neither lost nor shared: those in use are the entries' and, while a copy
\* waits, the ones taken for it.
SlotsOwned ==
    \A s \in Seqs :
        LET waiting == IF pending # None /\ pending.dst = s THEN pending.entries ELSE {}
            all == tail[s].entries \cup waiting
        IN  /\ tail[s].used = SlotsOf(all)
            /\ Cardinality(SlotsOf(all)) = Cardinality(tail[s].entries) + Cardinality(waiting)

\* A failed ubatch costs only the sequences in it: every other tail is what it was
\* before the ubatch.
FailureIsLocal ==
    [][batch # None /\ batch' = None =>
        \A s \in Seqs \ {batch.ub[i].seq : i \in DOMAIN batch.ub} :
            tail'[s] = batch.tail[s] /\ rows'[s] = rows[s]]_vars

=============================================================================
