# BeeLlama: TLA+ models of the KV caches and of the server

BeeLlama is a fork of llama.cpp. What it adds to the core is a compressed KV
cache (KVarN: groups of cells quantized into records, with recent rows kept
exactly in a ring of F16 stage slots; and an exact tail over a quantized cache)
and a server that yields its task queue to a worker while it decodes, keeps
streams so that they can be resumed, and routes requests to child servers. All
of these keep state that is updated by hand in many places, by several threads
or with failures in between, and read much later. That state is modelled here.

All paths below are relative to the repository (`src/` is its library
directory, `tools/server/` the server).

## 1. Inventory

| Part | State it keeps | Operations | What is hard | What makes it correct |
|---|---|---|---|---|
| KV cells (`src/llama-kv-cells.h`) | per cell position, sequences, pending shift; the indices `used`, `seq_pos`, `seq_used`; `has_shift` | reset, cp/set, rm, seq_rm, seq_keep, seq_add, pos_set, pos_add, pos_div, reset_shift | a dozen operations update three indices by hand; cp/set overwrite cells with an older copy | the indices equal a scan of the cells; an emptied cell leaves nothing behind |
| K-shift (`llama_kv_cache::update`) | rotation of every K row | one graph for all accumulated shifts | shifts accumulate over several edits | no shift pending: each row is rotated to its cell's position |
| Placement (`llama-kv-cache.cpp`, `-iswa.cpp`, `llama-batch.cpp`) | cells and heads per stream, recovery stack | split, find_slot, prepare, apply_ubatch, seq_rm, seq_cp | cells that left the sliding window are overwritten, in a dry run first | a query finds its whole window; the dry run is undone; a batch fails only when it must |
| Exact tail (`llama-kv-cache-tail.cpp`) | per sequence entries, slots, degraded flag; generations; batch transaction; pending copy | commit, recycle, seq_rm, prepare/commit/cancel of copies, finish_batch | a graph fails after it has overwritten rows; a copy is made long after it was asked for | an exact row is the row of its cell; a tail that lacks rows says so |
| KVarN allocator (`llama-kv-cache.cpp`, `llama-kv-cache-kvarn.cpp`, `llama-kvarn.cpp`) | head per sequence, seal per group, stage ring, records | find_slot (group branch), prepare, apply_ubatch, store, read placement, seq_rm/keep/cp, clear | where a row lives is *inferred* from heads and seals, never recorded | every attended cell is read from where its row was stored; two live groups never share a slot |
| State save and restore | serialized cells, records, stage | write/read | seals and heads are rebuilt, not stored | (planned) |
| Batch splitting (`llama-batch.cpp`) | used tokens | split_simple/equal/seq | - | part of the placement and allocator models |
| Task queue (`tools/server/server-queue.cpp`) | three queues, running/sleeping flags, worker flags, one condition variable | post, defer, pop_deferred, cancel, start_loop, yield_to_queue, sleep, terminate | main thread, worker and HTTP threads wait on one condition variable | no task lost or doubled; everybody is answered; terminate ends both threads |
| Responses and readers (same file) | waiting ids, results | add_waiting, send, recv, stop | a result sent while its reader gives up | no result without a reader |
| Slots (`server-context.cpp`) | slot states, prompt cache, checkpoints | launch, decode, release, error paths | deferral, cancellation, retries of a failed decode | as the queue and the caches see them |
| Resumable streams (`server-stream.cpp`) | sessions by conversation id, bounded buffer | append, read_from, finalize, cancel, create_or_replace, evict, gc | producer, readers, deleters, GC and shutdown on two levels of locks | a session is an append-only log; replays are complete and end; a running generation can be reached |
| Model router (`server-models.cpp`) | status and request count per model, LRU order, queue of entries, stopping set | ensure_model_ready, load, unload, monitor threads, proxy | the lock is let go between looking and doing; children crash | never more than models_max; no ghost waiters or claims; no free slot beside waiters |
| MCP, tools, HTTP, chat, sampling, speculative decoding, graphs, loaders | - | - | I/O or numeric code | not modelled |

How they interact. HTTP threads post tasks and block on `server_response`. The
main thread takes tasks, launches them in slots and builds a batch. The cache's
`init_batch` splits it, `prepare` finds cells for every ubatch in a dry run
(cp, apply, restore), then each ubatch is applied and its graph stores the rows
and reads them back. If no cells are found the server retries with half the
batch. While the graph runs, the worker answers read-only tasks and puts the
others aside. Speculative rollback and request ends reach the cache as `seq_rm`,
the children of a multi-choice request as `seq_cp`. The HTTP thread of a
streaming request also writes each chunk to the session of its conversation,
from which others replay it. A router process does none of this itself: it
starts child servers and proxies requests to them.

`PROJECT.json` lists every component and, line by line, the hazards.

## 2. Modules

### KvCells (`src/llama-kv-cells.h`)
Variables carry the names of the members. `seq_pos[s][p]` is a count; 0 stands
for a key that is absent from the map. Each operation is one action; the
preconditions are the `assert`s of the class. `saved` is the copy the owner
holds between `cp()` and `set()`. The 2D position `ext` is stored and never
read by the class, and is left out.

### KvKShift (extends KvCells)
Adds `kpos`, the position to which the K row of a cell is rotated: written when
the cell is filled, rotated by `shift[i]` when `update()` runs the K-shift graph.
Between `cp()` and `set()` (`DryRun`) the cells change as `apply_ubatch` changes
them in `prepare()` (the copied cells are refilled, older positions of a
sliding-window sequence purged anywhere) while no row is written. `divided` is
history: the cells moved by `pos_div`, whose pending shift has the wrong sign
(see the observations), until their next tenant.

### KvPlace (`find_slot` without groups, `prepare`, `apply_ubatch`)
The sliding-window cache, unified or with one stream per sequence. `Decode`
brings a batch; `Prepare` is one round of the dry run (split off an ubatch, find
its slot, remember the cells, apply); `Undo` and `UndoFailed` restore from the
recovery stack; `SplitAgain` is the second attempt of `init_batch` with an equal
split, `GiveUp` the failure; `Apply`, `Computed` and `ComputeFails` are the real
ubatches. Between batches come `RemoveSuffix`, `Reuse` (the server's prompt reuse
on the memory's live plan) and `Copy`. The indices are exact by
`KvCells!IndexExact`, so positions are computed from the cells. `decoded`,
`before` and `hurt` are history: what the owner of a sequence counts, the cells
before the batch, and the sequences that lost positions to a dry run's purge or
were rolled back beyond their window. `SeesWindow` and `DryRunUndone` leave the
`hurt` sequences out; which steps hurt one is part of the model (`Bereft`,
`WindowKept`). `OnlyRestoreOpensHole` is about the invariant of the comment at
`llama-kv-cache.cpp:2874` (all positions between `pos_min` and `pos_max` are present)
and looks at every sequence, hurt or not: it names the one step that breaks it, the
restore of a dry run that brings back a position and not a lower one which the
purge took from a cell that was not copied. The window is that of
`LLAMA_SWA_TYPE_STANDARD`.

### KvTail (`src/llama-kv-cache-tail.cpp` and its callers)
The compact store over a quantized body in a unified stream. `tail[s]` holds the
entries of a sequence, the slots in use, the degraded flag and the recovery
count; `rows[s][i]` says which cell's row a slot really holds: `Stale` when that
cell has been refilled or the slot was given up, `Raced` when one graph wrote
several rows to the slot. `ApplyUbatch` is `begin_batch`, then recycle and commit
token by token; `GraphComputes` writes the rows; `GraphFails` is `finish_batch`
without success, with or without damage to rows, and the removal of the ubatch's
positions by `decode()`. `CopyState` is `copy_state_to` of the server: its row
copies wait in `pending` until `UpdateCopies`, `UpdateFails`, `Clear` or the
next edit. `Exact(i)` is the choice of exact rows for a query. Abstractions: slots
are compared only for equality, so `acquire` takes the first free one instead of
searching from a cursor; an ubatch takes the first empty cells; generations are
counted modulo `GenWrap`, which is sound here because `recycle` leaves no entry
of an older generation. The code keeps a tail's entries in a list ordered by
position; no two have the same one, so here they are a set, and the victim of a
commit is the entry with the least position. `Applied` is the loop over the tokens.

### KvarnAlloc (`find_slot`'s group branch, `prepare`, `apply_ubatch`, store)
One unified stream, one sequence per token. A batch goes through
`InitBatch -> (FindSeed -> FindToken* -> Emplace)* -> Restore ->
(Apply -> Store* -> Attended)*`, with `FindFail` where a token finds no cell.
`FindSeed` is the start of a `find_slot` call (which groups own a stage slot;
the throw on an alias is `pc = "alias"`), `FindToken` the placement of a token,
`Emplace` and `Restore` the two ends of a dry-run ubatch, `Apply` the real
`apply_ubatch`, `Store` the store kernel on a token. `GraphFails` ends a batch in
the middle of an ubatch: `decode()` removes the positions of that ubatch, and the
server, to which it returns an error, clears every slot that is processing (the
sequences of the batch and perhaps others; `server-context.cpp:4246`). Seals that
the dry run has set stay. Between batches come
`seq_rm`, `seq_keep`, `seq_cp`, `clear`. Row contents are abstracted to two
sets: `staged` and `recorded`, the occupied cells whose stage (record) row holds
what was last stored for them. `Readable(c)` looks where
`allocation_cell_uses_stage` tells attention to look. `copied` is history:
the groups some `seq_cp` has shared, until they are empty. `ReadsWhatWasStored`,
`OneSetPerGroup`, `LiveGroupHasHead` and `SealedLivesInRecords` leave them out,
because these do go wrong there; `NoStageAlias` does not. `NUbatch < 3 G` is the
sequential store, which the CPU always uses and CUDA uses for small ubatches.

### KvarnRetry (extends KvarnAlloc)
The server's decode loop around it: `rest` of the server's batch, views of
`n_batch` tokens, `Retry` with half of them when no cells are found, `Exceeded`
at one token. No graph fails there.

### ServerQueue (`tools/server/server-queue.cpp`, the loop of `server-context.cpp`)
A step is one critical section of `mutex_tasks` or `mutex_results`. `mpc`,
`wpc`, `cpc` are where the main thread, the worker and each HTTP thread are;
`mtask`, `wtask` the task in a thread's hand, which no queue holds.
`condition_tasks` is modelled: `notify_one` wakes *any* one blocked thread and
a thread whose predicate is false blocks again, so a wake-up can be wasted.
Merged steps: a reader that has received its final result takes its id back in
the same step (between the two it does nothing anybody sees); the worker's
parking condition variable `worker.cv`, which only the worker waits on, is a
guard on state. A slot's work is a number of decodes. `erased(q, t)` is the
`remove_if` of `cleanup_pending_task`: the k-th task that stays is the one that
has k such positions up to its own. `LaunchFails` is `launch_slot_with_task`
returning false: the client gets an error, no slot is taken and hence none released.
`refused` is history, the completions that this happened to. Tasks with children
(`launch_slots_with_parent_task`) are left out.

### StreamLog and StreamSession (`tools/server/server-stream.cpp`)
`StreamLog` is the abstract specification: logs that grow and are closed once,
readers that receive the next bytes of the log they attached to.
`StreamSession` is the code: the manager's map, sessions with a bounded buffer,
and for each POST, GET and DELETE where its thread is. A step is one critical
section of the map's lock or of a session's; `cancel` and `finalize`, which run
after the map's lock is released, are steps of their own. Bytes are named by
their place in the output. `IsLog == Log!Spec` is the refinement, with `written`
(history: the bytes ever offered) for the length of the log and `done` for
closed. `strayed` is history: sessions evicted by the early end of another
request of their conversation.

### ModelRouter (`tools/server/server-models.cpp`)
A step is one critical section of `server_models::mutex`. For each request `pc`
follows `ensure_model_ready` (enter, evict, wait, claim), `load` with
`unload_lru`, and `proxy_request` to its cleanup; for each model `child` follows
the process and its monitoring and stopping threads. `queue` is
`server_lru_sched::queue` with waiters, `slot_pending` and `loading`.
LOADED and SLEEPING are one status, which the scheduler never tells apart. A request
with `posts_load` is a user's POST /models/load, which calls `load` and nothing else.
`SpawnFails` is `load` finding no port or failing to create the process: a direct
load reports it, the head of the queue gives its claim back and tries again.

### MC modules and proofs
`MC*` give the constants their values. `KvCellsProofs` (with `KvKShift`),
`StreamSessionProofs`, `ModelRouterProofs`, `ServerQueueProofs`, `KvarnAllocProofs`,
`KvPlaceProofs` and `KvTailProofs` hold the theorems about the module in their name;
`QueueLemmas` holds facts about sets and sequences that several of them share.
`Ordinals` numbers the elements of a set in their order, as the searches of
`find_slot` and `acquire` meet them.
Operators commented *Mutant* stand for plausible bugs in the definition that
follows them. No specification uses them; substituting one shows that a
property would notice the bug.

## 3. Runs

| Run | Bounds | Shows |
|---|---|---|
| `kv_cells` | 2 cells, 2 sequences (symmetric), positions 0..2, `pos_div` by 2 | indices exact (`IndexExact`), `BlankWhenEmpty`, `ShiftFlagged`; `KRowAtPosition`: K-shift leaves rows where the cells claim they are |
| `kv_place` | 2 sequences, window 2, ubatch 2, 4 cells, batch 3, length 5, unified and not | `SeesWindow`: a computed token finds every position of its window; `DryRunUndone`; `FailsOnlyWhenShared`; `OnlyRestoreOpensHole` (action property): nothing but the restore of a dry run that purged opens a hole between the positions of a sequence |
| `kv_tail` | 2 sequences (symmetric), 5 cells, N = 2, R = 1, ubatch 4, length 4 | `ReadsExact`, `NewestAreExact`, `SlotsOwned`; `FailureIsLocal` (action property) |
| `kvarn_alloc` | G = 3, 3 groups, 1 stage slot, 2 sequences, ubatch 2, batch 3, length 6, graphs that fail | `NoStageAlias`, `ReadsWhatWasStored`, `OneSetPerGroup`, `LiveGroupHasHead`, `SealedLivesInRecords` |
| `kvarn_fills_here`, `kvarn_retry` | G = 2, the code's ring (4 slots) | `ReadsWhatWasStored` **violated**, each in its own way |
| `server_queue` | 2 completions (one asks for a slot), 1 poller, 1 slot, 2 decodes, one client may leave, the launch of the other completion may fail, one sleep, terminate | `NothingLost`, `WorkerOnlyInYield`, `ResultsHaveReader`; liveness `Answered`, `Terminates` |
| `server_queue_sleep`, `_defer` | as in their .cfg | `AnsweredBeforeSleep`, `DeferredIsProcessed` **violated** |
| `stream` | 2 POSTs of one conversation (one may end early), 1 reader, 1 DELETE, buffer of 2, outputs of 3 and 1, chunks 0..3 | `IsLog` (refinement), `Stoppable`; `ReplayComplete`: a replay is complete, or was more than the cap behind when it was cut off; liveness `ReadersEnd` |
| `router` | 2 models, models_max 1, 3 requests (one may leave, two may be a POST /models/load), 2 mishaps (a crash, a failing spawn or an unload by a user each) | `WithinLimit`, `NoGhostWaiters`, `ClaimHeld`, `BusyIsServing`; liveness `SlotIsTaken` |
| `router_starve` | the same without mishaps and POST /models/load | `Settled` **violated** |

Why the bounds are enough. Two cells and two sequences give shared and
exclusive cells, equal and different positions, and a copy of any subset of the
cells. Three positions give a shift in both directions and one below 0.

`kv_place`: four cells are fewer than window and ubatch of both sequences need,
so a unified cache runs full and its cells are overwritten and purged; batches
of three take two ubatches, of which the second may fail after the first was
tried out; length 5 lets a sequence wrap around the cells.

`kv_tail`: ubatches of up to four overrun the N + R = 3 slots of a sequence (so
slots are recycled within an ubatch), removals reach below the reserve, and five
cells hold both sequences beyond N and are refilled often enough for generations
to wrap. Its VIEW counts generations from the present one of their cell: they are
only counted up and compared for equality, so states that differ by a constant
per cell behave alike.

For KVarN the code makes the ring twice as long as there are sequences; the
passing configuration makes it shorter so that groups compete for a slot within
few steps. G = 3 has a first, a middle and a last row. Its ubatches are smaller
than a group, so `fills_here` never lets a group pass without a slot: with G = 2
and ubatches of 2 it does, and that is `kvarn_fills_here`. One slot and two
completions force deferral (two completions cannot show that a popped task which
takes no slot strands the next one; `server_queue_defer` has three); the poller gives the worker something to answer
while it has to decline the rest.

`stream`: a buffer of two bytes under an output of three drops bytes; chunks
range from nothing to one larger than the buffer. `router`: with room for one
model every other request queues or evicts; the third request and a crash give
entries that are made, erased and made again.

`CHECK_DEADLOCK FALSE` where the system may stop: a server that was terminated,
or whose clients are all served (queue, stream, router), and in
`kvarn_fills_here`, where sequences are only decoded until they are full.

Fairness. Weak fairness on threads that can go on: the operating system runs
them, and mutexes are held only for short sections. In the queue these are the
main thread, the worker and each HTTP thread; a blocked thread can go on only
when notified, except for the wait of `start_loop`, which has a timeout of a
second. In the streams they are the POST's worker (a generation ends by itself),
readers that have attached and a DELETE that has evicted; in the router, the
thread of a request that has arrived and the monitor of a child (a child told to
stop exits or is killed after a timeout). None on arrivals, on clients leaving,
on launches and spawns that fail, on crashes, unloads, sleep and terminate: nobody
has to do these. `SlotIsTaken` allows finitely many failing spawns (`MaxMishaps`): a
machine that never has a free port again keeps the head of the queue retrying.

`Answered` excludes a terminated server, a server that fell asleep and, for
completions only, a completion that was cancelled or whose launch failed. The second
is exactly what `server_queue_sleep` shows to go wrong, the others what
`server_queue_defer` does.

### Findings

1. `fills_here` (`src/llama-kv-cache.cpp:2569`) lets a group through without a
   stage slot on the premise that it writes no stage rows; the sequential store
   does write them, over the rows of the slot's owner. (`kvarn_fills_here`)
2. A failed `prepare()` restores the cells, not `allocation_seq_heads` and
   `allocation_group_sealed`; the retry with half the batch reads rows from the
   wrong place. (`kvarn_retry`)
3. The server can fall asleep between a client's `wait_until_no_sleep` and its
   `post`; the post does not wake it. (`server_queue_sleep`)
4. A popped deferred task whose launch fails, or that is cancelled before its launch,
   releases no slot, so nothing pops the next one: it waits although every slot is
   idle.
   (`server_queue_defer`)
5. A request that queues while the only running model is still loading, for a
   client that has gone, waits for ever: the loaded model has no request that
   could end and give up its slot. (`router_starve`)

Each is a statement about the model's abstraction of the quoted lines; the run's
counterexample is the sequence of calls. In PROJECT.json each comes with the
comment or document it contradicts.

### Further observations

Behaviour met while modelling, which the models reproduce and which the
properties allow for:

- `pos_div` accumulates its shift with the opposite sign of `pos_add`
  (`src/llama-kv-cells.h:487`); after it the K-shift rotates rows away from their
  positions. `KRowAtPosition` leaves such cells out (`divided`).
- The dry run of `prepare()` purges older positions of a sequence
  (`src/llama-kv-cache.cpp:2892`) in cells it did not copy; the restore does not
  bring them back (`hurt`), so a hole may be left between the positions of a
  sequence, against the comment at `:2874`. The second ubatch's purge can take a position the
  first one still attends to. With an exact tail the purge also removes the
  tail's entries for good (read from the code; `KvTail` has no sliding window).
- After `seq_cp` of a live partial KVarN group neither sequence may continue it;
  once both heads have moved on it is read from a record that was never written
  (`copied`).
- The memory's live plan for prompt reuse skips the `pos_min` check
  (`tools/server/server-context.cpp:3812`), so less than a window may be left.
- `prepare()` restores `v_heads_old[s]` into `v_heads[strm[s]]` with different
  numberings of streams (`src/llama-kv-cache.cpp:2060`). It only moves the place
  where a search starts; no property depends on it.
- A cancel that is posted while its task is in the main thread's hand misses it:
  the task is deferred and later runs for nobody.
- A POST that ends early evicts whatever session its conversation has by then
  (`tools/server/server-stream.cpp:639`, `strayed`), and the replay handler drops
  `OFFSET_LOST` (`:489`): a reader that was too slow sees a normal end.
- Router: a stop requested while a child is being reaped hits the next instance
  (`server-models.cpp:1206`); a victim picked idle may be busy when it is unloaded
  (`:1430`); a slot promised by `slot_pending` can be taken by a direct load
  (`:207`). None of these breaks the checked properties. A waiter whose entry another
  request's load has erased, and who did not look while the model was LOADING, waits
  without an entry when the child goes down at once. A spawn that fails for the head
  of the queue is tried again without end, each time with a warning and no answer to
  the client (`:1486`).
- An ubatch with more tokens of a sequence than its tail has slots names a slot
  twice in `tail_write_slots`; only a backend that writes rows in order leaves the
  newest one there (`Raced`).
- `tools/server/README-dev.md:135` says that while a producer is attached only a
  DELETE stops the generation; the wait for the first result
  (`tools/server/server-context.cpp:4959`) still asks `req.should_stop`, so a peer
  that leaves before it ends the request (`EndsEarly`).

## 4. Proofs

All theorems hold for every value of the constants that satisfies the module's
`ASSUME` (finite sets of sequences, models, requests, clients and slots, positive
capacities, and a `None`/`NoTask` that is none of the values it stands beside).
Each component has an inductive invariant (`IInv`, or the ones its section below
names), checked by TLC before it was proved, one lemma per operation, `InvStep` that combines them, and the properties
as consequences.

| Module | Theorems | Property |
|---|---|---|
| `KvCellsProofs` | `CellsTypeCorrect`, `CellsIndexExact`, `CellsBlankWhenEmpty`, `CellsShiftFlagged` | every invariant of `KvCells` |
| `KvCellsProofs` | `RowsAtPositions` | `KRowAtPosition` of `KvKShift` |
| `StreamSessionProofs` | `StreamTypeCorrect`, `StreamReplayComplete`, `StreamStoppable`, `StreamImplementsLog` | every invariant of `StreamSession`, and the refinement `IsLog` |
| `ModelRouterProofs` | `RouterTypeCorrect`, `RouterWithinLimit`, `RouterNoGhostWaiters`, `RouterClaimHeld`, `RouterBusyIsServing` | every invariant of `ModelRouter` |
| `ServerQueueProofs` | `QueueTypeCorrect`, `QueueNothingLost`, `QueueWorkerOnlyInYield`, `QueueResultsHaveReader` | every invariant of `ServerQueue` |
| `KvarnAllocProofs` | `AllocTypeCorrect`, `AllocNoStageAlias`, `AllocOneSetPerGroup`, `AllocLiveGroupHasHead`, and under `StageKept` `AllocSealedLivesInRecords`, `AllocReadsWhatWasStored` | every invariant of `KvarnAlloc` |
| `KvPlaceProofs` | `PlaceTypeCorrect`, `PlaceDryRunUndone`, `PlaceSeesWindow`, and under `RoomForWindows` `PlaceFailsOnlyWhenShared` | every invariant of `KvPlace` |
| `KvTailProofs` | `TailTypeCorrect`, `TailSlotsOwned`, `TailReadsExact`, `TailNewestAreExact`, `TailFailureIsLocal` | every invariant of `KvTail`, and its action property |

### KvCells
`IInv == TypeOK /\ BlankWhenEmpty /\ SavedBlank /\ ShiftFlagged /\ IndexExact`.
None of its parts is inductive alone. A cell of `seq_keep` that holds only other
sequences is known to be occupied by `BlankWhenEmpty`; `set()` preserves
`BlankWhenEmpty` because the *copy* is blank where it is empty (`SavedBlank`);
`pos_set` keeps the counts exact because an empty cell carries no sequence.

The argument is counting. `CountOneCell` says how a cardinality changes when two
sets of cells agree except at one; `IndexStep` lifts it to `seq_pos` and
`seq_used` for any operation on one cell; `EmptyStep` and `MoveStep` cover the
operations that empty or move a cell. `Set` replaces many cells at once and uses
`CountOutside`.

### KvKShift
`RowsAtPositions`: `KSpec => []KRowAtPosition`, with no condition on the divisors:
the property is about the cells that `pos_div` has not moved, in any mix with cells
that it has. The invariant `RowInv` says that outside the copy the row of such a
cell is one pending shift away from the cell's position, and inside it the row is
where the copy says, with no shift pending, whatever the dry run made of the cell.
`MovesOnly(i)` sums up what any operation on a cell may do to positions and shifts,
`OpMoves` proves it of each operation, and `EditRows`, `DivideRows`, `DryRows`,
`RestoreRows` and `KShiftRows` are the disjuncts of `KNext`. `IInv` is used
throughout: a refilled cell starts without a shift by `BlankWhenEmpty`, and
`ShiftFlagged` turns `~has_shift` into "no shift".

### StreamSession
`IInv` adds to the types: the buffer is the tail of the output, each byte at its
logical offset (`BufferIsTail`, kept by `append` at the cap by `AppendKeepsTail`);
the chunk in hand still fits (`ChunkFits`); who holds a session outside the map's
lock (`HoldsSession`); whoever finalizes a session it did not create has
cancelled it or made it stray (`FinalizerHasReason`), so a session that is done has
a reason to be (`DoneHasReason`), so the GC never forgets a running one
(`Reachable`); and a replay that ended has delivered all (`ReplayEnded`).
`ReplayComplete` needs one more, `CutOffInv`: as much is dropped as does not fit
(`DropsOnlyExcess`), so an offset below the dropped prefix is more than the cap
behind the output, and stays so because the output only grows.
`Stoppable` is not inductive without the chain of the three in the middle: it is
the thread that swapped the map, not the map, that makes a replaced session
reachable until it is cancelled.

`StreamImplementsLog` is the refinement: initial states are initial logs, and every
step is a step of `StreamLog` or a stutter. `finalize` closes a log once, `write`
makes it grow or is refused, a GET attaches, and `read_from` delivers the next
bytes (from `BufferIsTail`); everything else stutters.

### ModelRouter
`IInv` is `CoreType /\ StatusMatchesChild /\ WithinCapacity /\ VictimKnown /\
QueuedWhere /\ OneEntryPerModel` and the three properties `NoGhostWaiters`,
`ClaimHeld` and `BusyIsServing`. A model has a child exactly while its status says
so, so `WithinLimit` is the code's own count of running models, which only `load`
raises, under the lock, after looking. `QueuedWhere` says where a thread that
counts as a waiter can be; with at most one entry per model, an entry that is
erased and made again counts only the threads that joined the new one, and a claim
can only be released by its holder, because `claim_done` reaches the entry its
holder claimed. The counting is that of sets of requests that change in one element;
`RouterTypeCorrect` needs `NoGhostWaiters` and `BusyIsServing` to bound the counts.

### ServerQueue
`IInv == QueueTypes /\ StateTypes /\ Control /\ Registered /\ Accounted`.
`QueueTypes` is sharper than the type invariant: a cancel task is only about for a
client that is gone (so releasing its slot answers nobody), and only completions
are deferred. A failing launch is an answer like that of a finished slot. `Control` ties hands to program counters and the worker to the yield
that woke it. `Registered` says that a client that has posted waits in
`server_response`, so `send` cannot drop its answer. `Accounted` is what makes
`NothingLost` inductive: no client's task is ever in two places, there is none
before it is posted, exactly one while it is waited for and at most one afterwards
(a cancel may miss a task in a thread's hand).

`Times(q, t)` counts a task in a queue. `TimesPush`, `TimesPop`, `TimesErase`,
`TimesErased` and `TimesConcat` say what the deque operations do to it; they are
proved from bijections between sets of positions, without induction. A step then
changes at most four of the seven terms of `Copies` (`Places`) and is one of three
kinds: it moves a task (`MoveStep`), sends its result (`SendStep`) or drops it
(`DropStep`).

### KvarnAlloc
The cells go back and forth in a decode: the dry run fills them, prepare() puts them
back, and every ubatch is applied again. The invariant therefore speaks of the cache
as it will be once the batch is in it: `Base`, the cells without the dry run's,
together with `plan`, the cells found so far. `Filled(g)` and `Claims(s, g)` are in
these terms, and no step but `FindToken` and the edits between batches changes them.
`Overlay` and `OwnCells` connect them with the actual cells: the applied tokens are
on top of the base, each in a cell of its own that was free; so `Used` and
`group_used`, which find_slot counts in the actual cells, are the sizes of `Filled`
(`GroupUsed`, from a bijection between tokens and cells).

`OneClaim` (one sequence per group, unless seq_cp has shared it and no token goes to
it) gives `OneSetPerGroup`; the `compatible` test establishes it from both the cells
and the reservations of the same call. `SlotsApart` gives `NoStageAlias`: two
incomplete groups have different stage slots. Inside a call it is replaced by
`SlotsOwned`: the slot of an incomplete group is owned by it, or the group is one
that find_slot has begun *without* taking its slot because the rest of the ubatch
will fill it (`Filling`). `FillNext` shows that this promise is kept: the next cell
is acceptable and the nearest to the head, so the next token goes there, and none is
left over when the ubatch ends. `FullSealed` is needed for the edits: a full group
that loses a cell does not come back as an incomplete one. The length of the ring
does not enter the argument; a short ring makes `find_slot` fail, not alias.
A failing graph needs `OneClaim` again: a group that has a token of the batch has
cells of no other sequence, so what the clear of the processing slots leaves in a
group was there before the batch, untouched (`FailLeaves`), and a seal the dry run
has set is on a group that is now empty or was complete before.
`Room` bounds the positions, which `TypeOK` needs, and `Phase` says where a decode
stands in its batch; `UbatchBounds` is the arithmetic of ubatches.

`HInv` gives `LiveGroupHasHead`. A live group that is incomplete is *growing*
(`Growing`): its occupied cells are exactly those below the head of its sequence,
and they are the newest cells the sequence has, in order. The order is what a
removal needs: `seq_rm` of a suffix takes positions, the head goes to the cell after
the newest one left, and only because rows and positions of a growing group are in
the same order is that cell the next row of the group. `FinalHead` is the head once
the tokens found so far are in, for the same reason as `Filled`; `HeadsFollow` and
`PosFollow` connect it with the stored heads and positions while a batch is applied.

`SInv` says where the rows are. `Schedule` looks at the tokens of the batch in the
order in which they will be stored: when a token is stored no other group needs its
stage slot (`SlotFree`), the group is filled up to that row (`RowByRow`), and its
sequence has no other group open (`OneOpen`). `Rows` says that after any number of
stored tokens the rows of the complete groups are in their records and the others in
the stage. `SlotFree` is not true of the code for all constants: a group that the
rest of the ubatch fills is begun without a slot (`fills_here`), and stores through
the slot of another group (run `kvarn_fills_here`). The two theorems therefore have
the hypothesis `StageKept`: no ubatch, or no batch, is as long as a group, or there
is only one sequence. Both are real configurations: a server with one slot and any
`n_ubatch`, and one with several slots whose ubatch is below the group size. With
one sequence `fills_here` is harmless because the sequence has completed the group
before the one that is filled without a slot.

### KvPlace
`DryRunInv` is about the recovery stack. Each level holds a copy of the cells its
ubatch overwrites, and the levels are restored from the top, so what a cell becomes
in the end is the copy of the *lowest* level that has one, or what it holds now if
no level has. `WouldUndo` says of that value that it agrees with what the cell held
when the batch came, for all sequences but the hurt ones (those that lost a cell to
the purge of `apply_ubatch`, which no copy covers). Pushing a level changes the value
of no cell that a lower level covers, and the copy it takes of any other cell is the
cell itself; restoring the top level gives the cell the value the level below had
promised. How the batch is split and which cells `find_slot` takes play no part.

The other invariants need three more inductive invariants, each of which uses the
ones before it. They number the ubatches of the recovery stack and of the plan
together, as levels in the order of their computation.

`TypeInv` says what the splits do. Its main part is `InOrder`: the levels and the
tokens left hold every sequence's tokens in order and without a hole, from
`decoded` on; each level has as many different cells as tokens, all in the stream of
their sequences. `split_equal` needs the most work: that the tokens it interleaves
are different and are the first of each sequence follows from the order of the
batch, and that it takes at least one from `NSeq <= NUbatch`.

`CacheInv` is about what the cells hold. `Sound` is a property of one set of cells:
positions are below `decoded` or being computed (`Below`), no position of a sequence
is in two cells (`Apart`), the window of the next position is there (`Kept`), and
there is no hole above a position that is (`Up`). Outside of a dry run it holds of
`cells`, inside of `before`. It is not inductive alone, because the slots a ubatch
overwrites in the real run were chosen in the dry run, from other contents:
`find_slot` compared a cell with `seq_pos_max + 1` after earlier ubatches had been
placed tentatively. `SafeTokens` and `SafeCells` therefore say, for every level still
to come, that what it overwrites (a token of an earlier level, or what was there
before) is outside of the window of every token computed from then on. They are
established by `Prepare` from `can_use`, with `TriedIn`, `TriedBelow`, `TriedApart`
and `TriedSingles` saying what the tentative cells are, and used up by `Apply`. The
purge keeps `Up`: it removes everything up to the highest position it overwrote.

`FailInv` says of a failed search that two sequences share a cell that no level of
the stack covers, so it is still there when the stack is unwound. Otherwise every
used cell belongs to one sequence, and the cells `can_use` refuses hold at most
`NSwa - 1` positions of each; counting them leaves `NUbatch` cells. For this the cache
must have that many cells. The code gives the window cache `NSwa * NSeq + NUbatch`
cells (`NSwa + NUbatch` per stream), or those of the base cache if it is smaller, so the theorem assumes
`RoomForWindows`, `SizeBase >= (NSwa - 1) * NSeq + NUbatch`; with a smaller base cache
the cache may simply be full. The run's constants satisfy it with equality.

### KvTail
The properties are about a moment in the middle of a decode, when the new entries
are committed, the rows are not yet written and the graph may still fail. `TailInv`
therefore has two cases.

Between ubatches (`Idle`) it is about the tails and rows as `commit_seq_cp` and the
row copies would leave them, so that a pending copy needs no case of its own: each
tail is `Good` and its rows are `RowsGood`. `Good` has five parts: the slots in use
are those of the entries; positions and slots tell entries apart (`Separate`); an
entry stands for a cell the sequence has, at its position and generation (`Live`);
every cell of the sequence newer than an entry has one (`Suffix`); and there are N
entries, or one for every cell, or the tail is marked and has counted no more
commits than it has entries (`Covered`). `Covered` alone is not inductive: that the
mark may go after N commits needs the count to be a lower bound of the entries, and
`NewestAreExact` needs `Suffix` to know that the entries there are the newest.

While a graph runs (`Running`) the same is said twice: of the tails that
`begin_batch` kept, for the cells without the ubatch (`OldPos`, `OldSeqs`), and of
the new tails for all cells. `Written` relates them through the writes of the graph:
an entry is written, or is an old one whose slot nobody writes. `GraphComputes`
makes the new half true of the rows; `GraphFails` returns to the old half, because
removing a sequence from its first token on leaves exactly the cells it had before
(`FirstPosCuts`).

The loop of `apply_ubatch` is a recursive function over the number of tokens. Its
loop invariant `After` is `Running` for a prefix of the ubatch; `AfterNext` shows one
token, and `AfterAll` takes the least number of tokens after which `After` would not
hold, which the provers can do without an induction rule. An ubatch longer than the
tail gives a slot to several of its tokens; the entry that ends up with the slot is
among its writers, so after the graph its row is the entry's own or `Raced`.

`NewestAreExact` is then a matter of counting (`NewestCoincide`): what is visible to
a query is closed upward among the cells it sees (`Suffix`, and the ubatch is newer
than everything), and if it missed one of the newest N, the old tail would have
fewer than N entries and fewer than the sequence had cells, which `Covered` forbids.

### Only model-checked
Liveness (`Answered`, `Terminates`, `ReadersEnd`, `SlotIsTaken`) needs fairness and
`ENABLED`, which are out of the prover's reach. `OnlyRestoreOpensHole` is checked by
TLC only. Every other property of a passing run is a theorem. The theorems about `KvarnAlloc` are about `Spec`, in which a failed
batch is followed by a clear; for the retry of `KvarnRetry`, which keeps the moved
seals, nothing is proved.

## 5. Not modelled, and why

Most of the repository's code is kernels (CPU, CUDA, Vulkan, OpenCL, SYCL and
other backends), quantization formats, model graphs, tokenizers, loaders and
conversion scripts: numeric computation and I/O without the protocol state that a
model checker explores. MCP and tools, HTTP and chat formatting, sampling and
grammars are left out for the same reason.

Within the modelled parts: the window types NONE, CHUNKED and SYMMETRIC, the base cache of an iSWA pair (its find_slot is that
of `KvPlace` without a window), tokens that belong to several sequences, stream
copies of data, `seq_add`/`seq_div` on placed cells and on the tail, a tail without
a body, the CUDA store for large ubatches, a caller of `llama_decode` other than the
server that goes on after a failed graph without clearing its sequences, several
tasks per reader, parent tasks with children, handlers that throw, the router's downloads, reload, aliases and conversation routing, and
the listing handlers, which only read. Counts do not wrap in the models: the
code's are 32 bits wide and bounded by the context length.

## 6. Plan

Done: KvCells, KvKShift, KvarnAlloc and its decode loop, ServerQueue,
StreamSession with its abstract log, KvPlace, ModelRouter, KvTail.

1. **KvarnState**: save/restore of cells, records and stage, and the rebuilding
   of heads and seals, composed with KvarnAlloc.
2. **KvTail**: `seq_add` and `seq_div` (the store moves only entries of the calling
   sequence, `llama-kv-cache-tail.cpp:1011`, while the cells are shared), the sliding
   window, the tail without a body.
3. **ServerSlots**: parent and child tasks, errors after a decode, checkpoints.
4. **Abstract cache**: a map from sequence to positions, implemented by KvCells;
   "every attended row is the one stored", implemented by KvarnAlloc where that
   holds.
5. **Proofs**: of the parts above as they are modelled; in each module what exists is
   proved but for liveness.
