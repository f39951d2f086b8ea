------------------------- MODULE ModelRouterProofs -------------------------
(***************************************************************************)
(* Machine-checked facts about ModelRouter, for any finite numbers of      *)
(* models and requests and any models_max: the type invariant, the limit   *)
(* on children, and what the queue and the request counts can be trusted   *)
(* for (NoGhostWaiters, ClaimHeld, BusyIsServing).                         *)
(***************************************************************************)
EXTENDS ModelRouter, QueueLemmas

(* An entry of the queue, its count of waiters not yet bounded.            *)
Entry == [model : Models, n_waiters : Nat \ {0}, slot_pending : BOOLEAN, loading : BOOLEAN]

Labels == Final \cup {"idle", "enter", "evict", "wait", "load", "lru_unload", "lru_wait",
                      "spawn", "claim_ok", "claim_fail", "proxy", "count", "serve",
                      "went_idle", "give_up"}

(* Inside load() or on the way to claim_done().                            *)
InLoad == {"load", "lru_unload", "lru_wait", "spawn", "claim_ok", "claim_fail"}

(* TypeOK without the two bounds that rest on the other invariants.        *)
CoreType ==
    /\ status \in [Models -> {"UNLOADED", "LOADING", "LOADED"}]
    /\ req_count \in [Models -> Nat]
    /\ lru \in [1 .. Cardinality(Models) -> Models] /\ ToSet(lru) = Models
    /\ child \in [Models -> {"none", "up", "exiting", "eof", "reaped"}]
    /\ stopping_models \subseteq Models
    /\ queue \in Seq(Entry)
    /\ pc \in [Requests -> Labels]
    /\ queued \in [Requests -> BOOLEAN] /\ did_load \in [Requests -> BOOLEAN]
    /\ saw_loading \in [Requests -> BOOLEAN] /\ victim \in [Requests -> Models \cup {None}]

(* A model is out of service exactly when it has no child and no monitor.  *)
StatusMatchesChild == \A m \in Models : child[m] = "none" <=> status[m] = "UNLOADED"

WithinCapacity == Cardinality(Running) <= ModelsMax

(* A thread about to unload, or waiting for, a victim has one.             *)
VictimKnown ==
    \A r \in Requests : pc[r] \in {"evict", "lru_unload", "lru_wait"} => victim[r] \in Models

(* A request is queued only between join() and the end of its wait, and    *)
(* only a queued one has a claim to give back.                             *)
QueuedWhere ==
    \A r \in Requests :
        /\ queued[r] => pc[r] \in InLoad \cup {"evict", "wait"}
        /\ pc[r] \in {"claim_ok", "claim_fail"} => queued[r]

(* Requests for one model share one entry: find() has nothing to miss.     *)
OneEntryPerModel ==
    \A i, j \in DOMAIN queue : queue[i].model = queue[j].model => i = j

Waiters(m) == {r \in Requests : queued[r] /\ Wants[r] = m}
Serving(m) == {r \in Requests : Wants[r] = m /\ pc[r] = "serve"}

(* The inductive invariant.                                                *)
IInv ==
    /\ CoreType /\ StatusMatchesChild /\ WithinCapacity /\ VictimKnown /\ QueuedWhere
    /\ OneEntryPerModel /\ NoGhostWaiters /\ ClaimHeld /\ BusyIsServing

-----------------------------------------------------------------------------
(* Operators.                                                              *)

(* The order of use stays an order of all the models.                      *)
LEMMA TouchedOrder ==
    ASSUME CoreType, NEW m \in Models
    PROVE  touched(m) \in [1 .. Cardinality(Models) -> Models] /\ ToSet(touched(m)) = Models
<1> DEFINE N == Cardinality(Models)
           i == CHOOSE k \in DOMAIN lru : lru[k] = m
           t == RemoveAt(lru, i)
<1>1. N \in Nat
  BY RouterAssumption, FS_CardinalityType
<1>2. lru \in Seq(Models) /\ Len(lru) = N /\ \A x \in Models : \E k \in 1 .. N : lru[k] = x
  <2>1. lru \in [1 .. N -> Models] /\ \A x \in Models : \E k \in DOMAIN lru : lru[k] = x
    BY DEF CoreType, ToSet
  <2> HIDE DEF N
  <2>2. lru \in Seq(Models)
    BY <1>1, <2>1, SeqDef
  <2>3. DOMAIN lru = 1 .. N /\ Len(lru) = N
    BY <1>1, <2>1, <2>2, LenProperties
  <2> QED BY <2>1, <2>2, <2>3
<1> HIDE DEF N
<1>3. i \in 1 .. N /\ lru[i] = m
  BY <1>2
<1> HIDE DEF i
<1>4. /\ t \in Seq(Models) /\ Len(t) = N - 1
      /\ \A k \in 1 .. N - 1 : t[k] = IF k < i THEN lru[k] ELSE lru[k + 1]
  BY <1>2, <1>3, RemoveAtElements
<1> HIDE DEF t
<1>5. /\ Append(t, m) \in Seq(Models) /\ Len(Append(t, m)) = N
      /\ \A k \in 1 .. N - 1 : Append(t, m)[k] = t[k]
      /\ Append(t, m)[N] = m
  BY <1>1, <1>3, <1>4, AppendProperties
<1>6. Append(t, m) \in [1 .. N -> Models]
  BY <1>1, <1>5, LenProperties
<1>7. ASSUME NEW x \in Models PROVE \E k \in 1 .. N : Append(t, m)[k] = x
  <2>1. PICK k \in 1 .. N : lru[k] = x
    BY <1>2
  <2>2. CASE k < i
    BY <1>1, <1>3, <1>4, <1>5, <2>1, <2>2
  <2>3. CASE k = i
    BY <1>1, <1>3, <1>5, <2>1, <2>3
  <2>4. CASE k > i
    <3>1. k - 1 \in 1 .. N - 1 /\ ~(k - 1 < i) /\ (k - 1) + 1 = k
      BY <1>1, <1>3, <2>1, <2>4
    <3>2. Append(t, m)[k - 1] = x
      BY <1>4, <1>5, <2>1, <3>1
    <3>3. k - 1 \in 1 .. N
      BY <1>1, <3>1
    <3> QED BY <3>2, <3>3
  <2>5. k \in Int /\ i \in Int
    BY <1>1, <1>3, <2>1
  <2>6. k < i \/ k = i \/ k > i
    BY <2>5
  <2> QED BY <2>2, <2>3, <2>4, <2>6
<1>8. touched(m) = Append(t, m)
  BY DEF touched, t, i
<1>9. ToSet(Append(t, m)) = Models
  BY <1>6, <1>7 DEF ToSet
<1> QED BY <1>6, <1>8, <1>9 DEF N

(* pick_victim() names a model that is loaded and idle, or none.           *)
LEMMA VictimIsIdle ==
    ASSUME CoreType, NEW x
    PROVE  /\ pick_victim(x) \in Models \cup {None}
           /\ pick_victim(x) # None =>
                 status[pick_victim(x)] = "LOADED" /\ req_count[pick_victim(x)] = 0
<1> DEFINE K == {k \in DOMAIN lru : /\ lru[k] # x /\ req_count[lru[k]] = 0
                                    /\ status[lru[k]] = "LOADED"}
<1>1. K \in SUBSET Nat /\ DOMAIN lru = 1 .. Cardinality(Models)
  BY DEF CoreType
<1>2. pick_victim(x) = IF K = {} THEN None ELSE lru[Min(K)]
  BY DEF pick_victim
<1>3. CASE K = {}
  BY <1>2, <1>3
<1>4. CASE K # {}
  <2>1. Min(K) \in K
    BY <1>1, <1>4, MinIsLeast
  <2>2. lru[Min(K)] \in Models /\ status[lru[Min(K)]] = "LOADED" /\ req_count[lru[Min(K)]] = 0
    BY <2>1 DEF CoreType
  <2> QED BY <1>2, <1>4, <2>2
<1> QED BY <1>3, <1>4

-----------------------------------------------------------------------------
(* What the operations of the queue do to its entries.  Each lemma says    *)
(* where every entry of the new queue comes from.                          *)

(* find() finds the entry of a model that has one.                         *)
LEMMA FindEntry ==
    ASSUME CoreType, NEW m, Entries(m) # {}
    PROVE  find(m) \in 1 .. Len(queue) /\ queue[find(m)].model = m
<1>1. Entries(m) \in SUBSET Nat /\ DOMAIN queue = 1 .. Len(queue)
  BY DEF CoreType, Entries
<1>2. find(m) \in Entries(m)
  BY <1>1, MinIsLeast DEF find
<1> QED BY <1>1, <1>2 DEF Entries

(* An entry is changed in place; its model stays.                          *)
LEMMA EntryUpdated ==
    ASSUME CoreType, OneEntryPerModel, NEW i \in 1 .. Len(queue), NEW e \in Entry,
           e.model = queue[i].model, queue' = [queue EXCEPT ![i] = e]
    PROVE  /\ queue' \in Seq(Entry) /\ OneEntryPerModel' /\ DOMAIN queue' = DOMAIN queue
           /\ queue'[i] = e
           /\ \A k \in DOMAIN queue : k # i => queue'[k] = queue[k] /\ queue[k].model # e.model
<1>1. queue \in Seq(Entry) /\ DOMAIN queue = 1 .. Len(queue)
  BY DEF CoreType
<1>2. /\ queue' \in Seq(Entry) /\ Len(queue') = Len(queue)
      /\ \A k \in 1 .. Len(queue) : queue'[k] = IF k = i THEN e ELSE queue[k]
  BY <1>1, ExceptSeq
<1>3. DOMAIN queue' = DOMAIN queue
  BY <1>1, <1>2, LenProperties
<1>4. OneEntryPerModel'
  BY <1>1, <1>2, <1>3 DEF OneEntryPerModel
<1> QED BY <1>1, <1>2, <1>3, <1>4 DEF OneEntryPerModel

(* An entry is erased: nothing is left of its model.                       *)
LEMMA EntryErased ==
    ASSUME CoreType, OneEntryPerModel, NEW i \in 1 .. Len(queue), queue' = RemoveAt(queue, i)
    PROVE  /\ queue' \in Seq(Entry) /\ OneEntryPerModel'
           /\ \A k \in DOMAIN queue' : \E j \in DOMAIN queue :
                 queue'[k] = queue[j] /\ queue[j].model # queue[i].model
<1>1. queue \in Seq(Entry) /\ DOMAIN queue = 1 .. Len(queue) /\ Len(queue) \in Nat
  BY DEF CoreType
<1>2. /\ queue' \in Seq(Entry) /\ Len(queue') = Len(queue) - 1
      /\ \A k \in 1 .. Len(queue) - 1 : queue'[k] = IF k < i THEN queue[k] ELSE queue[k + 1]
  BY <1>1, RemoveAtElements
<1>3. DOMAIN queue' = 1 .. Len(queue) - 1
  BY <1>2, LenProperties
<1> DEFINE was(k) == IF k < i THEN k ELSE k + 1
<1>4. ASSUME NEW k \in DOMAIN queue'
      PROVE  was(k) \in DOMAIN queue /\ was(k) # i /\ queue'[k] = queue[was(k)]
  BY <1>1, <1>2, <1>3
<1>5. ASSUME NEW k \in DOMAIN queue', NEW l \in DOMAIN queue', was(k) = was(l) PROVE k = l
  BY <1>1, <1>3, <1>5
<1> HIDE DEF was
<1>6. OneEntryPerModel'
  BY <1>4, <1>5 DEF OneEntryPerModel
<1>7. \A k \in DOMAIN queue' : queue[was(k)].model # queue[i].model
  BY <1>1, <1>4 DEF OneEntryPerModel
<1> QED BY <1>2, <1>4, <1>6, <1>7

(* Two fields of an entry are changed.                                     *)
LEMMA TwoFields ==
    ASSUME NEW f \in Entry, NEW x, NEW y
    PROVE  [f EXCEPT !.n_waiters = x, !.slot_pending = y] =
               [model |-> f.model, n_waiters |-> x, slot_pending |-> y, loading |-> f.loading]
<1> DEFINE g == [f EXCEPT !.n_waiters = x]
<1>1. g = [model |-> f.model, n_waiters |-> x, slot_pending |-> f.slot_pending,
           loading |-> f.loading]
  BY DEF Entry
<1>2. [f EXCEPT !.n_waiters = x, !.slot_pending = y] = [g EXCEPT !.slot_pending = y]
  OBVIOUS
<1> HIDE DEF g
<1>3. [g EXCEPT !.slot_pending = y] =
          [model |-> f.model, n_waiters |-> x, slot_pending |-> y, loading |-> f.loading]
  BY <1>1
<1> QED BY <1>2, <1>3, Zenon

(* join() and mark_slot_pending(): one more waiter in the model's entry,   *)
(* or a new entry with one.                                                *)
LEMMA JoinedEntries ==
    ASSUME CoreType, OneEntryPerModel, NEW m \in Models, NEW p \in BOOLEAN,
           queue' = joined(m, p)
    PROVE  /\ queue' \in Seq(Entry) /\ OneEntryPerModel'
           /\ \A k \in DOMAIN queue' :
                 \/ queue'[k].model # m /\ \E j \in DOMAIN queue : queue'[k] = queue[j]
                 \/ /\ queue'[k].model = m
                    /\ \/ queue'[k].n_waiters = 1 /\ ~queue'[k].loading
                       \/ \E j \in DOMAIN queue :
                             /\ queue[j].model = m /\ queue'[k].loading = queue[j].loading
                             /\ queue'[k].n_waiters = queue[j].n_waiters + 1
<1>1. queue \in Seq(Entry) /\ DOMAIN queue = 1 .. Len(queue) /\ Len(queue) \in Nat
  BY DEF CoreType
<1>2. CASE Entries(m) # {}
  <2> DEFINE i == find(m)
             e == [queue[i] EXCEPT !.n_waiters = @ + 1, !.slot_pending = @ \/ p]
  <2>1. i \in 1 .. Len(queue) /\ queue[i].model = m /\ queue[i] \in Entry
    BY <1>1, <1>2, FindEntry
  <2>2. queue' = [queue EXCEPT ![i] = e]
    BY <1>1, <1>2, <2>1 DEF joined
  <2> HIDE DEF i
  <2>3. /\ e \in Entry /\ e.model = m /\ e.loading = queue[i].loading
        /\ e.n_waiters = queue[i].n_waiters + 1
    <3> DEFINE b == queue[i].slot_pending \/ p
    <3>1. b \in BOOLEAN
      BY Zenon
    <3>2. e = [model |-> queue[i].model, n_waiters |-> queue[i].n_waiters + 1,
               slot_pending |-> b, loading |-> queue[i].loading]
      BY <2>1, TwoFields, Zenon
    <3> HIDE DEF b, e
    <3>3. /\ queue[i].model \in Models /\ queue[i].n_waiters + 1 \in Nat \ {0}
          /\ queue[i].loading \in BOOLEAN
      BY <2>1 DEF Entry
    <3> QED BY <2>1, <3>1, <3>2, <3>3 DEF Entry
  <2> HIDE DEF e
  <2>4. /\ queue' \in Seq(Entry) /\ OneEntryPerModel' /\ DOMAIN queue' = DOMAIN queue
        /\ queue'[i] = e
        /\ \A k \in DOMAIN queue : k # i => queue'[k] = queue[k] /\ queue[k].model # e.model
    <3>1. e \in Entry /\ e.model = queue[i].model
      BY <2>1, <2>3
    <3> QED BY <2>1, <2>2, <3>1, EntryUpdated, Zenon
  <2> QED BY <1>1, <2>1, <2>3, <2>4
<1>3. CASE Entries(m) = {}
  <2> DEFINE e == [model |-> m, n_waiters |-> 1, slot_pending |-> p, loading |-> FALSE]
  <2>1. e \in Entry /\ e.model = m /\ e.n_waiters = 1 /\ ~e.loading
    BY DEF Entry
  <2>2. queue' = Append(queue, e)
    BY <1>3 DEF joined
  <2> HIDE DEF e
  <2>3. /\ queue' \in Seq(Entry) /\ Len(queue') = Len(queue) + 1
        /\ queue'[Len(queue) + 1] = e
        /\ \A k \in 1 .. Len(queue) : queue'[k] = queue[k]
    BY <1>1, <2>1, <2>2, AppendProperties
  <2>4. DOMAIN queue' = 1 .. Len(queue) + 1
    BY <2>3, LenProperties
  <2>5. \A k \in DOMAIN queue : queue[k].model # m
    BY <1>3 DEF Entries
  <2>6. ASSUME NEW k \in DOMAIN queue' PROVE k \in DOMAIN queue \/ k = Len(queue) + 1
    BY <1>1, <2>4
  <2>7. OneEntryPerModel'
    BY <1>1, <2>1, <2>3, <2>5, <2>6 DEF OneEntryPerModel
  <2> QED BY <1>1, <2>1, <2>3, <2>5, <2>6, <2>7
<1> QED BY <1>2, <1>3

(* leave(): one waiter less, the last one takes the entry along.           *)
LEMMA LeftEntries ==
    ASSUME CoreType, OneEntryPerModel, NEW m \in Models, queue' = left(m)
    PROVE  /\ queue' \in Seq(Entry) /\ OneEntryPerModel'
           /\ \A k \in DOMAIN queue' :
                 \/ queue'[k].model # m /\ \E j \in DOMAIN queue : queue'[k] = queue[j]
                 \/ /\ queue'[k].model = m
                    /\ \E j \in DOMAIN queue :
                          /\ queue[j].model = m /\ queue'[k].loading = queue[j].loading
                          /\ queue'[k].n_waiters + 1 = queue[j].n_waiters
<1>1. queue \in Seq(Entry) /\ DOMAIN queue = 1 .. Len(queue) /\ Len(queue) \in Nat
  BY DEF CoreType
<1>2. CASE Entries(m) = {}
  <2>1. queue' = queue
    BY <1>2 DEF left
  <2>2. \A k \in DOMAIN queue : queue[k].model # m
    BY <1>2 DEF Entries
  <2> QED BY <1>1, <2>1, <2>2 DEF OneEntryPerModel
<1>3. CASE Entries(m) # {} /\ queue[find(m)].n_waiters <= 1
  <2>1. find(m) \in 1 .. Len(queue) /\ queue[find(m)].model = m
    BY <1>3, FindEntry
  <2>2. queue' = RemoveAt(queue, find(m))
    BY <1>3 DEF left
  <2> QED BY <2>1, <2>2, EntryErased
<1>4. CASE Entries(m) # {} /\ ~(queue[find(m)].n_waiters <= 1)
  <2> DEFINE i == find(m)
             e == [queue[i] EXCEPT !.n_waiters = @ - 1]
  <2>1. i \in 1 .. Len(queue) /\ queue[i].model = m /\ queue[i] \in Entry
    BY <1>1, <1>4, FindEntry
  <2>2. queue' = [queue EXCEPT ![i] = e]
    BY <1>4 DEF left
  <2>3. ~(queue[i].n_waiters <= 1)
    BY <1>4
  <2> HIDE DEF i
  <2>4. /\ e \in Entry /\ e.model = m /\ e.loading = queue[i].loading
        /\ e.n_waiters + 1 = queue[i].n_waiters
    BY <2>1, <2>3 DEF Entry
  <2> HIDE DEF e
  <2>5. /\ queue' \in Seq(Entry) /\ OneEntryPerModel' /\ DOMAIN queue' = DOMAIN queue
        /\ queue'[i] = e
        /\ \A k \in DOMAIN queue : k # i => queue'[k] = queue[k] /\ queue[k].model # e.model
    <3>1. e \in Entry /\ e.model = queue[i].model
      BY <2>1, <2>4
    <3> QED BY <2>1, <2>2, <3>1, EntryUpdated, Zenon
  <2> QED BY <1>1, <2>1, <2>4, <2>5
<1> QED BY <1>2, <1>3, <1>4

(* claim_done(): the entry of the model is gone, or free to be claimed.    *)
LEMMA ClaimDoneEntries ==
    ASSUME CoreType, OneEntryPerModel, NEW m \in Models, NEW ok \in BOOLEAN,
           queue' = claim_done(m, ok)
    PROVE  /\ queue' \in Seq(Entry) /\ OneEntryPerModel'
           /\ \A k \in DOMAIN queue' :
                 \/ queue'[k].model # m /\ \E j \in DOMAIN queue : queue'[k] = queue[j]
                 \/ /\ ~ok /\ queue'[k].model = m /\ ~queue'[k].loading
                    /\ \E j \in DOMAIN queue :
                          queue[j].model = m /\ queue'[k].n_waiters = queue[j].n_waiters
<1>1. queue \in Seq(Entry) /\ DOMAIN queue = 1 .. Len(queue) /\ Len(queue) \in Nat
  BY DEF CoreType
<1>2. CASE Entries(m) = {}
  <2>1. queue' = queue
    BY <1>2 DEF claim_done
  <2>2. \A k \in DOMAIN queue : queue[k].model # m
    BY <1>2 DEF Entries
  <2> QED BY <1>1, <2>1, <2>2 DEF OneEntryPerModel
<1>3. CASE Entries(m) # {} /\ ok
  <2>1. find(m) \in 1 .. Len(queue) /\ queue[find(m)].model = m
    BY <1>3, FindEntry
  <2>2. queue' = RemoveAt(queue, find(m))
    BY <1>3 DEF claim_done
  <2> QED BY <2>1, <2>2, EntryErased
<1>4. CASE Entries(m) # {} /\ ~ok
  <2> DEFINE i == find(m)
             e == [queue[i] EXCEPT !.loading = FALSE]
  <2>1. i \in 1 .. Len(queue) /\ queue[i].model = m /\ queue[i] \in Entry
    BY <1>1, <1>4, FindEntry
  <2>2. queue' = [queue EXCEPT ![i] = e]
    BY <1>4 DEF claim_done
  <2> HIDE DEF i
  <2>3. e \in Entry /\ e.model = m /\ ~e.loading /\ e.n_waiters = queue[i].n_waiters
    BY <2>1 DEF Entry
  <2> HIDE DEF e
  <2>4. /\ queue' \in Seq(Entry) /\ OneEntryPerModel' /\ DOMAIN queue' = DOMAIN queue
        /\ queue'[i] = e
        /\ \A k \in DOMAIN queue : k # i => queue'[k] = queue[k] /\ queue[k].model # e.model
    <3>1. e \in Entry /\ e.model = queue[i].model
      BY <2>1, <2>3
    <3> QED BY <2>1, <2>2, <3>1, EntryUpdated, Zenon
  <2> QED BY <1>1, <1>4, <2>1, <2>3, <2>4
<1> QED BY <1>2, <1>3, <1>4

-----------------------------------------------------------------------------
(* Counting, and what keeps each part of the invariant.                    *)

(* The requests are finite, so what is counted among them is.              *)
LEMMA CountRequests ==
    ASSUME NEW A \in SUBSET Requests, NEW B \in SUBSET Requests
    PROVE  /\ IsFiniteSet(A) /\ Cardinality(A) \in Nat
           /\ Cardinality(Requests) \in Nat /\ Cardinality(A) <= Cardinality(Requests)
           /\ A \subseteq B => Cardinality(A) <= Cardinality(B)
           /\ \A x \in Requests : x \notin A /\ B = A \cup {x} => Cardinality(B) = Cardinality(A) + 1
<1>1. /\ IsFiniteSet(A) /\ IsFiniteSet(B) /\ Cardinality(A) <= Cardinality(Requests)
      /\ Cardinality(A) \in Nat /\ Cardinality(B) \in Nat /\ Cardinality(Requests) \in Nat
  BY RouterAssumption, FS_Subset, FS_CardinalityType
<1>2. A \subseteq B => Cardinality(A) <= Cardinality(B)
  BY <1>1, FS_Subset
<1>3. \A x \in Requests : x \notin A /\ B = A \cup {x} => Cardinality(B) = Cardinality(A) + 1
  BY <1>1, FS_AddElement
<1> QED BY <1>1, <1>2, <1>3

(* The queue and who is queued do not change.                              *)
LEMMA QueueKept ==
    ASSUME IInv, UNCHANGED <<queue, queued>>
    PROVE  queue' \in Seq(Entry) /\ OneEntryPerModel' /\ NoGhostWaiters'
  BY DEF IInv, CoreType, OneEntryPerModel, NoGhostWaiters

(* Nobody who holds a claim leaves load().                                 *)
LEMMA ClaimKept ==
    ASSUME IInv, UNCHANGED queue,
           \A x \in Requests : queued[x] /\ pc[x] \in InLoad => queued'[x] /\ pc'[x] \in InLoad
    PROVE  ClaimHeld'
<1> SUFFICES ASSUME NEW i \in DOMAIN queue, queue[i].loading
             PROVE  \E x \in Requests : /\ Wants[x] = queue[i].model /\ queued'[x]
                                        /\ pc'[x] \in InLoad
  BY DEF ClaimHeld, InLoad
<1>1. PICK x \in Requests : Wants[x] = queue[i].model /\ queued[x] /\ pc[x] \in InLoad
  BY DEF IInv, ClaimHeld, InLoad
<1> QED BY <1>1

(* No count grows and nobody stops serving.                                *)
LEMMA BusyKept ==
    ASSUME IInv, req_count' \in [Models -> Nat],
           \A m \in Models : req_count'[m] <= req_count[m],
           \A x \in Requests : pc[x] = "serve" => pc'[x] = "serve"
    PROVE  BusyIsServing'
<1> SUFFICES ASSUME NEW m \in Models PROVE req_count'[m] <= Cardinality(Serving(m)')
  BY DEF BusyIsServing, Serving
<1>1. Serving(m) \in SUBSET Requests /\ Serving(m)' \in SUBSET Requests
      /\ Serving(m) \subseteq Serving(m)'
  BY DEF Serving
<1>2. /\ Cardinality(Serving(m)) \in Nat /\ Cardinality(Serving(m)') \in Nat
      /\ Cardinality(Serving(m)) <= Cardinality(Serving(m)')
  BY <1>1, CountRequests
<1>3. req_count[m] <= Cardinality(Serving(m)) /\ req_count[m] \in Nat /\ req_count'[m] \in Nat
  BY DEF IInv, CoreType, BusyIsServing, Serving
<1> HIDE DEF Serving
<1> QED BY <1>2, <1>3

(* No model comes into service.                                            *)
LEMMA CapacityKept ==
    ASSUME IInv, \A m \in Models : status'[m] # "UNLOADED" => status[m] # "UNLOADED"
    PROVE  WithinCapacity'
<1>1. Running' \in SUBSET Running /\ Running \in SUBSET Models
  BY DEF Running
<1>2. IsFiniteSet(Running)
  BY <1>1, RouterAssumption, FS_Subset
<1>3. /\ Cardinality(Running') <= Cardinality(Running) /\ Cardinality(Running) \in Nat
      /\ Cardinality(Running') \in Nat
  BY <1>1, <1>2, FS_Subset, FS_CardinalityType
<1> QED BY <1>3, RouterAssumption DEF IInv, WithinCapacity

(* unload() of a model only ever touches one that has a child.             *)
LEMMA ToldStep ==
    ASSUME IInv, NEW m \in Models, unload(m)
    PROVE  /\ UNCHANGED <<status, req_count, lru>>
           /\ child' \in [Models -> {"none", "up", "exiting", "eof", "reaped"}]
           /\ stopping_models' \subseteq Models /\ StatusMatchesChild'
  BY DEF IInv, CoreType, StatusMatchesChild, unload, Told

(* A thread moves on, and the queue may change: what is left to show.      *)
LEMMA ThreadStep ==
    ASSUME IInv, NEW r \in Requests, NEW l \in Labels, pc' = [pc EXCEPT ![r] = l],
           pc[r] # "serve", UNCHANGED <<status, req_count, lru>>,
           child' \in [Models -> {"none", "up", "exiting", "eof", "reaped"}],
           stopping_models' \subseteq Models, StatusMatchesChild',
           NEW b \in BOOLEAN, queued' = [queued EXCEPT ![r] = b],
           b => l \in InLoad \cup {"evict", "wait"}, l \in {"claim_ok", "claim_fail"} => b,
           did_load' \in [Requests -> BOOLEAN], saw_loading' \in [Requests -> BOOLEAN],
           NEW v \in Models \cup {None}, victim' = [victim EXCEPT ![r] = v],
           l \in {"evict", "lru_unload", "lru_wait"} => v # None,
           queue' \in Seq(Entry), OneEntryPerModel', NoGhostWaiters', ClaimHeld'
    PROVE  IInv'
<1>1. CoreType'
  BY DEF IInv, CoreType
<1>2. VictimKnown' /\ QueuedWhere'
  BY DEF IInv, CoreType, VictimKnown, QueuedWhere
<1>3. WithinCapacity'
  BY CapacityKept
<1>4. BusyIsServing'
  <2>1. \A x \in Requests : pc[x] = "serve" => pc'[x] = "serve"
    BY DEF IInv, CoreType
  <2>2. req_count' \in [Models -> Nat] /\ \A m \in Models : req_count'[m] <= req_count[m]
    BY DEF IInv, CoreType
  <2> QED BY <2>1, <2>2, BusyKept
<1> QED BY <1>1, <1>2, <1>3, <1>4 DEF IInv

(* A thread moves on and leaves the queue alone.                           *)
LEMMA LocalStep ==
    ASSUME IInv, NEW r \in Requests, NEW l \in Labels, pc' = [pc EXCEPT ![r] = l],
           pc[r] # "serve", queued[r] /\ pc[r] \in InLoad => l \in InLoad,
           queued[r] => l \in InLoad \cup {"evict", "wait"},
           l \in {"claim_ok", "claim_fail"} => queued[r],
           UNCHANGED <<status, req_count, lru, queue, queued>>,
           child' \in [Models -> {"none", "up", "exiting", "eof", "reaped"}],
           stopping_models' \subseteq Models, StatusMatchesChild',
           did_load' \in [Requests -> BOOLEAN], saw_loading' \in [Requests -> BOOLEAN],
           NEW v \in Models \cup {None}, victim' = [victim EXCEPT ![r] = v],
           l \in {"evict", "lru_unload", "lru_wait"} => v # None
    PROVE  IInv'
<1>1. queue' \in Seq(Entry) /\ OneEntryPerModel' /\ NoGhostWaiters'
  BY QueueKept
<1>2. ClaimHeld'
  <2>1. \A x \in Requests : queued[x] /\ pc[x] \in InLoad => queued'[x] /\ pc'[x] \in InLoad
    BY DEF IInv, CoreType
  <2> QED BY <2>1, ClaimKept
<1>3. queued[r] \in BOOLEAN /\ queued' = [queued EXCEPT ![r] = queued[r]]
  BY DEF IInv, CoreType
<1> QED BY <1>1, <1>2, <1>3, ThreadStep

(* A child or its monitor moves on, and no model comes into service.       *)
LEMMA ChildStep ==
    ASSUME IInv, UNCHANGED <<req_count, lru, queue, pc, locals>>,
           status' \in [Models -> {"UNLOADED", "LOADING", "LOADED"}],
           \A m \in Models : status'[m] # "UNLOADED" => status[m] # "UNLOADED",
           child' \in [Models -> {"none", "up", "exiting", "eof", "reaped"}],
           stopping_models' \subseteq Models, StatusMatchesChild'
    PROVE  IInv'
<1>1. UNCHANGED <<queued, did_load, saw_loading, victim>>
  BY DEF locals
<1>2. CoreType' /\ VictimKnown' /\ QueuedWhere'
  BY <1>1 DEF IInv, CoreType, VictimKnown, QueuedWhere
<1>3. WithinCapacity'
  BY CapacityKept
<1>4. OneEntryPerModel' /\ NoGhostWaiters'
  BY <1>1, QueueKept
<1>5. ClaimHeld'
  BY <1>1, ClaimKept
<1>6. BusyIsServing'
  <2>1. req_count' \in [Models -> Nat] /\ \A m \in Models : req_count'[m] <= req_count[m]
    BY DEF IInv, CoreType
  <2> QED BY <2>1, BusyKept
<1> QED BY <1>2, <1>3, <1>4, <1>5, <1>6 DEF IInv

-----------------------------------------------------------------------------
(* The actions.                                                            *)

(* Children, their monitors and users.                                     *)
LEMMA MonitorStep ==
    ASSUME IInv, NEW m \in Models, Monitor(m) \/ ChildCrashes(m) \/ UserUnload(m)
    PROVE  IInv'
<1>1. CASE ChildReady(m)
  <2>1. /\ status' \in [Models -> {"UNLOADED", "LOADING", "LOADED"}]
        /\ \A x \in Models : status'[x] # "UNLOADED" => status[x] # "UNLOADED"
        /\ StatusMatchesChild'
    BY <1>1 DEF IInv, CoreType, StatusMatchesChild, ChildReady
  <2> QED BY <1>1, <2>1, ChildStep DEF IInv, CoreType, ChildReady
<1>2. CASE MonitorDone(m)
  <2>1. /\ status' \in [Models -> {"UNLOADED", "LOADING", "LOADED"}]
        /\ \A x \in Models : status'[x] # "UNLOADED" => status[x] # "UNLOADED"
        /\ child' \in [Models -> {"none", "up", "exiting", "eof", "reaped"}]
        /\ StatusMatchesChild'
    BY <1>2 DEF IInv, CoreType, StatusMatchesChild, MonitorDone
  <2> QED BY <1>2, <2>1, ChildStep DEF IInv, CoreType, MonitorDone
<1>3. CASE StoppingThread(m) \/ ChildExits(m) \/ ChildCrashes(m) \/ MonitorErase(m)
  <2>1. /\ UNCHANGED <<status, req_count, lru, queue, pc, locals>>
        /\ child' \in [Models -> {"none", "up", "exiting", "eof", "reaped"}]
        /\ stopping_models' \subseteq Models /\ StatusMatchesChild'
    BY <1>3 DEF IInv, CoreType, StatusMatchesChild, StoppingThread, ChildExits, ChildCrashes,
                MonitorErase
  <2> QED BY <2>1, ChildStep DEF IInv, CoreType
<1>4. CASE UserUnload(m)
  <2>1. /\ UNCHANGED <<status, req_count, lru, queue, pc, locals>>
        /\ child' \in [Models -> {"none", "up", "exiting", "eof", "reaped"}]
        /\ stopping_models' \subseteq Models /\ StatusMatchesChild'
    BY <1>4, ToldStep DEF UserUnload
  <2> QED BY <2>1, ChildStep DEF IInv, CoreType
<1> QED BY <1>1, <1>2, <1>3, <1>4 DEF Monitor

(* Steps of a thread that only read.                                       *)
LEMMA LookStep ==
    ASSUME IInv, NEW r \in Requests, Arrive(r) \/ UserLoad(r) \/ Proxy(r)
    PROVE  IInv'
<1>1. PICK l \in Labels :
        /\ pc' = [pc EXCEPT ![r] = l] /\ pc[r] \in {"idle", "proxy"}
        /\ l \notin {"evict", "lru_unload", "lru_wait", "claim_ok", "claim_fail"}
  BY DEF Arrive, UserLoad, Proxy, Goto, Labels, Final
<1>2. /\ UNCHANGED <<instances, queue, locals>>
      /\ UNCHANGED <<status, req_count, lru, child, stopping_models>>
      /\ UNCHANGED <<queued, did_load, saw_loading, victim>>
  BY DEF Arrive, UserLoad, Proxy, instances, locals
<1>3. victim[r] \in Models \cup {None} /\ victim' = [victim EXCEPT ![r] = victim[r]]
  BY <1>2 DEF IInv, CoreType
<1>4. /\ child' \in [Models -> {"none", "up", "exiting", "eof", "reaped"}]
      /\ stopping_models' \subseteq Models /\ StatusMatchesChild'
      /\ did_load' \in [Requests -> BOOLEAN] /\ saw_loading' \in [Requests -> BOOLEAN]
  BY <1>2 DEF IInv, CoreType, StatusMatchesChild
<1>5. pc[r] # "serve" /\ pc[r] \notin InLoad /\ ~queued[r]
  BY <1>1 DEF IInv, QueuedWhere, InLoad
<1> QED BY <1>1, <1>2, <1>3, <1>4, <1>5, LocalStep

(* SeeLoading only sets saw_loading.                                       *)
LEMMA SeeLoadingStep ==
    ASSUME IInv, NEW r \in Requests, SeeLoading(r)
    PROVE  IInv'
<1>1. /\ UNCHANGED <<status, req_count, lru, child, stopping_models, queue, pc>>
      /\ UNCHANGED <<queued, did_load, victim>>
      /\ saw_loading' = [saw_loading EXCEPT ![r] = TRUE] /\ pc[r] = "wait"
  BY DEF SeeLoading, instances
<1>2. saw_loading' \in [Requests -> BOOLEAN] /\ did_load' \in [Requests -> BOOLEAN]
  BY <1>1 DEF IInv, CoreType
<1>3. /\ pc' = [pc EXCEPT ![r] = "wait"] /\ victim' = [victim EXCEPT ![r] = victim[r]]
      /\ victim[r] \in Models \cup {None} /\ "wait" \in Labels
  BY <1>1 DEF IInv, CoreType, Labels
<1>4. /\ child' \in [Models -> {"none", "up", "exiting", "eof", "reaped"}]
      /\ stopping_models' \subseteq Models /\ StatusMatchesChild'
  BY <1>1 DEF IInv, CoreType, StatusMatchesChild
<1>5. pc[r] # "serve" /\ pc[r] \notin InLoad /\ "wait" \notin {"evict", "lru_unload", "lru_wait"}
  BY <1>1 DEF InLoad
<1> QED BY <1>1, <1>2, <1>3, <1>4, <1>5, LocalStep

(* Steps of a thread that unload a model.                                  *)
LEMMA UnloadStep ==
    ASSUME IInv, NEW r \in Requests, EvictVictim(r) \/ UnloadLruVictim(r) \/ GiveUp(r)
    PROVE  IInv'
<1>1. PICK m \in Models, l \in Labels, v \in Models \cup {None} :
        /\ unload(m) /\ pc' = [pc EXCEPT ![r] = l] /\ victim' = [victim EXCEPT ![r] = v]
        /\ pc[r] # "serve" /\ (pc[r] \in InLoad => l \in InLoad)
        /\ l \in {"evict", "lru_unload", "lru_wait"} => v # None
        /\ queued[r] => l \in InLoad \cup {"evict", "wait"}
        /\ l \notin {"claim_ok", "claim_fail"}
        /\ UNCHANGED <<queue, queued, did_load, saw_loading>>
  <2>1. CASE EvictVictim(r)
    <3>1. /\ victim[r] \in Models /\ unload(victim[r]) /\ pc[r] = "evict"
          /\ pc' = [pc EXCEPT ![r] = "wait"] /\ victim' = [victim EXCEPT ![r] = None]
          /\ UNCHANGED <<queue, queued, did_load, saw_loading>>
      BY <2>1 DEF IInv, VictimKnown, EvictVictim, Goto
    <3>2. "wait" \in Labels /\ pc[r] \notin InLoad
      BY <3>1 DEF Labels, InLoad
    <3> QED BY <3>1, <3>2
  <2>2. CASE UnloadLruVictim(r)
    <3>1. /\ victim[r] \in Models /\ unload(victim[r]) /\ pc[r] = "lru_unload"
          /\ pc' = [pc EXCEPT ![r] = "lru_wait"] /\ victim' = [victim EXCEPT ![r] = victim[r]]
          /\ UNCHANGED <<queue, queued, did_load, saw_loading>>
      BY <2>2 DEF IInv, CoreType, VictimKnown, UnloadLruVictim, Goto, locals
    <3>2. victim[r] # None /\ "lru_wait" \in Labels /\ "lru_wait" \in InLoad
      BY <3>1, RouterAssumption DEF Labels, InLoad
    <3> QED BY <3>1, <3>2
  <2>3. CASE GiveUp(r)
    <3>1. /\ Wants[r] \in Models /\ victim = [victim EXCEPT ![r] = victim[r]]
          /\ victim[r] \in Models \cup {None} /\ ~queued[r]
      BY <2>3, RouterAssumption DEF IInv, CoreType, QueuedWhere, InLoad, GiveUp
    <3> QED BY <2>3, <3>1 DEF GiveUp, Goto, Labels, Final, InLoad, locals
  <2> QED BY <2>1, <2>2, <2>3
<1>2. /\ UNCHANGED <<status, req_count, lru>>
      /\ child' \in [Models -> {"none", "up", "exiting", "eof", "reaped"}]
      /\ stopping_models' \subseteq Models /\ StatusMatchesChild'
  BY <1>1, ToldStep
<1>3. did_load' \in [Requests -> BOOLEAN] /\ saw_loading' \in [Requests -> BOOLEAN]
  BY <1>1 DEF IInv, CoreType
<1> QED BY <1>1, <1>2, <1>3, LocalStep

(* load(): the choice of a victim, and the end of the wait for it.         *)
LEMMA LruStep ==
    ASSUME IInv, NEW r \in Requests, UnloadLru(r) \/ LruUnloaded(r)
    PROVE  IInv'
<1>1. PICK l \in {"spawn", "lru_unload"}, v \in Models \cup {None} :
        /\ pc' = [pc EXCEPT ![r] = l] /\ victim' = [victim EXCEPT ![r] = v]
        /\ pc[r] # "serve" /\ (l = "lru_unload" => v # None)
        /\ UNCHANGED <<instances, queue, queued, did_load, saw_loading>>
  <2>1. pick_victim(None) \in Models \cup {None}
    BY VictimIsIdle DEF IInv
  <2>2. CASE UnloadLru(r)
    BY <2>1, <2>2 DEF UnloadLru, Goto
  <2>3. CASE LruUnloaded(r)
    BY <2>3 DEF LruUnloaded, Goto
  <2> QED BY <2>2, <2>3
<1>2. /\ UNCHANGED <<status, req_count, lru>>
      /\ child' \in [Models -> {"none", "up", "exiting", "eof", "reaped"}]
      /\ stopping_models' \subseteq Models /\ StatusMatchesChild'
      /\ did_load' \in [Requests -> BOOLEAN] /\ saw_loading' \in [Requests -> BOOLEAN]
  BY <1>1 DEF IInv, CoreType, StatusMatchesChild, instances
<1>3. l \in Labels /\ l \in InLoad /\ (l \in {"evict", "lru_unload", "lru_wait"} => v # None)
  BY <1>1 DEF Labels, InLoad
<1> QED BY <1>1, <1>2, <1>3, LocalStep

-----------------------------------------------------------------------------
(* Steps that change the queue.                                            *)

(* A request is counted as waiting for its model and for no other.         *)
LEMMA WaitersChange ==
    ASSUME CoreType, NEW r \in Requests, NEW b \in BOOLEAN, queued' = [queued EXCEPT ![r] = b],
           NEW m \in Models
    PROVE  /\ Cardinality(Waiters(m)) \in Nat /\ Cardinality(Waiters(m)') \in Nat
           /\ m # Wants[r] \/ queued[r] = b => Waiters(m)' = Waiters(m)
           /\ m = Wants[r] /\ b /\ ~queued[r] =>
                 Cardinality(Waiters(m)') = Cardinality(Waiters(m)) + 1
           /\ m = Wants[r] /\ ~b /\ queued[r] =>
                 Cardinality(Waiters(m)) = Cardinality(Waiters(m)') + 1
<1> DEFINE A == Waiters(m)
           B == Waiters(m)'
<1>1. A \in SUBSET Requests /\ B \in SUBSET Requests
  BY DEF Waiters
<1>2. \A x \in Requests : queued'[x] = IF x = r THEN b ELSE queued[x]
  BY DEF CoreType
<1>3. m # Wants[r] \/ queued[r] = b => B = A
  BY <1>2 DEF Waiters
<1>4. m = Wants[r] /\ b /\ ~queued[r] => r \notin A /\ B = A \cup {r}
  BY <1>2 DEF Waiters
<1>5. m = Wants[r] /\ ~b /\ queued[r] => r \notin B /\ A = B \cup {r}
  BY <1>2 DEF Waiters
<1> HIDE DEF A, B
<1>6. Cardinality(A) \in Nat /\ Cardinality(B) \in Nat
  BY <1>1, CountRequests
<1>7. r \notin A /\ B = A \cup {r} => Cardinality(B) = Cardinality(A) + 1
  BY <1>1, CountRequests
<1>8. r \notin B /\ A = B \cup {r} => Cardinality(A) = Cardinality(B) + 1
  BY <1>1, CountRequests
<1> QED BY <1>3, <1>4, <1>5, <1>6, <1>7, <1>8 DEF A, B

(* What the invariant says of one entry.                                   *)
LEMMA EntryFacts ==
    ASSUME IInv, NEW j \in DOMAIN queue
    PROVE  /\ queue[j] \in Entry /\ queue[j].model \in Models /\ queue[j].n_waiters \in Nat \ {0}
           /\ queue[j].n_waiters <= Cardinality(Waiters(queue[j].model))
           /\ queue[j].loading => \E x \in Requests :
                 Wants[x] = queue[j].model /\ queued[x] /\ pc[x] \in InLoad
<1>1. queue[j] \in Entry
  BY DEF IInv, CoreType
<1>2. queue[j].n_waiters <= Cardinality(Waiters(queue[j].model))
  BY DEF IInv, NoGhostWaiters, Waiters
<1>3. queue[j].loading => \E x \in Requests :
         Wants[x] = queue[j].model /\ queued[x] /\ pc[x] \in InLoad
  BY DEF IInv, ClaimHeld, InLoad
<1>4. queue[j].model \in Models /\ queue[j].n_waiters \in Nat \ {0}
  BY <1>1 DEF Entry
<1> QED BY <1>1, <1>2, <1>3, <1>4

(* An entry whose model is not the one a thread moves for keeps its        *)
(* waiters and the holder of its claim.                                    *)
LEMMA OtherEntry ==
    ASSUME IInv, NEW r \in Requests, NEW l, pc' = [pc EXCEPT ![r] = l],
           NEW b \in BOOLEAN, queued' = [queued EXCEPT ![r] = b],
           NEW m \in Models, m # Wants[r], NEW j \in DOMAIN queue, queue[j].model = m
    PROVE  /\ queue[j].n_waiters <= Cardinality(Waiters(m)')
           /\ queue[j].loading => \E x \in Requests :
                 Wants[x] = m /\ queued'[x] /\ pc'[x] \in InLoad
<1>1. Waiters(m)' = Waiters(m)
  BY WaitersChange DEF IInv
<1>2. \A x \in Requests : x # r => queued'[x] = queued[x] /\ pc'[x] = pc[x]
  BY DEF IInv, CoreType
<1> QED BY <1>1, <1>2, EntryFacts

(* NoGhostWaiters and ClaimHeld, entry by entry.                           *)
LEMMA EntriesSound ==
    ASSUME queue' \in Seq(Entry),
           \A k \in DOMAIN queue' : \A m \in Models : queue'[k].model = m =>
              /\ queue'[k].n_waiters <= Cardinality(Waiters(m)')
              /\ queue'[k].loading => \E x \in Requests :
                    Wants[x] = m /\ queued'[x] /\ pc'[x] \in InLoad
    PROVE  NoGhostWaiters' /\ ClaimHeld'
<1>1. \A k \in DOMAIN queue' : queue'[k].model \in Models
  <2>1. \A k \in DOMAIN queue' : queue'[k] \in Entry
    OBVIOUS
  <2> QED BY <2>1 DEF Entry
<1>2. NoGhostWaiters'
  BY <1>1 DEF NoGhostWaiters, Waiters
<1>3. ClaimHeld'
  BY <1>1 DEF ClaimHeld, InLoad
<1> QED BY <1>2, <1>3

(* A request that has to wait joins the queue.                             *)
LEMMA EnterStep ==
    ASSUME IInv, NEW r \in Requests, Enter(r)
    PROVE  IInv'
<1> DEFINE m == Wants[r]
           v == IF has_capacity THEN None ELSE pick_victim(m)
<1>1. m \in Models /\ v \in Models \cup {None} /\ (v # None) \in BOOLEAN
  <2>1. m \in Models
    BY RouterAssumption
  <2>2. pick_victim(m) \in Models \cup {None}
    BY VictimIsIdle DEF IInv
  <2> QED BY <2>1, <2>2
<1>2. /\ UNCHANGED <<status, req_count, lru>>
      /\ child' \in [Models -> {"none", "up", "exiting", "eof", "reaped"}]
      /\ stopping_models' \subseteq Models /\ StatusMatchesChild'
      /\ did_load' \in [Requests -> BOOLEAN] /\ saw_loading' \in [Requests -> BOOLEAN]
  BY DEF IInv, CoreType, StatusMatchesChild, Enter, instances
<1>3. pc[r] = "enter" /\ pc[r] # "serve" /\ pc[r] \notin InLoad /\ ~queued[r]
  BY DEF IInv, QueuedWhere, InLoad, Enter
<1>4. CASE UNCHANGED <<queue, queued, victim>> /\ (Goto(r, "wait") \/ Goto(r, "load"))
  <2>1. PICK l \in {"wait", "load"} : pc' = [pc EXCEPT ![r] = l]
    BY <1>4 DEF Goto
  <2>2. l \in Labels
    BY DEF Labels
  <2>3. victim[r] \in Models \cup {None} /\ victim' = [victim EXCEPT ![r] = victim[r]]
    BY <1>4 DEF IInv, CoreType
  <2> QED BY <1>2, <1>3, <1>4, <2>1, <2>2, <2>3, LocalStep
<1>5. CASE /\ queue' = joined(m, v # None) /\ queued' = [queued EXCEPT ![r] = TRUE]
           /\ victim' = [victim EXCEPT ![r] = v]
           /\ Goto(r, IF v = None THEN "wait" ELSE "evict")
  <2> HIDE DEF v
  <2>1. PICK l \in {"wait", "evict"} : pc' = [pc EXCEPT ![r] = l] /\ (l = "evict" => v # None)
    BY <1>5 DEF Goto
  <2>2. l \in Labels /\ (l \in {"evict", "lru_unload", "lru_wait"} => v # None)
    BY <2>1 DEF Labels
  <2>3. /\ queue' \in Seq(Entry) /\ OneEntryPerModel'
        /\ \A k \in DOMAIN queue' :
              \/ queue'[k].model # m /\ \E j \in DOMAIN queue : queue'[k] = queue[j]
              \/ /\ queue'[k].model = m
                 /\ \/ queue'[k].n_waiters = 1 /\ ~queue'[k].loading
                    \/ \E j \in DOMAIN queue :
                          /\ queue[j].model = m /\ queue'[k].loading = queue[j].loading
                          /\ queue'[k].n_waiters = queue[j].n_waiters + 1
    BY <1>1, <1>5, JoinedEntries DEF IInv
  <2>4. ASSUME NEW k \in DOMAIN queue', NEW x \in Models, queue'[k].model = x
        PROVE  /\ queue'[k].n_waiters <= Cardinality(Waiters(x)')
               /\ queue'[k].loading => \E y \in Requests :
                     Wants[y] = x /\ queued'[y] /\ pc'[y] \in InLoad
    <3>1. CASE x # m
      <4>1. PICK j \in DOMAIN queue : queue'[k] = queue[j]
        BY <2>3, <2>4, <3>1
      <4>2. queue[j].model = x /\ x # Wants[r] /\ TRUE \in BOOLEAN
        BY <2>4, <3>1, <4>1
      <4>3. /\ queue[j].n_waiters <= Cardinality(Waiters(x)')
            /\ queue[j].loading => \E y \in Requests :
                  Wants[y] = x /\ queued'[y] /\ pc'[y] \in InLoad
        BY <1>5, <2>1, <4>2, OtherEntry, Zenon
      <4> QED BY <4>1, <4>3
    <3>2. CASE x = m
      <4>1. /\ Cardinality(Waiters(m)) \in Nat
            /\ Cardinality(Waiters(m)') = Cardinality(Waiters(m)) + 1
        BY <1>1, <1>3, <1>5, WaitersChange DEF IInv
      <4>2. CASE queue'[k].n_waiters = 1 /\ ~queue'[k].loading
        BY <3>2, <4>1, <4>2
      <4>3. CASE \E j \in DOMAIN queue :
                   /\ queue[j].model = m /\ queue'[k].loading = queue[j].loading
                   /\ queue'[k].n_waiters = queue[j].n_waiters + 1
        <5>1. PICK j \in DOMAIN queue :
                   /\ queue[j].model = m /\ queue'[k].loading = queue[j].loading
                   /\ queue'[k].n_waiters = queue[j].n_waiters + 1
          BY <4>3
        <5>2. /\ queue[j].n_waiters \in Nat /\ queue[j].n_waiters <= Cardinality(Waiters(m))
              /\ queue[j].loading => \E y \in Requests :
                    Wants[y] = m /\ queued[y] /\ pc[y] \in InLoad
          BY <5>1, EntryFacts
        <5>3. queue'[k].n_waiters <= Cardinality(Waiters(m)')
          BY <4>1, <5>1, <5>2
        <5>4. \A y \in Requests : pc[y] \in InLoad => pc'[y] = pc[y] /\ queued'[y] = queued[y]
          BY <1>3, <1>5, <2>1 DEF IInv, CoreType
        <5> QED BY <3>2, <5>1, <5>2, <5>3, <5>4
      <4> QED BY <2>3, <2>4, <3>2, <4>2, <4>3
    <3> QED BY <3>1, <3>2
  <2>5. NoGhostWaiters' /\ ClaimHeld'
    BY <2>3, <2>4, EntriesSound
  <2> QED BY <1>1, <1>2, <1>3, <1>5, <2>1, <2>2, <2>3, <2>5, ThreadStep
<1> QED BY <1>4, <1>5 DEF Enter

(* The end of a wait, or a client that goes: one waiter less.              *)
LEMMA LeaveStep ==
    ASSUME IInv, NEW r \in Requests, WaitOver(r) \/ Cancelled(r)
    PROVE  IInv'
<1> DEFINE m == Wants[r]
<1>1. PICK l \in {"proxy", "error", "cancelled"} : pc' = [pc EXCEPT ![r] = l]
  BY DEF WaitOver, Cancelled, Goto
<1>2. /\ l \in Labels /\ l \notin {"evict", "lru_unload", "lru_wait"}
      /\ l \notin {"claim_ok", "claim_fail"} /\ m \in Models /\ FALSE \in BOOLEAN
  BY RouterAssumption DEF Labels, Final
<1>3. /\ pc[r] = "wait" /\ leave_queue(r) /\ UNCHANGED <<instances, victim>>
  BY DEF WaitOver, Cancelled, Waiting
<1>4. /\ UNCHANGED <<status, req_count, lru>>
      /\ child' \in [Models -> {"none", "up", "exiting", "eof", "reaped"}]
      /\ stopping_models' \subseteq Models /\ StatusMatchesChild'
      /\ did_load' \in [Requests -> BOOLEAN] /\ saw_loading' \in [Requests -> BOOLEAN]
      /\ victim[r] \in Models \cup {None} /\ victim' = [victim EXCEPT ![r] = victim[r]]
      /\ queued' = [queued EXCEPT ![r] = FALSE]
  BY <1>3 DEF IInv, CoreType, StatusMatchesChild, leave_queue, instances
<1>5. pc[r] # "serve" /\ pc[r] \notin InLoad
  BY <1>3 DEF InLoad
<1>6. CASE ~queued[r]
  <2>1. UNCHANGED <<queue, queued>>
    BY <1>3, <1>4, <1>6 DEF IInv, CoreType, leave_queue
  <2> QED BY <1>1, <1>2, <1>4, <1>5, <1>6, <2>1, LocalStep
<1>7. CASE queued[r]
  <2>1. queue' = left(m)
    BY <1>3, <1>7 DEF leave_queue
  <2>2. /\ queue' \in Seq(Entry) /\ OneEntryPerModel'
        /\ \A k \in DOMAIN queue' :
              \/ queue'[k].model # m /\ \E j \in DOMAIN queue : queue'[k] = queue[j]
              \/ /\ queue'[k].model = m
                 /\ \E j \in DOMAIN queue :
                       /\ queue[j].model = m /\ queue'[k].loading = queue[j].loading
                       /\ queue'[k].n_waiters + 1 = queue[j].n_waiters
    BY <1>2, <2>1, LeftEntries DEF IInv
  <2>3. ASSUME NEW k \in DOMAIN queue', NEW x \in Models, queue'[k].model = x
        PROVE  /\ queue'[k].n_waiters <= Cardinality(Waiters(x)')
               /\ queue'[k].loading => \E y \in Requests :
                     Wants[y] = x /\ queued'[y] /\ pc'[y] \in InLoad
    <3>1. CASE x # m
      <4>1. PICK j \in DOMAIN queue : queue'[k] = queue[j]
        BY <2>2, <2>3, <3>1
      <4>2. /\ queue[j].model = x /\ x # Wants[r] /\ FALSE \in BOOLEAN
            /\ pc' = [pc EXCEPT ![r] = l] /\ queued' = [queued EXCEPT ![r] = FALSE]
        BY <1>1, <1>4, <2>3, <3>1, <4>1
      <4>3. /\ queue[j].n_waiters <= Cardinality(Waiters(x)')
            /\ queue[j].loading => \E y \in Requests :
                  Wants[y] = x /\ queued'[y] /\ pc'[y] \in InLoad
        BY <4>2, OtherEntry, Zenon
      <4> QED BY <4>1, <4>3
    <3>2. CASE x = m
      <4>1. PICK j \in DOMAIN queue :
                   /\ queue[j].model = m /\ queue'[k].loading = queue[j].loading
                   /\ queue'[k].n_waiters + 1 = queue[j].n_waiters
        BY <2>2, <2>3, <3>2
      <4>2. /\ Cardinality(Waiters(m)') \in Nat
            /\ Cardinality(Waiters(m)) = Cardinality(Waiters(m)') + 1
        BY <1>2, <1>4, <1>7, WaitersChange DEF IInv
      <4>3. /\ queue[j].n_waiters \in Nat /\ queue[j].n_waiters <= Cardinality(Waiters(m))
            /\ queue[j].loading => \E y \in Requests :
                  Wants[y] = m /\ queued[y] /\ pc[y] \in InLoad
        BY <4>1, EntryFacts
      <4>4. queue'[k].n_waiters \in Nat
        <5>1. queue'[k] \in Entry
          BY <2>2, <2>3
        <5> QED BY <5>1 DEF Entry
      <4>5. queue'[k].n_waiters <= Cardinality(Waiters(m)')
        BY <4>1, <4>2, <4>3, <4>4
      <4>6. \A y \in Requests : pc[y] \in InLoad => pc'[y] = pc[y] /\ queued'[y] = queued[y]
        BY <1>1, <1>4, <1>5 DEF IInv, CoreType
      <4> QED BY <3>2, <4>1, <4>3, <4>5, <4>6
    <3> QED BY <3>1, <3>2
  <2>4. NoGhostWaiters' /\ ClaimHeld'
    BY <2>2, <2>3, EntriesSound
  <2> QED BY <1>1, <1>2, <1>4, <1>5, <2>2, <2>4, ThreadStep
<1> QED BY <1>6, <1>7

(* The head of the queue is claimed by a waiter of its model.              *)
LEMMA ClaimStep ==
    ASSUME IInv, NEW r \in Requests, Claim(r)
    PROVE  IInv'
<1> DEFINE m == Wants[r]
           e == [queue[1] EXCEPT !.loading = TRUE]
<1>1. /\ pc[r] = "wait" /\ status[m] = "UNLOADED" /\ queue' = claimed
      /\ queue # <<>> /\ Head(queue).model = m
      /\ pc' = [pc EXCEPT ![r] = "load"] /\ UNCHANGED <<instances, locals>>
  BY DEF Claim, Waiting, can_claim, Goto
<1>2. queued[r]
  <2>1. queued[r] \in BOOLEAN /\ status[m] # "LOADING"
    BY <1>1 DEF IInv, CoreType
  <2> QED BY <2>1 DEF Claim, Waiting
<1>3. /\ UNCHANGED <<status, req_count, lru>>
      /\ child' \in [Models -> {"none", "up", "exiting", "eof", "reaped"}]
      /\ stopping_models' \subseteq Models /\ StatusMatchesChild'
      /\ did_load' \in [Requests -> BOOLEAN] /\ saw_loading' \in [Requests -> BOOLEAN]
      /\ victim[r] \in Models \cup {None} /\ victim' = [victim EXCEPT ![r] = victim[r]]
      /\ queued[r] \in BOOLEAN /\ queued' = [queued EXCEPT ![r] = queued[r]] /\ queued' = queued
  BY <1>1 DEF IInv, CoreType, StatusMatchesChild, instances, locals
<1>4. /\ queue \in Seq(Entry) /\ 1 \in 1 .. Len(queue) /\ DOMAIN queue = 1 .. Len(queue)
      /\ queue[1].model = m
  BY <1>1 DEF IInv, CoreType
<1>5. queue' = [queue EXCEPT ![1] = e]
  BY <1>1, <1>4 DEF claimed
<1>6. e \in Entry /\ e.model = m /\ e.model = queue[1].model /\ e.n_waiters = queue[1].n_waiters
  <2>1. queue[1] \in Entry
    BY <1>4
  <2> QED BY <1>4, <2>1 DEF Entry
<1> HIDE DEF e
<1>7. /\ queue' \in Seq(Entry) /\ OneEntryPerModel' /\ DOMAIN queue' = DOMAIN queue
      /\ queue'[1] = e
      /\ \A k \in DOMAIN queue : k # 1 => queue'[k] = queue[k] /\ queue[k].model # e.model
  BY <1>4, <1>5, <1>6, EntryUpdated, Zenon DEF IInv
<1>8. "load" \in Labels /\ "load" \in InLoad /\ "load" \notin {"evict", "lru_unload", "lru_wait"}
      /\ "load" \notin {"claim_ok", "claim_fail"} /\ pc[r] # "serve" /\ m \in Models
  BY <1>1, RouterAssumption DEF Labels, InLoad
<1>9. ASSUME NEW k \in DOMAIN queue', NEW x \in Models, queue'[k].model = x
      PROVE  /\ queue'[k].n_waiters <= Cardinality(Waiters(x)')
             /\ queue'[k].loading => \E y \in Requests :
                   Wants[y] = x /\ queued'[y] /\ pc'[y] \in InLoad
  <2>1. CASE k = 1
    <3>1. /\ x = m /\ queue'[k].n_waiters = queue[1].n_waiters /\ 1 \in DOMAIN queue
          /\ Waiters(m)' = Waiters(m)
      BY <1>3, <1>4, <1>6, <1>7, <1>9, <2>1 DEF Waiters
    <3>2. queue[1].n_waiters <= Cardinality(Waiters(m))
      BY <1>4, <3>1, EntryFacts
    <3>3. Wants[r] = x /\ queued'[r] /\ pc'[r] \in InLoad
      BY <1>1, <1>2, <1>3, <1>8, <3>1 DEF IInv, CoreType
    <3> QED BY <3>1, <3>2, <3>3
  <2>2. CASE k # 1
    <3>1. k \in DOMAIN queue /\ queue'[k] = queue[k] /\ queue[k].model = x /\ x # Wants[r]
      BY <1>6, <1>7, <1>9, <2>2
    <3>2. /\ pc' = [pc EXCEPT ![r] = "load"] /\ TRUE \in BOOLEAN
          /\ queued' = [queued EXCEPT ![r] = TRUE]
      BY <1>1, <1>2, <1>3 DEF IInv, CoreType
    <3>3. /\ queue[k].n_waiters <= Cardinality(Waiters(x)')
          /\ queue[k].loading => \E y \in Requests :
                Wants[y] = x /\ queued'[y] /\ pc'[y] \in InLoad
      BY <3>1, <3>2, OtherEntry, Zenon
    <3> QED BY <3>1, <3>3
  <2> QED BY <2>1, <2>2
<1>10. NoGhostWaiters' /\ ClaimHeld'
  BY <1>7, <1>9, EntriesSound
<1> QED BY <1>1, <1>3, <1>7, <1>8, <1>10, ThreadStep

(* claim_done(): the entry goes with the load, or gives its claim back.    *)
LEMMA ClaimDoneStep ==
    ASSUME IInv, NEW r \in Requests, ClaimDone(r)
    PROVE  IInv'
<1> DEFINE m == Wants[r]
<1>1. PICK ok \in BOOLEAN :
        /\ queue' = claim_done(m, ok) /\ queued' = [queued EXCEPT ![r] = ~ok]
        /\ pc[r] \in {"claim_ok", "claim_fail"} /\ pc' = [pc EXCEPT ![r] = "wait"]
  <2>1. CASE pc[r] = "claim_ok"
    <3>1. (pc[r] = "claim_ok") = TRUE /\ (pc[r] = "claim_fail") = FALSE
      BY <2>1
    <3>2. queue' = claim_done(m, TRUE) /\ queued' = [queued EXCEPT ![r] = ~TRUE]
      BY <3>1 DEF ClaimDone
    <3> QED BY <2>1, <3>2 DEF ClaimDone, Goto
  <2>2. CASE pc[r] = "claim_fail"
    <3>1. (pc[r] = "claim_ok") = FALSE /\ (pc[r] = "claim_fail") = TRUE
      BY <2>2
    <3>2. queue' = claim_done(m, FALSE) /\ queued' = [queued EXCEPT ![r] = ~FALSE]
      BY <3>1 DEF ClaimDone
    <3> QED BY <2>2, <3>2 DEF ClaimDone, Goto
  <2> QED BY <2>1, <2>2 DEF ClaimDone
<1>2. /\ UNCHANGED <<status, req_count, lru>>
      /\ child' \in [Models -> {"none", "up", "exiting", "eof", "reaped"}]
      /\ stopping_models' \subseteq Models /\ StatusMatchesChild'
      /\ did_load' \in [Requests -> BOOLEAN] /\ saw_loading' \in [Requests -> BOOLEAN]
      /\ victim[r] \in Models \cup {None} /\ victim' = [victim EXCEPT ![r] = victim[r]]
  BY DEF IInv, CoreType, StatusMatchesChild, ClaimDone, instances
<1>3. /\ queued[r] /\ pc[r] # "serve" /\ m \in Models /\ "wait" \in Labels
      /\ "wait" \notin {"evict", "lru_unload", "lru_wait"} /\ (~ok) \in BOOLEAN
  BY <1>1, RouterAssumption DEF IInv, QueuedWhere, Labels
<1>4. /\ queue' \in Seq(Entry) /\ OneEntryPerModel'
      /\ \A k \in DOMAIN queue' :
            \/ queue'[k].model # m /\ \E j \in DOMAIN queue : queue'[k] = queue[j]
            \/ /\ ~ok /\ queue'[k].model = m /\ ~queue'[k].loading
               /\ \E j \in DOMAIN queue :
                     queue[j].model = m /\ queue'[k].n_waiters = queue[j].n_waiters
  BY <1>1, <1>3, ClaimDoneEntries DEF IInv
<1>5. ASSUME NEW k \in DOMAIN queue', NEW x \in Models, queue'[k].model = x
      PROVE  /\ queue'[k].n_waiters <= Cardinality(Waiters(x)')
             /\ queue'[k].loading => \E y \in Requests :
                   Wants[y] = x /\ queued'[y] /\ pc'[y] \in InLoad
  <2>1. CASE x # m
    <3>1. PICK j \in DOMAIN queue : queue'[k] = queue[j]
      BY <1>4, <1>5, <2>1
    <3>2. /\ queue[j].model = x /\ x # Wants[r] /\ (~ok) \in BOOLEAN
          /\ pc' = [pc EXCEPT ![r] = "wait"] /\ queued' = [queued EXCEPT ![r] = ~ok]
      BY <1>1, <1>3, <1>5, <2>1, <3>1
    <3>3. /\ queue[j].n_waiters <= Cardinality(Waiters(x)')
          /\ queue[j].loading => \E y \in Requests :
                Wants[y] = x /\ queued'[y] /\ pc'[y] \in InLoad
      BY <3>2, OtherEntry, Zenon
    <3> QED BY <3>1, <3>3
  <2>2. CASE x = m
    <3>1. PICK j \in DOMAIN queue :
            /\ queue[j].model = m /\ queue'[k].n_waiters = queue[j].n_waiters
            /\ ~ok /\ ~queue'[k].loading
      BY <1>4, <1>5, <2>2
    <3>2. queued' = queued
      BY <1>1, <1>3, <3>1 DEF IInv, CoreType
    <3>3. Waiters(m)' = Waiters(m)
      BY <3>2 DEF Waiters
    <3>4. queue[j].n_waiters <= Cardinality(Waiters(m))
      BY <3>1, EntryFacts
    <3> QED BY <2>2, <3>1, <3>3, <3>4
  <2> QED BY <2>1, <2>2
<1>6. NoGhostWaiters' /\ ClaimHeld'
  BY <1>4, <1>5, EntriesSound
<1> QED BY <1>1, <1>2, <1>3, <1>4, <1>6, ThreadStep

(* on_model_idle(): the first entry without a promise gets one.            *)
LEMMA OnModelIdleStep ==
    ASSUME IInv, NEW r \in Requests, OnModelIdle(r)
    PROVE  IInv'
<1>1. PICK l \in {"give_up", "served"} : pc' = [pc EXCEPT ![r] = l] /\ pc[r] = "went_idle"
  BY DEF OnModelIdle, Goto
<1>2. /\ UNCHANGED <<status, req_count, lru>>
      /\ child' \in [Models -> {"none", "up", "exiting", "eof", "reaped"}]
      /\ stopping_models' \subseteq Models /\ StatusMatchesChild'
      /\ did_load' \in [Requests -> BOOLEAN] /\ saw_loading' \in [Requests -> BOOLEAN]
      /\ victim[r] \in Models \cup {None} /\ victim' = [victim EXCEPT ![r] = victim[r]]
      /\ queued' = queued
  BY DEF IInv, CoreType, StatusMatchesChild, OnModelIdle, instances, locals
<1>3. /\ ~queued[r] /\ pc[r] # "serve" /\ pc[r] \notin InLoad /\ l \in Labels
      /\ l \notin {"evict", "lru_unload", "lru_wait"} /\ l \notin {"claim_ok", "claim_fail"}
      /\ queued' = [queued EXCEPT ![r] = FALSE]
  BY <1>1, <1>2 DEF IInv, CoreType, QueuedWhere, InLoad, Labels, Final
<1>4. CASE queue' = queue
  BY <1>1, <1>2, <1>3, <1>4, LocalStep
<1>5. CASE gives_up(Wants[r]) /\ queue' = first_pending
  <2> DEFINE first(k) == ~queue[k].slot_pending /\ \A j \in 1 .. k - 1 : queue[j].slot_pending
             i == CHOOSE k \in DOMAIN queue : first(k)
             e == [queue[i] EXCEPT !.slot_pending = TRUE]
             K == {k \in DOMAIN queue : ~queue[k].slot_pending}
  <2>1. queue \in Seq(Entry) /\ DOMAIN queue = 1 .. Len(queue) /\ Len(queue) \in Nat
    BY DEF IInv, CoreType
  <2>2. K \in SUBSET Nat /\ K # {}
    BY <1>5, <2>1 DEF gives_up, needs_slot
  <2>3. Min(K) \in DOMAIN queue /\ first(Min(K))
    <3>1. Min(K) \in K /\ \A q \in K : Min(K) <= q
      BY <2>2, MinIsLeast
    <3>2. ASSUME NEW j \in 1 .. Min(K) - 1 PROVE queue[j].slot_pending
      <4>1. j \in DOMAIN queue /\ ~(Min(K) <= j)
        BY <2>1, <3>1
      <4> QED BY <3>1, <4>1
    <3> QED BY <3>1, <3>2
  <2>4. i \in 1 .. Len(queue)
    BY <2>1, <2>3
  <2>5. queue' = [queue EXCEPT ![i] = e]
    BY <1>5, <2>1, <2>4 DEF first_pending
  <2> HIDE DEF i
  <2>6. queue[i] \in Entry
    BY <2>1, <2>4
  <2>7. e \in Entry /\ e.model = queue[i].model /\ e.n_waiters = queue[i].n_waiters
        /\ e.loading = queue[i].loading
    BY <2>6 DEF Entry
  <2> HIDE DEF e
  <2>8. /\ queue' \in Seq(Entry) /\ OneEntryPerModel' /\ DOMAIN queue' = DOMAIN queue
        /\ queue'[i] = e
        /\ \A k \in DOMAIN queue : k # i => queue'[k] = queue[k] /\ queue[k].model # e.model
    BY <2>4, <2>5, <2>7, EntryUpdated, Zenon DEF IInv
  <2>9. ASSUME NEW k \in DOMAIN queue', NEW x \in Models, queue'[k].model = x
        PROVE  /\ queue'[k].n_waiters <= Cardinality(Waiters(x)')
               /\ queue'[k].loading => \E y \in Requests :
                     Wants[y] = x /\ queued'[y] /\ pc'[y] \in InLoad
    <3>1. /\ k \in DOMAIN queue /\ queue[k].model = x /\ queue'[k].n_waiters = queue[k].n_waiters
          /\ queue'[k].loading = queue[k].loading
      BY <2>7, <2>8, <2>9
    <3>2. /\ queue[k].n_waiters <= Cardinality(Waiters(x))
          /\ queue[k].loading => \E y \in Requests :
                Wants[y] = x /\ queued[y] /\ pc[y] \in InLoad
      BY <3>1, EntryFacts
    <3>3. Waiters(x)' = Waiters(x) /\ \A y \in Requests : pc[y] \in InLoad => pc'[y] = pc[y]
      BY <1>1, <1>2, <1>3 DEF Waiters, IInv, CoreType
    <3> QED BY <1>2, <3>1, <3>2, <3>3
  <2>10. NoGhostWaiters' /\ ClaimHeld'
    BY <2>8, <2>9, EntriesSound
  <2>11. FALSE \in BOOLEAN
    OBVIOUS
  <2> QED BY <1>1, <1>2, <1>3, <2>8, <2>10, <2>11, ThreadStep
<1> QED BY <1>4, <1>5 DEF OnModelIdle

-----------------------------------------------------------------------------
(* Steps that change the instances.                                        *)

(* load(): a child is started only where the capacity is still there.      *)
LEMMA SpawnStep ==
    ASSUME IInv, NEW r \in Requests, Spawn(r) \/ SpawnFails(r)
    PROVE  IInv'
<1> DEFINE m == Wants[r]
<1>1. PICK l \in {"wait", "served", "thrown", "claim_ok", "claim_fail"} :
        /\ pc' = [pc EXCEPT ![r] = l] /\ (queued[r] <=> l \in {"claim_ok", "claim_fail"})
  BY DEF Spawn, SpawnFails, Goto, Returned, Thrown
<1>2. /\ pc[r] = "spawn" /\ UNCHANGED <<queue, queued, saw_loading, victim>>
      /\ did_load' \in [Requests -> BOOLEAN] /\ saw_loading' \in [Requests -> BOOLEAN]
      /\ victim[r] \in Models \cup {None} /\ victim' = [victim EXCEPT ![r] = victim[r]]
  BY DEF Spawn, SpawnFails, locals, IInv, CoreType
<1>3. /\ l \in Labels /\ l \notin {"evict", "lru_unload", "lru_wait"} /\ m \in Models
      /\ (queued[r] => l \in InLoad) /\ pc[r] # "serve" /\ pc[r] \in InLoad
      /\ l \in {"claim_ok", "claim_fail"} => queued[r]
  BY <1>1, <1>2, RouterAssumption DEF Labels, Final, InLoad
<1>4. CASE UNCHANGED instances
  <2>1. /\ UNCHANGED <<status, req_count, lru>>
        /\ child' \in [Models -> {"none", "up", "exiting", "eof", "reaped"}]
        /\ stopping_models' \subseteq Models /\ StatusMatchesChild'
    BY <1>4 DEF IInv, CoreType, StatusMatchesChild, instances
  <2> QED BY <1>1, <1>2, <1>3, <2>1, LocalStep
<1>5. CASE /\ status[m] = "UNLOADED" /\ has_capacity
           /\ status' = [status EXCEPT ![m] = "LOADING"] /\ child' = [child EXCEPT ![m] = "up"]
           /\ req_count' = [req_count EXCEPT ![m] = 0] /\ lru' = touched(m)
           /\ UNCHANGED stopping_models
  <2>1. CoreType'
    <3>1. /\ status' \in [Models -> {"UNLOADED", "LOADING", "LOADED"}]
          /\ req_count' \in [Models -> Nat] /\ stopping_models' \subseteq Models
          /\ child' \in [Models -> {"none", "up", "exiting", "eof", "reaped"}]
      BY <1>3, <1>5 DEF IInv, CoreType
    <3>2. lru' \in [1 .. Cardinality(Models) -> Models] /\ ToSet(lru') = Models
      BY <1>3, <1>5, TouchedOrder DEF IInv
    <3>3. /\ queue' \in Seq(Entry) /\ queued' \in [Requests -> BOOLEAN]
          /\ pc' \in [Requests -> Labels] /\ victim' \in [Requests -> Models \cup {None}]
      BY <1>1, <1>2, <1>3 DEF IInv, CoreType
    <3> QED BY <1>2, <3>1, <3>2, <3>3 DEF CoreType
  <2>2. StatusMatchesChild'
    BY <1>3, <1>5 DEF IInv, CoreType, StatusMatchesChild
  <2>3. WithinCapacity'
    <3>1. Running' = Running \cup {m} /\ m \notin Running /\ Running \in SUBSET Models
      BY <1>3, <1>5 DEF IInv, CoreType, Running
    <3>2. IsFiniteSet(Running)
      BY <3>1, RouterAssumption, FS_Subset
    <3>3. /\ Cardinality(Running) \in Nat
          /\ Cardinality(Running \cup {m}) = Cardinality(Running) + 1
      BY <3>1, <3>2, FS_AddElement, FS_CardinalityType
    <3>4. Cardinality(Running) < ModelsMax /\ ModelsMax \in Nat
      BY <1>5, RouterAssumption DEF has_capacity
    <3> QED BY <3>1, <3>3, <3>4 DEF WithinCapacity
  <2>4. VictimKnown' /\ QueuedWhere'
    BY <1>1, <1>2, <1>3 DEF IInv, CoreType, VictimKnown, QueuedWhere
  <2>5. OneEntryPerModel' /\ NoGhostWaiters'
    BY <1>2, QueueKept
  <2>6. ClaimHeld'
    <3>1. \A x \in Requests : queued[x] /\ pc[x] \in InLoad => queued'[x] /\ pc'[x] \in InLoad
      BY <1>1, <1>2, <1>3 DEF IInv, CoreType
    <3> QED BY <1>2, <3>1, ClaimKept
  <2>7. BusyIsServing'
    <3>1. req_count' \in [Models -> Nat] /\ \A x \in Models : req_count'[x] <= req_count[x]
      BY <1>3, <1>5 DEF IInv, CoreType
    <3>2. \A x \in Requests : pc[x] = "serve" => pc'[x] = "serve"
      BY <1>1, <1>3 DEF IInv, CoreType
    <3> QED BY <3>1, <3>2, BusyKept
  <2> QED BY <2>1, <2>2, <2>3, <2>4, <2>5, <2>6, <2>7 DEF IInv
<1> QED BY <1>4, <1>5 DEF Spawn, SpawnFails

(* A thread outside the queue moves on and may change a request count.     *)
LEMMA CountStep ==
    ASSUME IInv, NEW r \in Requests, NEW l \in Labels, pc' = [pc EXCEPT ![r] = l],
           pc[r] \in {"count", "serve"}, l \in {"serve", "went_idle", "served"},
           UNCHANGED <<status, child, stopping_models, queue, locals>>,
           req_count' \in [Models -> Nat], lru' \in [1 .. Cardinality(Models) -> Models],
           ToSet(lru') = Models, BusyIsServing'
    PROVE  IInv'
<1>1. UNCHANGED <<queued, did_load, saw_loading, victim>>
  BY DEF locals
<1>2. ~queued[r] /\ pc[r] \notin InLoad
  BY DEF IInv, QueuedWhere, InLoad
<1>3. CoreType'
  BY <1>1 DEF IInv, CoreType
<1>4. VictimKnown' /\ QueuedWhere' /\ StatusMatchesChild'
  BY <1>1, <1>2 DEF IInv, CoreType, VictimKnown, QueuedWhere, StatusMatchesChild
<1>5. WithinCapacity'
  BY CapacityKept
<1>6. OneEntryPerModel' /\ NoGhostWaiters'
  BY <1>1, QueueKept
<1>7. ClaimHeld'
  <2>1. \A x \in Requests : queued[x] /\ pc[x] \in InLoad => queued'[x] /\ pc'[x] \in InLoad
    BY <1>1, <1>2 DEF IInv, CoreType
  <2> QED BY <2>1, ClaimKept
<1> QED BY <1>3, <1>4, <1>5, <1>6, <1>7 DEF IInv

(* The count goes up with the request that serves, and down with it.       *)
LEMMA ServeStep ==
    ASSUME IInv, NEW r \in Requests, Count(r) \/ Cleanup(r)
    PROVE  IInv'
<1> DEFINE m == Wants[r]
<1>1. m \in Models /\ \A x \in Models : req_count[x] \in Nat
  BY RouterAssumption DEF IInv, CoreType
<1>2. ASSUME NEW x \in Models
      PROVE  /\ Serving(x) \in SUBSET Requests /\ Serving(x)' \in SUBSET Requests
             /\ Cardinality(Serving(x)) \in Nat /\ Cardinality(Serving(x)') \in Nat
             /\ req_count[x] <= Cardinality(Serving(x))
  <2>1. Serving(x) \in SUBSET Requests /\ Serving(x)' \in SUBSET Requests
    BY DEF Serving
  <2>2. req_count[x] <= Cardinality(Serving(x))
    BY DEF IInv, BusyIsServing, Serving
  <2>3. Cardinality(Serving(x)) \in Nat /\ Cardinality(Serving(x)') \in Nat
    BY <2>1, CountRequests
  <2> QED BY <2>1, <2>2, <2>3
<1>3. CASE Count(r)
  <2>1. /\ pc[r] = "count" /\ pc' = [pc EXCEPT ![r] = "serve"] /\ lru' = touched(m)
        /\ req_count' = [req_count EXCEPT ![m] = req_count[m] + 1]
        /\ UNCHANGED <<status, child, stopping_models, queue, locals>>
    BY <1>3 DEF Count, Goto
  <2>2. req_count' \in [Models -> Nat]
    BY <1>1, <2>1 DEF IInv, CoreType
  <2>3. ASSUME NEW x \in Models PROVE req_count'[x] <= Cardinality(Serving(x)')
    <3>1. CASE x # m
      <4>1. Serving(x)' = Serving(x) /\ req_count'[x] = req_count[x]
        BY <2>1, <3>1 DEF IInv, CoreType, Serving
      <4> QED BY <1>2, <4>1
    <3>2. CASE x = m
      <4>1. Serving(x)' = Serving(x) \cup {r} /\ r \notin Serving(x)
        BY <2>1, <3>2 DEF IInv, CoreType, Serving
      <4>2. Cardinality(Serving(x)') = Cardinality(Serving(x)) + 1
        BY <1>2, <4>1, CountRequests
      <4>3. req_count'[x] = req_count[x] + 1
        BY <2>1, <3>2 DEF IInv, CoreType
      <4> QED BY <1>1, <1>2, <4>2, <4>3
    <3> QED BY <3>1, <3>2
  <2>4. BusyIsServing'
    BY <2>3 DEF BusyIsServing, Serving
  <2>5. lru' \in [1 .. Cardinality(Models) -> Models] /\ ToSet(lru') = Models
    BY <1>1, <2>1, TouchedOrder DEF IInv
  <2>6. "serve" \in Labels
    BY DEF Labels
  <2> QED BY <2>1, <2>2, <2>4, <2>5, <2>6, CountStep
<1>4. CASE Cleanup(r)
  <2>1. PICK l \in {"went_idle", "served"}, c \in Nat :
          /\ pc[r] = "serve" /\ pc' = [pc EXCEPT ![r] = l]
          /\ req_count' = [req_count EXCEPT ![m] = c]
          /\ c + 1 <= req_count[m] \/ c = 0
    <3>1. CASE req_count[m] > 0
      <4>1. req_count[m] - 1 \in Nat /\ req_count[m] - 1 + 1 <= req_count[m]
        BY <1>1, <3>1
      <4>2. req_count' = [req_count EXCEPT ![m] = req_count[m] - 1]
        BY <1>1, <1>4, <3>1 DEF Cleanup
      <4>3. \E l \in {"went_idle", "served"} : pc[r] = "serve" /\ pc' = [pc EXCEPT ![r] = l]
        BY <1>4 DEF Cleanup, Goto
      <4> QED BY <4>1, <4>2, <4>3
    <3>2. CASE req_count[m] = 0
      <4>1. req_count' = req_count /\ pc[r] = "serve" /\ pc' = [pc EXCEPT ![r] = "served"]
        BY <1>4, <3>2 DEF Cleanup, Goto
      <4>2. req_count' = [req_count EXCEPT ![m] = 0]
        BY <3>2, <4>1 DEF IInv, CoreType
      <4> QED BY <4>1, <4>2
    <3>3. req_count[m] > 0 \/ req_count[m] = 0
      BY <1>1
    <3> QED BY <3>1, <3>2, <3>3
  <2>2. UNCHANGED <<status, lru, child, stopping_models, queue, locals>>
    BY <1>4 DEF Cleanup
  <2>3. ASSUME NEW x \in Models PROVE req_count'[x] <= Cardinality(Serving(x)')
    <3>1. CASE x # m
      <4>1. Serving(x)' = Serving(x) /\ req_count'[x] = req_count[x]
        BY <2>1, <3>1 DEF IInv, CoreType, Serving
      <4> QED BY <1>2, <4>1
    <3>2. CASE x = m
      <4>1. Serving(x) = Serving(x)' \cup {r} /\ r \notin Serving(x)'
        BY <2>1, <3>2 DEF IInv, CoreType, Serving
      <4>2. Cardinality(Serving(x)) = Cardinality(Serving(x)') + 1
        BY <1>2, <4>1, CountRequests
      <4>3. req_count'[x] = c
        BY <2>1, <3>2 DEF IInv, CoreType
      <4> QED BY <1>1, <1>2, <2>1, <3>2, <4>2, <4>3
    <3> QED BY <3>1, <3>2
  <2>4. BusyIsServing'
    BY <2>3 DEF BusyIsServing, Serving
  <2>5. /\ req_count' \in [Models -> Nat]
        /\ lru' \in [1 .. Cardinality(Models) -> Models] /\ ToSet(lru') = Models
    BY <1>1, <2>1, <2>2 DEF IInv, CoreType
  <2>6. l \in Labels
    BY <2>1 DEF Labels, Final
  <2> QED BY <2>1, <2>2, <2>4, <2>5, <2>6, CountStep
<1> QED BY <1>3, <1>4

-----------------------------------------------------------------------------
(* The invariant, and what it gives.                                       *)

(* The order of use starts as some order of all the models.                *)
LEMMA InitialOrder ==
    /\ SetToSeq(Models) \in [1 .. Cardinality(Models) -> Models]
    /\ ToSet(SetToSeq(Models)) = Models
<1> DEFINE N == Cardinality(Models)
           f == SetToSeq(Models)
<1>1. N \in Nat /\ ExistsBijection(1 .. N, Models)
  BY RouterAssumption, FS_CardinalityType
<1> HIDE DEF N
<1>2. \E g \in [1 .. N -> Models] : IsInjective(g)
  BY <1>1 DEF ExistsBijection, Bijection, Injection
<1>3. f \in [1 .. N -> Models] /\ IsInjective(f)
  BY <1>2 DEF SetToSeq, N
<1> HIDE DEF f
<1>4. IsFiniteSet(1 .. N) /\ Cardinality(1 .. N) = N
  <2>1. IsFiniteSet(1 .. N) /\ Cardinality(1 .. N) = IF 1 > N THEN 0 ELSE N - 1 + 1
    BY <1>1, FS_Interval
  <2> QED BY <1>1, <2>1
<1>5. f \in Injection(1 .. N, Models)
  BY <1>3 DEF Injection
<1>6. f \in Surjection(1 .. N, Models)
  BY <1>4, <1>5, RouterAssumption, FS_Injection DEF N
<1>7. \A x \in Models : \E k \in 1 .. N : f[k] = x
  BY <1>6 DEF Surjection
<1>8. ToSet(f) = Models
  BY <1>3, <1>7 DEF ToSet
<1> QED BY <1>3, <1>8 DEF f, N

(* The invariant holds at the start.                                       *)
LEMMA InitInv == Init => IInv
<1> SUFFICES ASSUME Init PROVE IInv
  OBVIOUS
<1>1. CoreType
  <2>1. lru \in [1 .. Cardinality(Models) -> Models] /\ ToSet(lru) = Models
    BY InitialOrder DEF Init
  <2>2. queue \in Seq(Entry)
    BY DEF Init
  <2> QED BY <2>1, <2>2 DEF Init, CoreType, Labels
<1>2. StatusMatchesChild /\ VictimKnown /\ QueuedWhere
  BY DEF Init, StatusMatchesChild, VictimKnown, QueuedWhere
<1>3. WithinCapacity
  <2>1. Running = {}
    BY DEF Init, Running
  <2> QED BY <2>1, FS_EmptySet, RouterAssumption DEF WithinCapacity
<1>4. OneEntryPerModel /\ NoGhostWaiters /\ ClaimHeld
  BY DEF Init, OneEntryPerModel, NoGhostWaiters, ClaimHeld
<1>5. BusyIsServing
  <2> SUFFICES ASSUME NEW m \in Models PROVE req_count[m] <= Cardinality(Serving(m))
    BY DEF BusyIsServing, Serving
  <2>1. Serving(m) \in SUBSET Requests
    BY DEF Serving
  <2>2. Cardinality(Serving(m)) \in Nat
    BY <2>1, CountRequests
  <2> QED BY <2>2 DEF Init
<1> QED BY <1>1, <1>2, <1>3, <1>4, <1>5 DEF IInv

(* Every step keeps it.                                                    *)
LEMMA InvStep == IInv /\ [Next]_vars => IInv'
<1> SUFFICES ASSUME IInv, [Next]_vars PROVE IInv'
  OBVIOUS
<1>1. CASE UNCHANGED vars
  <2>1. /\ UNCHANGED <<req_count, lru, queue, pc, locals>>
        /\ UNCHANGED <<status, child, stopping_models>>
    BY <1>1 DEF vars, instances
  <2>2. StatusMatchesChild'
    BY <2>1 DEF IInv, StatusMatchesChild
  <2> QED BY <2>1, <2>2, ChildStep DEF IInv, CoreType
<1>2. ASSUME NEW m \in Models, Monitor(m) \/ ChildCrashes(m) \/ UserUnload(m) PROVE IInv'
  BY <1>2, MonitorStep
<1>3. ASSUME NEW r \in Requests,
             Arrive(r) \/ UserLoad(r) \/ Step(r) \/ SpawnFails(r) \/ Cancelled(r)
      PROVE  IInv'
  <2>1. CASE Arrive(r) \/ UserLoad(r) \/ Proxy(r)
    BY <2>1, LookStep
  <2>2. CASE Enter(r)
    BY <2>2, EnterStep
  <2>3. CASE EvictVictim(r) \/ UnloadLruVictim(r) \/ GiveUp(r)
    BY <2>3, UnloadStep
  <2>4. CASE WaitOver(r) \/ Cancelled(r)
    BY <2>4, LeaveStep
  <2>5. CASE SeeLoading(r)
    BY <2>5, SeeLoadingStep
  <2>6. CASE Claim(r)
    BY <2>6, ClaimStep
  <2>7. CASE UnloadLru(r) \/ LruUnloaded(r)
    BY <2>7, LruStep
  <2>8. CASE Spawn(r) \/ SpawnFails(r)
    BY <2>8, SpawnStep
  <2>9. CASE ClaimDone(r)
    BY <2>9, ClaimDoneStep
  <2>10. CASE Count(r) \/ Cleanup(r)
    BY <2>10, ServeStep
  <2>11. CASE OnModelIdle(r)
    BY <2>11, OnModelIdleStep
  <2> QED BY <1>3, <2>1, <2>2, <2>3, <2>4, <2>5, <2>6, <2>7, <2>8, <2>9, <2>10, <2>11, Zenon
          DEF Step
<1> QED BY <1>1, <1>2, <1>3 DEF Next

(* Every state the router reaches satisfies the invariant: the queue, the  *)
(* instances and the threads of ensure_model_ready() agree.                *)
THEOREM RouterInvariant == Spec => []IInv
<1> QED BY InitInv, InvStep, PTL DEF Spec

(* What the request is and how many mishaps there were keep their types.   *)
RestTypes == posts_load \in [Requests -> BOOLEAN] /\ mishaps \in 0 .. MaxMishaps

LEMMA RestStep ==
    ASSUME RestTypes, [Next]_vars
    PROVE  RestTypes'
<1>1. ASSUME NEW r \in Requests, Step(r) \/ Cancelled(r) \/ Arrive(r) PROVE UNCHANGED rest
  BY <1>1 DEF Step, Cancelled, Arrive, Enter, EvictVictim, WaitOver, SeeLoading, Claim, UnloadLru,
              UnloadLruVictim, LruUnloaded, Spawn, ClaimDone, Proxy, Count, Cleanup, OnModelIdle,
              GiveUp
<1>2. ASSUME NEW m \in Models, Monitor(m) PROVE UNCHANGED rest
  BY <1>2 DEF Monitor, ChildReady, StoppingThread, ChildExits, MonitorErase, MonitorDone
<1>3. \/ UNCHANGED rest
      \/ UNCHANGED posts_load /\ mishaps < MaxMishaps /\ mishaps' = mishaps + 1
      \/ \E r \in Requests :
           posts_load' = [posts_load EXCEPT ![r] = TRUE] /\ UNCHANGED mishaps
  BY <1>1, <1>2 DEF Next, vars, UserLoad, SpawnFails, ChildCrashes, UserUnload
<1>4. CASE UNCHANGED rest
  BY <1>4 DEF RestTypes, rest
<1>5. CASE UNCHANGED posts_load /\ mishaps < MaxMishaps /\ mishaps' = mishaps + 1
  <2>1. mishaps \in Nat /\ MaxMishaps \in Nat
    BY RouterAssumption DEF RestTypes
  <2>2. mishaps' \in 0 .. MaxMishaps
    BY <1>5, <2>1
  <2> QED BY <1>5, <2>2 DEF RestTypes
<1>6. ASSUME NEW r \in Requests, posts_load' = [posts_load EXCEPT ![r] = TRUE],
             UNCHANGED mishaps
      PROVE  RestTypes'
  BY <1>6 DEF RestTypes
<1> QED BY <1>3, <1>4, <1>5, <1>6

(* The type invariant; no count of waiters or of served requests exceeds   *)
(* the number of requests, and no entry is left with nobody counted in it. *)
THEOREM RouterTypeCorrect == Spec => []TypeOK
<1>1. IInv /\ RestTypes => TypeOK
  <2> SUFFICES ASSUME IInv, RestTypes PROVE TypeOK
    OBVIOUS
  <2>1. req_count \in [Models -> 0 .. Cardinality(Requests)]
    <3>1. ASSUME NEW m \in Models PROVE req_count[m] \in 0 .. Cardinality(Requests)
      <4>1. Serving(m) \in SUBSET Requests
        BY DEF Serving
      <4>2. /\ Cardinality(Serving(m)) \in Nat /\ Cardinality(Requests) \in Nat
            /\ Cardinality(Serving(m)) <= Cardinality(Requests)
        BY <4>1, CountRequests
      <4>3. req_count[m] \in Nat /\ req_count[m] <= Cardinality(Serving(m))
        BY DEF IInv, CoreType, BusyIsServing, Serving
      <4> QED BY <4>2, <4>3
    <3> QED BY <3>1 DEF IInv, CoreType
  <2>2. queue \in Seq([model : Models, n_waiters : 1 .. Cardinality(Requests),
                       slot_pending : BOOLEAN, loading : BOOLEAN])
    <3> DEFINE E == [model : Models, n_waiters : 1 .. Cardinality(Requests),
                     slot_pending : BOOLEAN, loading : BOOLEAN]
    <3>1. ASSUME NEW j \in DOMAIN queue PROVE queue[j] \in E
      <4> DEFINE n == queue[j].n_waiters
                 W == Waiters(queue[j].model)
      <4>1. queue[j] \in Entry /\ n \in Nat \ {0} /\ n <= Cardinality(W)
        BY EntryFacts
      <4>2. W \in SUBSET Requests
        BY DEF Waiters
      <4> HIDE DEF W
      <4>3. /\ Cardinality(W) \in Nat /\ Cardinality(Requests) \in Nat
            /\ Cardinality(W) <= Cardinality(Requests)
        BY <4>2, CountRequests
      <4> HIDE DEF n
      <4>4. n \in 1 .. Cardinality(Requests)
        BY <4>1, <4>3
      <4> QED BY <4>1, <4>4 DEF Entry, n
    <3>2. queue \in Seq(Entry)
      BY DEF IInv, CoreType
    <3> HIDE DEF E
    <3>3. queue \in Seq(E)
      BY <3>1, <3>2, SeqDef
    <3> QED BY <3>3 DEF E
  <2> QED BY <2>1, <2>2 DEF IInv, CoreType, RestTypes, TypeOK, Labels
<1>2. Init => RestTypes
  BY RouterAssumption DEF Init, RestTypes
<1>3. RestTypes /\ [Next]_vars => RestTypes'
  BY RestStep
<1> QED BY <1>1, <1>2, <1>3, RouterInvariant, PTL DEF Spec

(* However direct loads, claims and evictions race, models_max bounds the  *)
(* children: a model with a child is one the capacity check counts.        *)
THEOREM RouterWithinLimit == Spec => []WithinLimit
<1>1. IInv => WithinLimit
  <2> SUFFICES ASSUME IInv PROVE WithinLimit
    OBVIOUS
  <2>1. {m \in Models : child[m] # "none"} = Running
    BY DEF IInv, StatusMatchesChild, Running
  <2> QED BY <2>1 DEF IInv, WithinCapacity, WithinLimit
<1> QED BY <1>1, RouterInvariant, PTL

(* No entry of the queue counts a waiter that is not there.                *)
THEOREM RouterNoGhostWaiters == Spec => []NoGhostWaiters
<1>1. IInv => NoGhostWaiters
  BY DEF IInv
<1> QED BY <1>1, RouterInvariant, PTL

(* A claim on the head of the queue is held by a request inside load().    *)
THEOREM RouterClaimHeld == Spec => []ClaimHeld
<1>1. IInv => ClaimHeld
  BY DEF IInv
<1> QED BY <1>1, RouterInvariant, PTL

(* A model passes for busy only while requests are being served by it.     *)
THEOREM RouterBusyIsServing == Spec => []BusyIsServing
<1>1. IInv => BusyIsServing
  BY DEF IInv
<1> QED BY <1>1, RouterInvariant, PTL

=============================================================================
