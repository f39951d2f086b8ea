---------------------------- MODULE ModelRouter ----------------------------
(***************************************************************************)
(* The router: server_models and server_lru_sched                          *)
(* (tools/server/server-models.cpp).  At most models_max children run at a *)
(* time.  A request for a model that is not running loads it, if there is  *)
(* room and nobody waits; otherwise it queues, and room is made by         *)
(* unloading an idle model.  Requests are HTTP threads, every child has a  *)
(* monitor thread, and one mutex guards the instances, the stopping set    *)
(* and the queue.  A step here is one critical section of that mutex; what *)
(* the code does between two of them is a step of its own, so whatever was *)
(* read under the lock may be stale when it is used.                       *)
(*                                                                         *)
(* LOADED stands for LOADED or SLEEPING, which the router never tells      *)
(* apart.  Whether a child that went down failed (its exit code) is left   *)
(* open.  The waits of ensure_model_ready are polled every 200 ms.         *)
(* A request is a completion that is proxied to its model, or (posts_load) *)
(* a user's POST /models/load, which calls load() and no more.             *)
(* Downloads, reload, removal and the startup list are not modelled.       *)
(***************************************************************************)
EXTENDS Integers, Sequences, FiniteSets, SequencesExt

CONSTANTS Models, Requests,
          Wants,      (* the model each request asks for                   *)
          ModelsMax,  (* models_max, more than 0                           *)
          Loaders,    (* requests that may be a POST /models/load          *)
          Leavers,    (* requests whose client may go away                 *)
          MaxMishaps, (* bound: crashes, failing spawns, users' unloads    *)
          None

ASSUME RouterAssumption ==
    /\ Wants \in [Requests -> Models] /\ {Leavers, Loaders} \subseteq SUBSET Requests
    /\ ModelsMax \in Nat \ {0} /\ MaxMishaps \in Nat
    /\ IsFiniteSet(Models) /\ IsFiniteSet(Requests) /\ None \notin Models

VARIABLES
    status, req_count,  (* per model: mapping[m].meta.status, .req_count   *)
    lru,                (* the models, least recently used first           *)
    child,              (* per model: its process and its monitor thread   *)
    stopping_models,
    queue,              (* server_lru_sched::queue                         *)
    pc,                 (* per request: where its thread is                *)
    queued, did_load, saw_loading, victim,      (* locals of that thread   *)
    posts_load,         (* per request: is it a POST /models/load?         *)
    mishaps             (* the ones so far                                 *)

instances == <<status, req_count, lru, child, stopping_models>>
locals    == <<queued, did_load, saw_loading, victim>>
rest      == <<posts_load, mishaps>>
vars      == <<instances, queue, pc, locals, rest>>

Init ==
    /\ status = [m \in Models |-> "UNLOADED"]
    /\ req_count = [m \in Models |-> 0]
    /\ lru = SetToSeq(Models)
    /\ child = [m \in Models |-> "none"]
    /\ stopping_models = {}
    /\ queue = <<>>
    /\ pc = [r \in Requests |-> "idle"]
    /\ queued = [r \in Requests |-> FALSE]
    /\ did_load = [r \in Requests |-> FALSE]
    /\ saw_loading = [r \in Requests |-> FALSE]
    /\ victim = [r \in Requests |-> None]
    /\ posts_load = [r \in Requests |-> FALSE] /\ mishaps = 0

Goto(r, l) == pc' = [pc EXCEPT ![r] = l]

-----------------------------------------------------------------------------
(* server_lru_sched                                                        *)

Running == {m \in Models : status[m] # "UNLOADED"}

has_capacity == Cardinality(Running) < ModelsMax

(* The least recently used idle model, None if no model can be given up.   *)
pick_victim(exclude) ==
    LET idle == {k \in DOMAIN lru : /\ lru[k] # exclude /\ req_count[lru[k]] = 0
                                    /\ status[lru[k]] = "LOADED"}
    IN  IF idle = {} THEN None ELSE lru[Min(idle)]

(* last_used = now: m becomes the most recently used.                      *)
touched(m) == Append(RemoveAt(lru, CHOOSE k \in DOMAIN lru : lru[k] = m), m)

Entries(m) == {i \in DOMAIN queue : queue[i].model = m}
find(m)    == Min(Entries(m))

joined(m, pending) ==
    IF Entries(m) # {}
    THEN [queue EXCEPT ![find(m)].n_waiters = @ + 1, ![find(m)].slot_pending = @ \/ pending]
    ELSE Append(queue, [model |-> m, n_waiters |-> 1, slot_pending |-> pending,
                        loading |-> FALSE])

left(m) ==
    CASE Entries(m) = {} -> queue
      [] Entries(m) # {} /\ queue[find(m)].n_waiters <= 1 -> RemoveAt(queue, find(m))
      [] OTHER -> [queue EXCEPT ![find(m)].n_waiters = @ - 1]

(* Mutant: the entry does not notice.                                      *)
leave_queue_unnoticed(r) ==
    /\ UNCHANGED queue
    /\ queued' = [queued EXCEPT ![r] = FALSE]
    /\ did_load' = [did_load EXCEPT ![r] = FALSE]
    /\ saw_loading' = [saw_loading EXCEPT ![r] = FALSE]

(* The end of the wait; the thread's locals go with it.                    *)
leave_queue(r) ==
    /\ queue' = IF queued[r] THEN left(Wants[r]) ELSE queue
    /\ queued' = [queued EXCEPT ![r] = FALSE]
    /\ did_load' = [did_load EXCEPT ![r] = FALSE]
    /\ saw_loading' = [saw_loading EXCEPT ![r] = FALSE]

(* Mutant: only an entry that was promised a slot may load.                *)
can_claim_promised(m) ==
    /\ queue # <<>> /\ Head(queue).model = m /\ ~Head(queue).loading /\ has_capacity
    /\ Head(queue).slot_pending

(* It is this model's turn to load, and nobody is loading it yet.          *)
can_claim(m) ==
    queue # <<>> /\ Head(queue).model = m /\ ~Head(queue).loading /\ has_capacity

claimed == [queue EXCEPT ![1].loading = TRUE]

(* Mutant: a failed load keeps the claim.                                  *)
claim_done_keeps(m, ok) ==
    IF ok /\ Entries(m) # {} THEN RemoveAt(queue, find(m)) ELSE queue

claim_done(m, ok) ==
    CASE Entries(m) = {} -> queue
      [] Entries(m) # {} /\ ok -> RemoveAt(queue, find(m))
      [] OTHER -> [queue EXCEPT ![find(m)].loading = FALSE]

needs_slot(e) == ~e.slot_pending /\ ~e.loading

(* on_model_idle: is the slot of m to be given up for a queued request?    *)
gives_up(m) ==
    LET promised == Cardinality({i \in DOMAIN queue : ~needs_slot(queue[i])})
    IN  /\ \E i \in DOMAIN queue : needs_slot(queue[i])
        /\ Cardinality(Running) - promised >= ModelsMax
        /\ Entries(m) = {}
        /\ req_count[m] = 0 /\ status[m] = "LOADED"

first_pending ==
    LET i == CHOOSE k \in DOMAIN queue :
                ~queue[k].slot_pending /\ \A j \in 1 .. k - 1 : queue[j].slot_pending
    IN  [queue EXCEPT ![i].slot_pending = TRUE]

-----------------------------------------------------------------------------
(* unload: the monitor is told; a model still loading is killed at once.   *)

Told(m) ==
    IF status[m] = "UNLOADED" THEN UNCHANGED <<child, stopping_models>>
    ELSE /\ stopping_models' = stopping_models \cup {m}
         /\ child' = IF status[m] = "LOADING" /\ child[m] # "reaped"
                     THEN [child EXCEPT ![m] = "eof"] ELSE child

unload(m) == Told(m) /\ UNCHANGED <<status, req_count, lru>>

UserUnload(m) ==
    /\ mishaps < MaxMishaps /\ status[m] # "UNLOADED"
    /\ mishaps' = mishaps + 1
    /\ unload(m)
    /\ UNCHANGED <<queue, pc, locals, posts_load>>

-----------------------------------------------------------------------------
(* The child of m and its monitor thread                                   *)

ChildReady(m) ==
    /\ child[m] \in {"up", "exiting"} /\ status[m] = "LOADING"
    /\ status' = [status EXCEPT ![m] = "LOADED"]
    /\ UNCHANGED <<req_count, lru, child, stopping_models, queue, pc, locals, rest>>

(* The stopping thread sends EXIT to whatever child the name has now ...    *)
StoppingThread(m) ==
    /\ child[m] = "up" /\ m \in stopping_models
    /\ child' = [child EXCEPT ![m] = "exiting"]
    /\ UNCHANGED <<status, req_count, lru, stopping_models, queue, pc, locals, rest>>

(* ... which obeys, or is killed when the stop timeout is over.             *)
ChildExits(m) ==
    /\ child[m] = "exiting"
    /\ child' = [child EXCEPT ![m] = "eof"]
    /\ UNCHANGED <<status, req_count, lru, stopping_models, queue, pc, locals, rest>>

ChildCrashes(m) ==
    /\ child[m] = "up" /\ mishaps < MaxMishaps
    /\ mishaps' = mishaps + 1
    /\ child' = [child EXCEPT ![m] = "eof"]
    /\ UNCHANGED <<status, req_count, lru, stopping_models, queue, pc, locals, posts_load>>

(* The monitor sees the end of the child's output ...                       *)
MonitorErase(m) ==
    /\ child[m] = "eof"
    /\ stopping_models' = stopping_models \ {m}
    /\ child' = [child EXCEPT ![m] = "reaped"]
    /\ UNCHANGED <<status, req_count, lru, queue, pc, locals, rest>>

(* ... and, with the stopping thread and the process joined, its status.    *)
MonitorDone(m) ==
    /\ child[m] = "reaped"
    /\ status' = [status EXCEPT ![m] = "UNLOADED"]
    /\ child' = [child EXCEPT ![m] = "none"]
    /\ UNCHANGED <<req_count, lru, stopping_models, queue, pc, locals, rest>>

-----------------------------------------------------------------------------
(* A request: proxy_post, ensure_model_ready                               *)

Arrive(r) ==
    /\ pc[r] = "idle"
    /\ Goto(r, IF status[Wants[r]] = "LOADED" THEN "proxy" ELSE "enter")
    /\ UNCHANGED <<instances, queue, locals, rest>>

(* post_router_models_load: a model that is running is an error.           *)
UserLoad(r) ==
    /\ pc[r] = "idle" /\ r \in Loaders
    /\ posts_load' = [posts_load EXCEPT ![r] = TRUE]
    /\ Goto(r, IF status[Wants[r]] = "UNLOADED" THEN "load" ELSE "error")
    /\ UNCHANGED <<instances, queue, locals, mishaps>>

(* Load directly, or queue and look for an idle model to evict.            *)
Enter(r) ==
    LET m == Wants[r]
        v == IF has_capacity THEN None ELSE pick_victim(m)
    IN  /\ pc[r] = "enter"
        /\ \/ /\ status[m] # "UNLOADED"
              /\ Goto(r, "wait")
              /\ UNCHANGED <<queue, queued, victim>>
           \/ /\ status[m] = "UNLOADED" /\ has_capacity /\ queue = <<>>
              /\ Goto(r, "load")
              /\ UNCHANGED <<queue, queued, victim>>
           \/ /\ status[m] = "UNLOADED" /\ ~(has_capacity /\ queue = <<>>)
              /\ queue' = joined(m, v # None)
              /\ queued' = [queued EXCEPT ![r] = TRUE]
              /\ victim' = [victim EXCEPT ![r] = v]
              /\ Goto(r, IF v = None THEN "wait" ELSE "evict")
        /\ UNCHANGED <<instances, did_load, saw_loading, rest>>

EvictVictim(r) ==
    /\ pc[r] = "evict"
    /\ unload(victim[r])
    /\ victim' = [victim EXCEPT ![r] = None]
    /\ Goto(r, "wait")
    /\ UNCHANGED <<queue, queued, did_load, saw_loading, rest>>

(* One turn of the wait loop that finds the wait over.                     *)
WaitOver(r) ==
    LET m == Wants[r]
    IN  /\ pc[r] = "wait"
        /\ \/ status[m] = "LOADED" /\ Goto(r, "proxy")
           \/ /\ status[m] = "UNLOADED" /\ (did_load[r] \/ saw_loading[r])
              /\ \E l \in {"proxy", "error"} : Goto(r, l)
           \/ /\ status[m] = "UNLOADED" /\ ~did_load[r] /\ ~saw_loading[r] /\ ~queued[r]
              /\ Goto(r, "proxy")
        /\ leave_queue(r)
        /\ UNCHANGED <<instances, victim, rest>>

(* One that goes on: remember that the model was seen coming up ...        *)
SeeLoading(r) ==
    /\ pc[r] = "wait" /\ status[Wants[r]] = "LOADING" /\ ~saw_loading[r]
    /\ saw_loading' = [saw_loading EXCEPT ![r] = TRUE]
    /\ UNCHANGED <<instances, queue, pc, queued, did_load, victim, rest>>

Waiting(r) ==
    /\ pc[r] = "wait"
    /\ \/ status[Wants[r]] = "LOADING"
       \/ status[Wants[r]] = "UNLOADED" /\ queued[r] /\ ~did_load[r] /\ ~saw_loading[r]

(* ... give up when the client has gone ...                                *)
Cancelled(r) ==
    /\ r \in Leavers /\ Waiting(r)
    /\ leave_queue(r)
    /\ Goto(r, "cancelled")
    /\ UNCHANGED <<instances, victim, rest>>

(* ... or take the turn: this model is the head and there is a slot.       *)
Claim(r) ==
    /\ Waiting(r) /\ status[Wants[r]] = "UNLOADED" /\ can_claim(Wants[r])
    /\ queue' = claimed
    /\ Goto(r, "load")
    /\ UNCHANGED <<instances, locals, rest>>

-----------------------------------------------------------------------------
(* load                                                                    *)

UnloadLru(r) ==
    LET v == IF has_capacity THEN None ELSE pick_victim(None)
    IN  /\ pc[r] = "load"
        /\ victim' = [victim EXCEPT ![r] = v]
        /\ Goto(r, IF v = None THEN "spawn" ELSE "lru_unload")
        /\ UNCHANGED <<instances, queue, queued, did_load, saw_loading, rest>>

UnloadLruVictim(r) ==
    /\ pc[r] = "lru_unload"
    /\ unload(victim[r])
    /\ Goto(r, "lru_wait")
    /\ UNCHANGED <<queue, locals, rest>>

(* This wait has no timeout; update_status notifies it.                     *)
LruUnloaded(r) ==
    /\ pc[r] = "lru_wait" /\ status[victim[r]] = "UNLOADED"
    /\ victim' = [victim EXCEPT ![r] = None]
    /\ Goto(r, "spawn")
    /\ UNCHANGED <<instances, queue, queued, did_load, saw_loading, rest>>

(* Where load() returns to, and where it throws to.                        *)
Returned(r) == IF queued[r] THEN "claim_ok" ELSE IF posts_load[r] THEN "served" ELSE "wait"
Thrown(r)   == IF queued[r] THEN "claim_fail" ELSE "thrown"

(* Mutant: the capacity is not looked at again.                            *)
Spawn_unchecked(r) ==
    LET m == Wants[r]
    IN  /\ pc[r] = "spawn"
        /\ IF status[m] # "UNLOADED" THEN UNCHANGED instances
           ELSE /\ status' = [status EXCEPT ![m] = "LOADING"]
                /\ child' = [child EXCEPT ![m] = "up"]
                /\ req_count' = [req_count EXCEPT ![m] = 0]
                /\ lru' = touched(m)
                /\ UNCHANGED stopping_models
        /\ Goto(r, Returned(r))
        /\ did_load' = [did_load EXCEPT ![r] = ~posts_load[r]]
        /\ UNCHANGED <<queue, queued, saw_loading, victim, rest>>

Spawn(r) ==
    LET m == Wants[r]
    IN  /\ pc[r] = "spawn"
        /\ \/ /\ status[m] # "UNLOADED"
              /\ did_load' = [did_load EXCEPT ![r] = ~posts_load[r]]
              /\ Goto(r, Returned(r))
              /\ UNCHANGED instances
           \/ /\ status[m] = "UNLOADED" /\ ~has_capacity
              /\ Goto(r, Thrown(r))
              /\ UNCHANGED <<instances, did_load>>
           \/ /\ status[m] = "UNLOADED" /\ has_capacity
              /\ status' = [status EXCEPT ![m] = "LOADING"]
              /\ child' = [child EXCEPT ![m] = "up"]
              /\ req_count' = [req_count EXCEPT ![m] = 0]
              /\ lru' = touched(m)
              /\ did_load' = [did_load EXCEPT ![r] = ~posts_load[r]]
              /\ Goto(r, Returned(r))
              /\ UNCHANGED stopping_models
        /\ UNCHANGED <<queue, queued, saw_loading, victim, rest>>

(* load() finds no free port, or no process can be created: it throws       *)
(* before the instance is put into the mapping.                            *)
SpawnFails(r) ==
    /\ pc[r] = "spawn" /\ status[Wants[r]] = "UNLOADED" /\ has_capacity /\ mishaps < MaxMishaps
    /\ mishaps' = mishaps + 1
    /\ Goto(r, Thrown(r))
    /\ UNCHANGED <<instances, queue, locals, posts_load>>

ClaimDone(r) ==
    /\ pc[r] \in {"claim_ok", "claim_fail"}
    /\ queue' = claim_done(Wants[r], pc[r] = "claim_ok")
    /\ queued' = [queued EXCEPT ![r] = pc[r] = "claim_fail"]
    /\ Goto(r, "wait")
    /\ UNCHANGED <<instances, did_load, saw_loading, victim, rest>>

-----------------------------------------------------------------------------
(* proxy_request and its cleanup                                           *)

Proxy(r) ==
    /\ pc[r] = "proxy"
    /\ Goto(r, IF status[Wants[r]] = "UNLOADED" THEN "error" ELSE "count")
    /\ UNCHANGED <<instances, queue, locals, rest>>

Count(r) ==
    LET m == Wants[r]
    IN  /\ pc[r] = "count"
        /\ req_count' = [req_count EXCEPT ![m] = @ + 1]
        /\ lru' = touched(m)
        /\ Goto(r, "serve")
        /\ UNCHANGED <<status, child, stopping_models, queue, locals, rest>>

(* Mutants: the count is not guarded; it is not taken back.                *)
Cleanup_unguarded(r) ==
    LET m == Wants[r]
    IN  /\ pc[r] = "serve"
        /\ req_count' = [req_count EXCEPT ![m] = @ - 1]
        /\ Goto(r, IF req_count[m] = 1 THEN "went_idle" ELSE "served")
        /\ UNCHANGED <<status, lru, child, stopping_models, queue, locals, rest>>

Cleanup_keeps(r) ==
    /\ pc[r] = "serve"
    /\ Goto(r, "served")
    /\ UNCHANGED <<instances, queue, locals, rest>>

(* The child has answered, or is gone: cleanup.                            *)
Cleanup(r) ==
    LET m == Wants[r]
    IN  /\ pc[r] = "serve"
        /\ \/ /\ req_count[m] > 0
              /\ req_count' = [req_count EXCEPT ![m] = @ - 1]
              /\ Goto(r, IF req_count[m] = 1 THEN "went_idle" ELSE "served")
           \/ req_count[m] = 0 /\ Goto(r, "served") /\ UNCHANGED req_count
        /\ UNCHANGED <<status, lru, child, stopping_models, queue, locals, rest>>

OnModelIdle(r) ==
    LET m == Wants[r]
    IN  /\ pc[r] = "went_idle"
        /\ \/ gives_up(m) /\ queue' = first_pending /\ Goto(r, "give_up")
           \/ ~gives_up(m) /\ Goto(r, "served") /\ UNCHANGED queue
        /\ UNCHANGED <<instances, locals, rest>>

GiveUp(r) ==
    /\ pc[r] = "give_up"
    /\ unload(Wants[r])
    /\ Goto(r, "served")
    /\ UNCHANGED <<queue, locals, rest>>

Step(r) ==
    \/ Enter(r) \/ EvictVictim(r) \/ WaitOver(r) \/ SeeLoading(r) \/ Claim(r)
    \/ UnloadLru(r) \/ UnloadLruVictim(r) \/ LruUnloaded(r) \/ Spawn(r) \/ ClaimDone(r)
    \/ Proxy(r) \/ Count(r) \/ Cleanup(r) \/ OnModelIdle(r) \/ GiveUp(r)

Monitor(m) ==
    ChildReady(m) \/ StoppingThread(m) \/ ChildExits(m) \/ MonitorErase(m) \/ MonitorDone(m)

Next ==
    \/ \E r \in Requests : Arrive(r) \/ UserLoad(r) \/ Step(r) \/ SpawnFails(r) \/ Cancelled(r)
    \/ \E m \in Models : Monitor(m) \/ ChildCrashes(m) \/ UserUnload(m)

(* Threads that can go on do, and a child that loads or is told to exit    *)
(* gets there (or is killed).  Clients arrive and leave, children crash,   *)
(* spawns fail and users unload, or not.                                   *)
Fairness ==
    /\ \A r \in Requests : WF_vars(Step(r))
    /\ \A m \in Models : WF_vars(Monitor(m))

Spec == Init /\ [][Next]_vars /\ Fairness

-----------------------------------------------------------------------------
Final == {"served", "error", "cancelled", "thrown"}

(* The type of every variable.                                             *)
TypeOK ==
    /\ status \in [Models -> {"UNLOADED", "LOADING", "LOADED"}]
    /\ req_count \in [Models -> 0 .. Cardinality(Requests)]
    /\ lru \in [1 .. Cardinality(Models) -> Models] /\ ToSet(lru) = Models
    /\ child \in [Models -> {"none", "up", "exiting", "eof", "reaped"}]
    /\ stopping_models \subseteq Models
    /\ queue \in Seq([model : Models, n_waiters : 1 .. Cardinality(Requests),
                      slot_pending : BOOLEAN, loading : BOOLEAN])
    /\ pc \in [Requests -> Final \cup {"idle", "enter", "evict", "wait", "load", "lru_unload",
                  "lru_wait", "spawn", "claim_ok", "claim_fail", "proxy", "count", "serve",
                  "went_idle", "give_up"}]
    /\ posts_load \in [Requests -> BOOLEAN] /\ mishaps \in 0 .. MaxMishaps
    /\ queued \in [Requests -> BOOLEAN] /\ did_load \in [Requests -> BOOLEAN]
    /\ saw_loading \in [Requests -> BOOLEAN] /\ victim \in [Requests -> Models \cup {None}]

(* However direct loads, claims and evictions race, no more than           *)
(* models_max children exist: the capacity seen before unload_lru() may    *)
(* be gone when load() takes the lock again.                               *)
WithinLimit == Cardinality({m \in Models : child[m] # "none"}) <= ModelsMax

(* An entry never counts more waiters than there are: one that did would   *)
(* stay at the head for ever when they have gone, and block the others.    *)
NoGhostWaiters ==
    \A i \in DOMAIN queue :
        queue[i].n_waiters <= Cardinality({r \in Requests : queued[r] /\ Wants[r] = queue[i].model})

(* A claim is held by a request that is in load() for that model; one that *)
(* outlived it would keep the entry from ever being loaded.                *)
ClaimHeld ==
    \A i \in DOMAIN queue : queue[i].loading =>
        \E r \in Requests :
            /\ Wants[r] = queue[i].model /\ queued[r]
            /\ pc[r] \in {"load", "lru_unload", "lru_wait", "spawn", "claim_ok", "claim_fail"}

(* A model never counts more requests than it serves: it would pass for    *)
(* busy for ever and never give up its slot.                               *)
BusyIsServing ==
    \A m \in Models :
        req_count[m] <= Cardinality({r \in Requests : Wants[r] = m /\ pc[r] = "serve"})

(* A free slot does not stay free while requests wait in the queue: a load *)
(* at its head that lost a race or could not spawn its child gives the     *)
(* claim back and is tried again, until it goes through.  (No spawn        *)
(* succeeds in a system that is out of ports or processes for good: the    *)
(* failures here are at most MaxMishaps.)                                  *)
SlotIsTaken == queue # <<>> /\ has_capacity ~> queue = <<>> \/ ~has_capacity

(* Every request that arrived is answered: "if models_max is reached, the  *)
(* request waits in a queue until a slot frees up".                        *)
Settled == \A r \in Requests : pc[r] # "idle" ~> pc[r] \in Final

=============================================================================
