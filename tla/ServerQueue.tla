---------------------------- MODULE ServerQueue ----------------------------
(***************************************************************************)
(* The task queue of the server and its threads (tools/server):            *)
(*   - the main thread runs start_loop(): it handles the queued tasks,     *)
(*     then update_slots(), then waits or goes to sleep;                   *)
(*   - the worker thread handles tasks while the main thread is inside     *)
(*     yield_to_queue(), that is while a decode runs; it may only answer   *)
(*     read-only tasks and has to decline the others;                      *)
(*   - an HTTP thread per client waits until the server is awake, posts a  *)
(*     task and waits for its result, or leaves and posts a cancel task.   *)
(*                                                                         *)
(* A step is one critical section of mutex_tasks or mutex_results.  The    *)
(* condition variable condition_tasks is modelled: `notified' are the      *)
(* blocked threads that a notify has woken, and notify_one wakes any one   *)
(* of the blocked threads.  The wait for new tasks in start_loop has a     *)
(* timeout of a second: the main thread may be notified there but does not *)
(* depend on it.                                                           *)
(***************************************************************************)
EXTENDS Integers, Sequences, FiniteSets, SequencesExt

CONSTANTS
    Runners,    \* clients that post a completion
    Pollers,    \* clients that post a read-only task (metrics, slots)
    Slots,      \* the server's slots
    Want,       \* id_slot of a completion, or NoSlot
    NoSlot, NoTask,
    NDecode,    \* decodes a completion takes
    Refusable,  \* completions whose launch may fail: a bad grammar, invalid tokens
    Leavers,    \* clients that may disconnect
    MaxSleeps,  \* bound: times the server goes to sleep; 0 disables sleeping
    MayStop     \* may the server be terminated?

Clients == Runners \cup Pollers

ASSUME QueueAssumption ==
    /\ Want \in [Runners -> Slots \cup {NoSlot}] /\ NoSlot \notin Slots
    /\ Runners \cap Pollers = {} /\ Leavers \subseteq Clients
    /\ Refusable \subseteq Runners
    /\ IsFiniteSet(Clients) /\ IsFiniteSet(Slots) /\ Slots # {}
    /\ NDecode \in Nat \ {0} /\ MaxSleeps \in Nat /\ MayStop \in BOOLEAN
    /\ NoTask \notin Clients
    /\ NoTask \notin [kind : {"run", "info", "cancel", "next"}, id : Clients \cup {NoTask}]

VARIABLES
    queue, deferred, unhandled,     \* queue_tasks, queue_tasks_deferred, .._unhandled
    running, sleeping, req_stop_sleeping,
    stop, busy, yielding,           \* worker_t
    slot,                           \* per slot the task it runs and the decodes left
    refused,                        \* history: the completions whose launch failed
    waiting, results,               \* server_response
    mpc, mtask,                     \* main thread: where, and the task in its hand
    wpc, wtask,                     \* worker thread
    cpc,                            \* HTTP threads
    notified, sleeps

queues == <<queue, deferred, unhandled>>
worker == <<stop, busy, yielding>>
sleep == <<sleeping, req_stop_sleeping, sleeps>>
response == <<waiting, results>>
main == <<mpc, mtask>>
helper == <<wpc, wtask>>
vars == <<queue, deferred, unhandled, running, sleeping, req_stop_sleeping, stop, busy,
          yielding, slot, refused, waiting, results, mpc, mtask, wpc, wtask, cpc, notified, sleeps>>

\* A task: its kind and, for a cancel task, the id of its target.
Task(kind, id) == [kind |-> kind, id |-> id]
NextResponse == Task("next", NoTask)
Idle == [id |-> NoTask, left |-> 0]
Own(c) == Task(IF c \in Runners THEN "run" ELSE "info", c)

-----------------------------------------------------------------------------
\* condition_tasks.

Blocked ==
    {t \in {"main"} : mpc \in {"wait", "join", "asleep"}} \cup
    {t \in {"worker"} : wpc = "blocked"} \cup {c \in Clients : cpc[c] = "nosleep"}

notify_one ==
    IF Blocked \subseteq notified THEN UNCHANGED notified
    ELSE \E t \in Blocked \ notified : notified' = notified \cup {t}

notify_all == notified' = notified \cup Blocked

\* The thread t blocks (again), having lost its wake-up.
Consume(t) == notified' = notified \ {t}

-----------------------------------------------------------------------------
\* server_response.

\* Mutant of send: the result is kept whether or not somebody waits for it.
Sent_always(id) == results \cup {id}

Sent(id) == IF id \in waiting THEN results \cup {id} ELSE results

Init ==
    /\ queue = <<>> /\ deferred = <<>> /\ unhandled = <<>>
    /\ running = TRUE /\ sleeping = FALSE /\ req_stop_sleeping = FALSE
    /\ stop = FALSE /\ busy = FALSE /\ yielding = FALSE
    /\ slot = [s \in Slots |-> Idle] /\ refused = {}
    /\ waiting = {} /\ results = {}
    /\ mpc = "process" /\ mtask = NoTask /\ wpc = "park" /\ wtask = NoTask
    /\ cpc = [c \in Clients |-> "start"]
    /\ notified = {} /\ sleeps = 0

-----------------------------------------------------------------------------
\* HTTP threads.

\* The server is awake, or is asked to wake up: wait_until_no_sleep.
WaitUntilNoSleep(c) ==
    /\ cpc[c] = "start" /\ c \in Runners
    /\ IF ~sleeping
       THEN cpc' = [cpc EXCEPT ![c] = "ready"] /\ UNCHANGED <<req_stop_sleeping, notified>>
       ELSE /\ cpc' = [cpc EXCEPT ![c] = "nosleep"]
            /\ IF req_stop_sleeping THEN UNCHANGED <<req_stop_sleeping, notified>>
               ELSE req_stop_sleeping' = TRUE /\ notify_one
    /\ UNCHANGED <<queues, running, sleeping, sleeps, worker, slot, refused, response,
                   main, helper>>

\* A metrics poller does not wake the server: it is served from a cache.
Poll(c) ==
    /\ cpc[c] = "start" /\ c \in Pollers
    /\ cpc' = [cpc EXCEPT ![c] = IF sleeping THEN "done" ELSE "ready"]
    /\ UNCHANGED <<queues, running, sleep, worker, slot, refused, response, main, helper, notified>>

NoSleepWakes(c) ==
    /\ cpc[c] = "nosleep" /\ c \in notified
    /\ Consume(c)
    /\ cpc' = [cpc EXCEPT ![c] = IF sleeping THEN "nosleep" ELSE "ready"]
    /\ UNCHANGED <<queues, running, sleep, worker, slot, refused, response, main, helper>>

\* post_task registers the id with the responses before it posts.
AddWaiting(c) ==
    /\ cpc[c] = "ready"
    /\ waiting' = waiting \cup {c}
    /\ cpc' = [cpc EXCEPT ![c] = "post"]
    /\ UNCHANGED <<queues, running, sleep, worker, slot, refused, results, main, helper, notified>>

Post(c) ==
    /\ cpc[c] = "post"
    /\ queue' = IF c \in Pollers THEN <<Own(c)>> \o queue ELSE Append(queue, Own(c))
    /\ notify_one
    /\ cpc' = [cpc EXCEPT ![c] = "posted"]
    /\ UNCHANGED <<deferred, unhandled, running, sleep, worker, slot, refused, response,
                   main, helper>>

\* next(): the final result arrives; the reader, which has nothing left to wait
\* for, takes its id back.
Recv(c) ==
    /\ cpc[c] = "posted" /\ c \in results
    /\ results' = results \ {c} /\ waiting' = waiting \ {c}
    /\ cpc' = [cpc EXCEPT ![c] = "done"]
    /\ UNCHANGED <<queues, running, sleep, worker, slot, refused, main, helper, notified>>

\* stop() of a reader that gives up: first it takes its id back ...
Stop(c) ==
    /\ cpc[c] = "posted"
    /\ waiting' = waiting \ {c}
    /\ cpc' = [cpc EXCEPT ![c] = "stopping"]
    /\ UNCHANGED <<queues, running, sleep, worker, slot, refused, results, main, helper, notified>>

\* Its client went away, or it polls a server that has gone to sleep.
Leave(c) == c \in Leavers /\ Stop(c)
GiveUp(c) == c \in Pollers /\ sleeping /\ Stop(c)

\* ... then it discards a result that came in before that ...
remove_waiting_task_id(c) ==
    /\ cpc[c] = "stopping"
    /\ results' = results \ {c}
    /\ cpc' = [cpc EXCEPT ![c] = "leaving"]
    /\ UNCHANGED <<queues, running, sleep, worker, slot, refused, waiting, main, helper, notified>>

\* remove_if and erase: what q is without t, in its order.
erased(q, t) ==
    LET kept == {i \in DOMAIN q : q[i] # t}
        nth(k) == CHOOSE i \in kept : Cardinality({j \in kept : j <= i}) = k
    IN  [k \in 1 .. Cardinality(kept) |-> q[nth(k)]]

\* ... then the queue: cleanup_pending_task, and a cancel task in front.
cleanup_pending_task(c) ==
    /\ queue' = <<Task("cancel", c)>> \o erased(queue, Own(c))
    /\ deferred' = erased(deferred, Own(c))
    /\ unhandled' = erased(unhandled, Own(c))

PostCancel(c) ==
    /\ cpc[c] = "leaving"
    /\ cleanup_pending_task(c)
    /\ notify_one
    /\ cpc' = [cpc EXCEPT ![c] = "gone"]
    /\ UNCHANGED <<running, sleep, worker, slot, refused, response, main, helper>>

Client(c) ==
    \/ WaitUntilNoSleep(c) \/ NoSleepWakes(c) \/ Poll(c) \/ AddWaiting(c) \/ Post(c)
    \/ Recv(c) \/ GiveUp(c) \/ remove_waiting_task_id(c) \/ PostCancel(c)

-----------------------------------------------------------------------------
\* The main thread.

\* process_new_tasks(false) takes a task, or there is none left.
MainPop ==
    /\ mpc = "process" /\ running
    /\ IF queue = <<>>
       THEN mpc' = "update" /\ UNCHANGED <<queue, mtask>>
       ELSE mpc' = "handle" /\ mtask' = Head(queue) /\ queue' = Tail(queue)
    /\ UNCHANGED <<deferred, unhandled, running, sleep, worker, slot, refused, response,
                   helper, cpc, notified>>

\* get_available_slot, among the idle ones.
Free(c) == {s \in Slots : slot[s] = Idle /\ Want[c] \in {s, NoSlot}}

\* process_single_task on a completion: launch it, or defer it.
HandleRun ==
    /\ mpc = "handle" /\ mtask.kind = "run"
    /\ LET c == mtask.id IN
         \/ \E s \in Free(c) : /\ slot' = [slot EXCEPT ![s] = [id |-> c, left |-> NDecode]]
                               /\ UNCHANGED <<deferred, notified>>
         \/ /\ Free(c) = {}
            /\ deferred' = Append(deferred, mtask)
            /\ notify_one
            /\ UNCHANGED slot
    /\ mpc' = "process" /\ mtask' = NoTask
    /\ UNCHANGED <<queue, unhandled, running, sleep, worker, refused, response, helper, cpc>>

\* launch_slot_with_task fails: the completion gets an error and is dropped.  No slot
\* was taken, so none is released and no deferred task is brought back.
LaunchFails ==
    /\ mpc = "handle" /\ mtask.kind = "run"
    /\ mtask.id \in Refusable /\ Free(mtask.id) # {}
    /\ results' = Sent(mtask.id)
    /\ refused' = refused \cup {mtask.id}
    /\ mpc' = "process" /\ mtask' = NoTask
    /\ UNCHANGED <<queues, running, sleep, worker, slot, waiting, helper, cpc, notified>>

\* A read-only task is answered; NEXT_RESPONSE only keeps the loop going.
HandleRead ==
    /\ mpc = "handle" /\ mtask.kind \in {"info", "next"}
    /\ results' = IF mtask.kind = "info" THEN Sent(mtask.id) ELSE results
    /\ mpc' = "process" /\ mtask' = NoTask
    /\ UNCHANGED <<queues, running, sleep, worker, slot, refused, waiting, helper, cpc, notified>>

\* pop_deferred_task(s): the first task that asked for s, else the first.
pop_deferred_task(s) ==
    LET own == {i \in DOMAIN deferred : Want[deferred[i].id] = s} IN
    IF deferred = <<>> THEN UNCHANGED <<queue, deferred>>
    ELSE LET i == IF own = {} THEN 1 ELSE Min(own) IN
         /\ queue' = <<deferred[i]>> \o queue
         /\ deferred' = RemoveAt(deferred, i)

\* server_slot::release, which ends in pop_deferred_task.
Release(s) ==
    /\ slot' = [slot EXCEPT ![s] = Idle]
    /\ pop_deferred_task(s)
    /\ notify_one

HandleCancel ==
    /\ mpc = "handle" /\ mtask.kind = "cancel"
    /\ \/ \E s \in Slots : slot[s].id = mtask.id /\ Release(s)
       \/ /\ \A s \in Slots : slot[s].id # mtask.id
          /\ UNCHANGED <<slot, queue, deferred, notified>>
    /\ mpc' = "process" /\ mtask' = NoTask
    /\ UNCHANGED <<unhandled, running, sleep, worker, refused, response, helper, cpc>>

\* update_slots: with every slot idle there is nothing to do ...
UpdateIdle ==
    /\ mpc = "update" /\ \A s \in Slots : slot[s] = Idle
    /\ mpc' = "wait"
    /\ UNCHANGED <<queues, running, sleep, worker, slot, refused, response, mtask, helper,
                   cpc, notified>>

\* ... otherwise it posts NEXT_RESPONSE ...
UpdateBusy ==
    /\ mpc = "update" /\ \E s \in Slots : slot[s] # Idle
    /\ queue' = Append(queue, NextResponse)
    /\ notify_one
    /\ mpc' = "yield"
    /\ UNCHANGED <<deferred, unhandled, running, sleep, worker, slot, refused, response,
                   mtask, helper, cpc>>

\* ... and decodes inside yield_to_queue.
YieldToQueue ==
    /\ mpc = "yield"
    /\ busy' = TRUE /\ yielding' = TRUE
    /\ mpc' = "work"
    /\ UNCHANGED <<queues, running, sleep, stop, slot, refused, response, mtask, helper,
                   cpc, notified>>

\* Mutant of putting the declined tasks back: they are dropped.
restored_none == queue

\* The declined tasks go back in front, in their order.
restored == unhandled \o queue

\* The end of the yield, once the worker is done.
EndYield ==
    /\ queue' = restored /\ unhandled' = <<>>
    /\ mpc' = "after"

\* Mutant of WorkDone: the worker is not waited for.
WorkDone_no_wait ==
    /\ mpc = "work"
    /\ yielding' = FALSE
    /\ EndYield
    /\ notify_all
    /\ UNCHANGED <<deferred, running, sleep, stop, busy, slot, refused, response, mtask,
                   helper, cpc>>

\* work() has returned.
WorkDone ==
    /\ mpc = "work"
    /\ yielding' = FALSE
    /\ IF busy
       THEN mpc' = "join" /\ UNCHANGED <<queue, unhandled>>
       ELSE EndYield
    /\ notify_all
    /\ UNCHANGED <<deferred, running, sleep, stop, busy, slot, refused, response, mtask,
                   helper, cpc>>

Join ==
    /\ mpc = "join" /\ "main" \in notified
    /\ Consume("main")
    /\ IF busy THEN UNCHANGED <<mpc, queue, unhandled>> ELSE EndYield
    /\ UNCHANGED <<deferred, running, sleep, worker, slot, refused, response, mtask, helper, cpc>>

\* After the decode: a slot that is done sends its result and is released.
\* (One slot a step; the slots that go on are counted down by the last.)
SlotDone(s) ==
    /\ mpc = "after" /\ slot[s].left = 1
    /\ results' = Sent(slot[s].id)
    /\ Release(s)
    /\ UNCHANGED <<unhandled, running, sleep, worker, refused, waiting, main, helper, cpc>>

\* Mutant: idle slots are counted down too.
goneOn_all == [s \in Slots |-> [slot[s] EXCEPT !.left = @ - 1]]

goneOn == [s \in Slots |-> IF slot[s] = Idle THEN Idle ELSE [slot[s] EXCEPT !.left = @ - 1]]

SlotsGoOn ==
    /\ mpc = "after" /\ \A s \in Slots : slot[s].left # 1
    /\ slot' = goneOn
    /\ mpc' = "wait"
    /\ UNCHANGED <<queues, running, sleep, worker, refused, response, mtask, helper, cpc, notified>>

\* The wait of start_loop ends with a task or at termination.
WaitOver ==
    /\ mpc = "wait" /\ (queue # <<>> \/ ~running)
    /\ mpc' = "process" /\ Consume("main")
    /\ UNCHANGED <<queues, running, sleep, worker, slot, refused, response, mtask, helper, cpc>>

\* The server has been idle for long enough.
GoToSleep ==
    /\ mpc = "wait" /\ queue = <<>> /\ running /\ sleeps < MaxSleeps
    /\ sleeping' = TRUE /\ req_stop_sleeping' = FALSE /\ sleeps' = sleeps + 1
    /\ mpc' = "asleep" /\ Consume("main")
    /\ UNCHANGED <<queues, running, worker, slot, refused, response, mtask, helper, cpc>>

WakeUp ==
    /\ mpc = "asleep" /\ "main" \in notified
    /\ \/ /\ ~running /\ mpc' = "process" /\ Consume("main")
          /\ UNCHANGED <<sleeping, req_stop_sleeping>>
       \/ /\ running /\ req_stop_sleeping
          /\ sleeping' = FALSE /\ req_stop_sleeping' = FALSE /\ mpc' = "process"
          /\ notified' = (notified \cup Blocked) \ {"main"}
       \/ /\ running /\ ~req_stop_sleeping
          /\ Consume("main")
          /\ UNCHANGED <<sleeping, req_stop_sleeping, mpc>>
    /\ UNCHANGED <<queues, running, sleeps, worker, slot, refused, response, mtask, helper, cpc>>

\* The loop ends; worker_stop ...
MainStop ==
    /\ mpc = "process" /\ ~running
    /\ stop' = TRUE
    /\ notify_all
    /\ mpc' = "joinworker"
    /\ UNCHANGED <<queues, running, sleep, busy, yielding, slot, refused, response, mtask,
                   helper, cpc>>

\* ... joins the worker.
MainExit ==
    /\ mpc = "joinworker" /\ wpc = "exit"
    /\ mpc' = "exit"
    /\ UNCHANGED <<queues, running, sleep, worker, slot, refused, response, mtask, helper,
                   cpc, notified>>

Main ==
    \/ MainPop \/ HandleRun \/ LaunchFails \/ HandleRead \/ HandleCancel \/ UpdateIdle
    \/ UpdateBusy \/ YieldToQueue \/ WorkDone \/ Join \/ (\E s \in Slots : SlotDone(s)) \/ SlotsGoOn
    \/ WaitOver \/ WakeUp \/ MainStop \/ MainExit

-----------------------------------------------------------------------------
\* The worker thread.

WorkerUnparks ==
    /\ wpc = "park" /\ (stop \/ busy)
    /\ wpc' = IF stop THEN "exit" ELSE "process"
    /\ UNCHANGED <<queues, running, sleep, worker, slot, refused, response, main, wtask,
                   cpc, notified>>

WorkerPop ==
    /\ wpc = "process"
    /\ IF ~running THEN wpc' = "finish" /\ UNCHANGED <<queue, wtask>>
       ELSE IF queue = <<>> THEN wpc' = "check" /\ UNCHANGED <<queue, wtask>>
       ELSE wpc' = "handle" /\ wtask' = Head(queue) /\ queue' = Tail(queue)
    /\ UNCHANGED <<deferred, unhandled, running, sleep, worker, slot, refused, response,
                   main, cpc, notified>>

\* process_single_task(.., is_yielding = true).
WorkerHandle ==
    /\ wpc = "handle"
    /\ \/ /\ wtask.kind = "info"
          /\ results' = Sent(wtask.id)
          /\ UNCHANGED unhandled
       \/ /\ wtask.kind # "info"
          /\ unhandled' = Append(unhandled, wtask)
          /\ UNCHANGED results
    /\ wpc' = "process" /\ wtask' = NoTask
    /\ UNCHANGED <<queue, deferred, running, sleep, worker, slot, refused, waiting, main,
                   cpc, notified>>

\* Is the worker's part in this yield over?
finished == stop \/ ~yielding

WorkerCheck ==
    /\ wpc = "check"
    /\ wpc' = IF finished THEN "finish" ELSE IF queue # <<>> THEN "process" ELSE "blocked"
    /\ UNCHANGED <<queues, running, sleep, worker, slot, refused, response, main, wtask,
                   cpc, notified>>

WorkerWakes ==
    /\ wpc = "blocked" /\ "worker" \in notified
    /\ Consume("worker")
    /\ wpc' = IF stop \/ ~running \/ ~yielding \/ queue # <<>> THEN "process" ELSE "blocked"
    /\ UNCHANGED <<queues, running, sleep, worker, slot, refused, response, main, wtask, cpc>>

\* Mutant of WorkerFinish: the main thread is not woken.
finish_silently ==
    /\ wpc = "finish"
    /\ busy' = FALSE
    /\ wpc' = "park"
    /\ UNCHANGED <<queues, running, sleep, stop, yielding, slot, refused, response, main,
                   wtask, cpc, notified>>

WorkerFinish ==
    /\ wpc = "finish"
    /\ busy' = FALSE
    /\ notify_all
    /\ wpc' = "park"
    /\ UNCHANGED <<queues, running, sleep, stop, yielding, slot, refused, response, main,
                   wtask, cpc>>

Worker ==
    \/ WorkerUnparks \/ WorkerPop \/ WorkerHandle \/ WorkerCheck \/ WorkerWakes \/ WorkerFinish

-----------------------------------------------------------------------------
Terminate ==
    /\ MayStop /\ running
    /\ running' = FALSE
    /\ notify_all
    /\ UNCHANGED <<queues, sleep, worker, slot, refused, response, main, helper, cpc>>

Next ==
    \/ \E c \in Clients : Client(c) \/ Leave(c)
    \/ Main \/ GoToSleep \/ Worker \/ Terminate

\* Every thread that can go on eventually does: the operating system schedules
\* the threads and mutex_tasks is held only for short sections.  Nobody has to
\* leave, to put the server to sleep or to terminate it.
Spec ==
    /\ Init /\ [][Next]_vars
    /\ WF_vars(Main) /\ WF_vars(Worker) /\ \A c \in Clients : WF_vars(Client(c))
-----------------------------------------------------------------------------
Tasks == [kind : {"run", "info", "cancel"}, id : Clients] \cup {NextResponse}
InHand == {mtask, wtask} \ {NoTask}

\* The types of the variables; a wake-up is only pending for a blocked thread.
TypeOK ==
    /\ {queue, deferred, unhandled} \subseteq Seq(Tasks)
    /\ {running, sleeping, req_stop_sleeping, stop, busy, yielding} \subseteq BOOLEAN
    /\ slot \in [Slots -> [id : Clients \cup {NoTask}, left : 0..NDecode]]
    /\ waiting \subseteq Clients /\ results \subseteq Clients /\ refused \subseteq Refusable
    /\ InHand \subseteq Tasks /\ notified \subseteq Blocked /\ sleeps \in 0..MaxSleeps
    /\ mpc \in {"process", "handle", "update", "yield", "work", "join", "after",
                "wait", "asleep", "joinworker", "exit"}
    /\ wpc \in {"park", "process", "handle", "check", "blocked", "finish", "exit"}
    /\ cpc \in [Clients -> {"start", "nosleep", "ready", "post", "posted",
                            "done", "stopping", "leaving", "gone"}]

\* How often the task of client c is somewhere in the server.
Times(q, t) == Cardinality({i \in DOMAIN q : q[i] = t})
One(b) == IF b THEN 1 ELSE 0
SlotsOf(c) == {s \in Slots : slot[s].id = c}

Copies(c) ==
    Times(queue, Own(c)) + Times(deferred, Own(c)) + Times(unhandled, Own(c))
      + One(mtask = Own(c)) + One(wtask = Own(c))
      + Cardinality(SlotsOf(c)) + One(c \in results)

\* The task of a client that waits for its answer is in exactly one place: a
\* queue, a thread's hand, a slot, or the results (process_new_tasks, defer,
\* pop_deferred_task and yield_to_queue neither lose nor duplicate tasks).
NothingLost == \A c \in Clients : cpc[c] = "posted" => Copies(c) = 1

\* While a decode is not running the worker handles nothing, and no declined
\* task is left aside: yield_to_queue has waited for it and put them back.
WorkerOnlyInYield ==
    mpc \notin {"work", "join"} =>
        wpc \in {"park", "exit"} /\ unhandled = <<>> /\ wtask = NoTask

\* No result is kept for a reader that has taken its id back (server_response):
\* it would stay in queue_results for ever.  The reader's stop() discards one
\* that was sent just before.
ResultsHaveReader == results \subseteq waiting \cup {c \in Clients : cpc[c] = "stopping"}

\* The client no longer waits for an answer, or the server has been terminated.
Settled(c) == cpc[c] \in {"done", "stopping", "leaving", "gone"} \/ ~running
Cancelled == \E c \in Runners : cpc[c] \in {"leaving", "gone"}

\* Every client that posts a task and stays gets its answer, if the server is
\* neither terminated nor goes to sleep on it: a poller whatever the others do, a
\* completion as long as no completion is cancelled and no launch fails (a popped
\* deferred task that then takes no slot leaves the next one behind).  Deferred and
\* declined tasks find their way back to the main thread, whatever wake-ups are lost.
Answered ==
    \A c \in Clients : (cpc[c] = "posted") ~>
        (Settled(c) \/ sleeping \/ (c \in Runners /\ (Cancelled \/ refused # {})))

\* "If no slot is available, we defer this task for processing later": it is
\* processed later, whichever of the other clients leave or fail to launch.
DeferredIsProcessed == \A c \in Clients : (cpc[c] = "posted") ~> (Settled(c) \/ sleeping)

\* "Wait until a new task arrives, process the task": a task posted by a client
\* that was let through by wait_until_no_sleep is processed.
AnsweredBeforeSleep == \A c \in Runners : (cpc[c] = "posted") ~> Settled(c)

\* terminate() ends start_loop and the worker.
Terminates == ~running ~> (mpc = "exit" /\ wpc = "exit")
=============================================================================
