--------------------------- MODULE StreamSession ---------------------------
(***************************************************************************)
(* Resumable streams (tools/server/server-stream.cpp).  A POST with a      *)
(* conversation id installs a session in the map of the manager, replacing *)
(* and cancelling the one that was there.  The HTTP worker of the POST     *)
(* pulls chunks from the generation and writes each one both to the socket *)
(* and to the session's bounded buffer; when the peer leaves it drains the *)
(* rest into the buffer.  GET readers replay the buffer from an offset,    *)
(* DELETE evicts and cancels, a GC thread forgets finished sessions and    *)
(* shutdown finalizes them all.                                            *)
(*                                                                         *)
(* The map and each session have a lock of their own; a step here is one   *)
(* critical section, and what the code does after it has let go of the map *)
(* lock (cancel, finalize) is a step of its own.  A session is named by    *)
(* the request that created it.  A byte is named by its place in the       *)
(* output, 1, 2, ...  Waits are polled every 200 ms (read_from) or 1 s     *)
(* (the reader of the results), so no wake-up can be lost.                 *)
(***************************************************************************)
EXTENDS Integers, Sequences, FiniteSets

CONSTANTS Requests,   (* POSTs with an X-Conversation-Id                   *)
          Readers,    (* GET /v1/stream                                    *)
          Deleters,   (* DELETE /v1/stream                                 *)
          Convs,      (* conversation ids                                  *)
          ConvOf,     (* the conversation of each of these clients         *)
          EndsEarly,  (* requests that may end before they stream: a       *)
                      (* validation error, or the peer gone by then        *)
          Cap,        (* STREAM_SESSION_MAX_BYTES                          *)
          Output,     (* bound on the output of each generation            *)
          MaxBytes,   (* bound on every output and on the offset of a GET  *)
          Chunks,     (* sizes of one chunk                                *)
          None

ASSUME StreamAssumption ==
    /\ ConvOf \in [Requests \cup Readers \cup Deleters -> Convs]
    /\ EndsEarly \subseteq Requests
    /\ Cap \in Nat \ {0} /\ Chunks \subseteq Nat /\ 0 \in Chunks
    /\ MaxBytes \in Nat /\ Output \in [Requests -> 0 .. MaxBytes]
    /\ None \notin Requests

VARIABLES
    sessions,                                  (* the manager's map        *)
    buffer, prefix_dropped, done, cancelled,   (* per session              *)
    written,      (* history: bytes offered to append before done          *)
    strayed,      (* history: sessions evicted by another request's early  *)
                  (* end                                                   *)
    worker,       (* per request: its HTTP worker                          *)
    other,        (* per request: the session it replaces or evicts        *)
    pulled,       (* per request: the chunk in hand and has_next           *)
    reader, at, from, got,                     (* per GET                  *)
    deleter, victim,                           (* per DELETE               *)
    main, snapshot                             (* shutdown                 *)

session == <<buffer, prefix_dropped, done, cancelled, written>>
request == <<worker, other, pulled, strayed>>
replay  == <<reader, at, from, got>>
delete  == <<deleter, victim>>
stop    == <<main, snapshot>>
vars    == <<sessions, session, request, replay, delete, stop>>

NoChunk == [n |-> 0, more |-> TRUE]

Init ==
    /\ sessions = [c \in Convs |-> None]
    /\ buffer = [r \in Requests |-> <<>>]
    /\ prefix_dropped = [r \in Requests |-> 0]
    /\ done = {} /\ cancelled = {}
    /\ written = [r \in Requests |-> 0]
    /\ worker = [r \in Requests |-> "idle"]
    /\ other = [r \in Requests |-> None]
    /\ pulled = [r \in Requests |-> NoChunk]
    /\ strayed = {}
    /\ reader = [g \in Readers |-> "idle"]
    /\ at = [g \in Readers |-> None]
    /\ from = [g \in Readers |-> 0]
    /\ got = [g \in Readers |-> <<>>]
    /\ deleter = [d \in Deleters |-> "idle"]
    /\ victim = [d \in Deleters |-> None]
    /\ main = "up" /\ snapshot = {}

-----------------------------------------------------------------------------
(* class stream_session                                                    *)

(* Mutant: a chunk larger than the cap does not count what it pushes out.  *)
append_miscounts(s, n) ==
    LET all  == buffer[s] \o [k \in 1 .. n |-> written[s] + k]
        drop == IF Len(all) > Cap THEN Len(all) - Cap ELSE 0
    IN  /\ buffer' = [buffer EXCEPT ![s] = SubSeq(all, drop + 1, Len(all))]
        /\ prefix_dropped' = [prefix_dropped EXCEPT ![s] =
                                @ + (IF n >= Cap THEN n - Cap ELSE drop)]
        /\ written' = [written EXCEPT ![s] = @ + n]

(* Mutant: the room is off by one.                                         *)
append_overfills(s, n) ==
    LET needed  == Len(buffer[s]) + n
        to_drop == IF needed > Cap + 1 THEN needed - Cap ELSE 0
    IN  /\ prefix_dropped' = [prefix_dropped EXCEPT ![s] = @ + to_drop]
        /\ buffer' = [buffer EXCEPT ![s] =
                        SubSeq(@ \o [k \in 1 .. n |-> written[s] + k], to_drop + 1, needed)]
        /\ written' = [written EXCEPT ![s] = @ + n]

(* append: the newest Cap bytes stay, what falls off the front is counted. *)
append(s, n) ==
    IF n >= Cap
    THEN LET skip == n - Cap
         IN  /\ prefix_dropped' = [prefix_dropped EXCEPT ![s] = @ + Len(buffer[s]) + skip]
             /\ buffer' = [buffer EXCEPT ![s] = [k \in 1 .. Cap |-> written[s] + skip + k]]
             /\ written' = [written EXCEPT ![s] = @ + n]
    ELSE LET needed  == Len(buffer[s]) + n
             to_drop == IF needed > Cap THEN needed - Cap ELSE 0
         IN  /\ prefix_dropped' = [prefix_dropped EXCEPT ![s] = @ + to_drop]
             /\ buffer' = [buffer EXCEPT ![s] =
                             SubSeq(@, to_drop + 1, Len(@)) \o [k \in 1 .. n |-> written[s] + k]]
             /\ written' = [written EXCEPT ![s] = @ + n]

(* write(): nothing for an empty chunk, refused once the session is done.  *)
write(s, n) ==
    \/ n > 0 /\ s \notin done /\ append(s, n) /\ UNCHANGED <<done, cancelled>>
    \/ (n = 0 \/ s \in done) /\ UNCHANGED session

finalize(s) ==
    /\ done' = done \cup {s}
    /\ UNCHANGED <<buffer, prefix_dropped, cancelled, written>>

cancel(s) ==
    /\ cancelled' = cancelled \cup {s}
    /\ UNCHANGED <<buffer, prefix_dropped, done, written>>

-----------------------------------------------------------------------------
(* A POST: handle_completions_impl with server_res_spipe                   *)

(* Mutant: the previous session is only finalized.                         *)
ReplacePrevious_only_finalizes(r) ==
    /\ worker[r] = "replace"
    /\ worker' = [worker EXCEPT ![r] = "replace_fin"]
    /\ UNCHANGED <<sessions, session, other, pulled, strayed, replay, delete, stop>>

(* set_req -> create_or_replace: the map is swapped under its lock ...     *)
Create(r) ==
    LET c == ConvOf[r]
    IN  /\ worker[r] = "idle"
        /\ other' = [other EXCEPT ![r] = sessions[c]]
        /\ worker' = [worker EXCEPT ![r] = IF sessions[c] = None THEN "setup" ELSE "replace"]
        /\ sessions' = [sessions EXCEPT ![c] = r]
        /\ UNCHANGED <<session, pulled, strayed, replay, delete, stop>>

(* ... and the previous session cancelled and finalized outside it.        *)
ReplacePrevious(r) ==
    /\ worker[r] = "replace"
    /\ cancel(other[r])
    /\ worker' = [worker EXCEPT ![r] = "replace_fin"]
    /\ UNCHANGED <<sessions, other, pulled, strayed, replay, delete, stop>>

FinalizePrevious(r) ==
    /\ worker[r] = "replace_fin"
    /\ finalize(other[r])
    /\ other' = [other EXCEPT ![r] = None]
    /\ worker' = [worker EXCEPT ![r] = "setup"]
    /\ UNCHANGED <<sessions, pulled, strayed, replay, delete, stop>>

(* The first result is there: set_next.                                    *)
Begin(r) ==
    /\ worker[r] = "setup"
    /\ worker' = [worker EXCEPT ![r] = "stream"]
    /\ UNCHANGED <<sessions, session, other, pulled, strayed, replay, delete, stop>>

(* A bad request, or the peer gone before the first result: on_complete    *)
(* without set_next evicts whatever session its conversation has now.      *)
EndEarly(r) ==
    LET c == ConvOf[r]
    IN  /\ worker[r] = "setup" /\ r \in EndsEarly
        /\ sessions' = [sessions EXCEPT ![c] = None]
        /\ other' = [other EXCEPT ![r] = sessions[c]]
        /\ strayed' = strayed \cup ({sessions[c]} \ {r, None})
        /\ worker' = [worker EXCEPT ![r] = IF sessions[c] = None THEN "destroy" ELSE "evict"]
        /\ UNCHANGED <<session, pulled, replay, delete, stop>>

FinalizeEvicted(r) ==
    /\ worker[r] = "evict"
    /\ finalize(other[r])
    /\ other' = [other EXCEPT ![r] = None]
    /\ worker' = [worker EXCEPT ![r] = "destroy"]
    /\ UNCHANGED <<sessions, pulled, strayed, replay, delete, stop>>

(* next_orig: nothing more once cancelled, else a chunk (the next result,  *)
(* a ping) with more to come, or the last one (the end mark, an error).    *)
Pull(r, n, more) ==
    /\ worker[r] = "stream"
    /\ IF r \in cancelled
       THEN n = 0 /\ ~more
       ELSE written[r] + n <= Output[r] /\ (more => n > 0)
    /\ pulled' = [pulled EXCEPT ![r] = [n |-> n, more |-> more]]
    /\ worker' = [worker EXCEPT ![r] = "write"]
    /\ UNCHANGED <<sessions, session, other, strayed, replay, delete, stop>>

(* The wrapped next writes the chunk to the session before the socket; once*)
(* the peer has left, the loop of on_complete goes on pulling and writes   *)
(* only to the session.                                                    *)
Write(r) ==
    /\ worker[r] = "write"
    /\ write(r, pulled[r].n)
    /\ worker' = [worker EXCEPT ![r] = IF pulled[r].more THEN "stream" ELSE "destroy"]
    /\ pulled' = [pulled EXCEPT ![r] = NoChunk]
    /\ UNCHANGED <<sessions, other, strayed, replay, delete, stop>>

(* Mutant: the producer's end does not close the session.                  *)
Destroy_leaves_open(r) ==
    /\ worker[r] = "destroy"
    /\ worker' = [worker EXCEPT ![r] = "end"]
    /\ UNCHANGED <<sessions, session, other, pulled, strayed, replay, delete, stop>>

(* The response is destroyed, and with it the producer end of the pipe.    *)
Destroy(r) ==
    /\ worker[r] = "destroy"
    /\ finalize(r)
    /\ worker' = [worker EXCEPT ![r] = "end"]
    /\ UNCHANGED <<sessions, other, pulled, strayed, replay, delete, stop>>

Worker(r) ==
    \/ ReplacePrevious(r) \/ FinalizePrevious(r)
    \/ Begin(r) \/ EndEarly(r) \/ FinalizeEvicted(r)
    \/ \E n \in Chunks, more \in BOOLEAN : Pull(r, n, more)
    \/ Write(r) \/ Destroy(r)

-----------------------------------------------------------------------------
(* GET /v1/stream                                                          *)

(* The handler finds the session, or answers 404 ...                       *)
Get(g) ==
    LET s == sessions[ConvOf[g]]
    IN  /\ reader[g] = "idle"
        /\ \/ /\ s = None
              /\ reader' = [reader EXCEPT ![g] = "404"]
              /\ UNCHANGED <<at, from>>
           \/ /\ s # None
              /\ reader' = [reader EXCEPT ![g] = "check"]
              /\ at' = [at EXCEPT ![g] = s]
              /\ \E f \in 0 .. MaxBytes : from' = [from EXCEPT ![g] = f]
        /\ UNCHANGED <<sessions, session, request, got, delete, stop>>

(* ... and answers 400 when the offset is already lost.                    *)
CheckOffset(g) ==
    /\ reader[g] = "check"
    /\ reader' = [reader EXCEPT ![g] =
                    IF from[g] < prefix_dropped[at[g]] THEN "400" ELSE "read"]
    /\ UNCHANGED <<sessions, session, request, at, from, got, delete, stop>>

offset(g) == from[g] + Len(got[g])

(* Mutant: the end is looked for before the rest is delivered.             *)
read_from_done_first(g) ==
    LET s == at[g]
    IN  /\ reader[g] = "read" /\ s \in done
        /\ reader' = [reader EXCEPT ![g] = "done"]
        /\ UNCHANGED <<sessions, session, request, at, from, got, delete, stop>>

(* One call of read_from by the response's next: OFFSET_LOST, the chunk    *)
(* there is (the sink asks for no second one), or the end; else it waits.  *)
(* The handler drops the status: a lost offset just ends the response.     *)
read_from(g) ==
    LET s == at[g]
        logical_end == prefix_dropped[s] + Len(buffer[s])
        local_off   == offset(g) - prefix_dropped[s]
    IN  /\ reader[g] = "read"
        /\ \/ /\ offset(g) < prefix_dropped[s]
              /\ reader' = [reader EXCEPT ![g] = "lost"]
              /\ UNCHANGED got
           \/ /\ offset(g) >= prefix_dropped[s] /\ offset(g) < logical_end
              /\ got' = [got EXCEPT ![g] =
                           @ \o SubSeq(buffer[s], local_off + 1, Len(buffer[s]))]
              /\ UNCHANGED reader
           \/ /\ offset(g) >= logical_end /\ s \in done
              /\ reader' = [reader EXCEPT ![g] = "done"]
              /\ UNCHANGED got
        /\ UNCHANGED <<sessions, session, request, at, from, delete, stop>>

(* should_stop: the reader's own connection is gone.                       *)
ReaderLeaves(g) ==
    /\ reader[g] = "read"
    /\ reader' = [reader EXCEPT ![g] = "left"]
    /\ UNCHANGED <<sessions, session, request, at, from, got, delete, stop>>

-----------------------------------------------------------------------------
(* DELETE /v1/stream: evict_and_cancel                                     *)

Evict(d) ==
    LET c == ConvOf[d]
    IN  /\ deleter[d] = "idle"
        /\ sessions' = [sessions EXCEPT ![c] = None]
        /\ victim' = [victim EXCEPT ![d] = sessions[c]]
        /\ deleter' = [deleter EXCEPT ![d] = IF sessions[c] = None THEN "end" ELSE "cancel"]
        /\ UNCHANGED <<session, request, replay, stop>>

CancelVictim(d) ==
    /\ deleter[d] = "cancel"
    /\ cancel(victim[d])
    /\ deleter' = [deleter EXCEPT ![d] = "finalize"]
    /\ UNCHANGED <<sessions, request, replay, victim, stop>>

FinalizeVictim(d) ==
    /\ deleter[d] = "finalize"
    /\ finalize(victim[d])
    /\ victim' = [victim EXCEPT ![d] = None]
    /\ deleter' = [deleter EXCEPT ![d] = "end"]
    /\ UNCHANGED <<sessions, request, replay, stop>>

-----------------------------------------------------------------------------
(* The GC thread and shutdown                                              *)

(* gc_loop: some finished sessions are older than the TTL.                 *)
Collect ==
    /\ main = "up"
    /\ \E C \in SUBSET {c \in Convs : sessions[c] \in done} :
          C # {} /\ sessions' = [c \in Convs |-> IF c \in C THEN None ELSE sessions[c]]
    /\ UNCHANGED <<session, request, replay, delete, stop>>

(* stop_gc: the map is emptied, then every session that was in it closed.  *)
StopGC ==
    /\ main = "up"
    /\ main' = "stopping"
    /\ snapshot' = {sessions[c] : c \in Convs} \ {None}
    /\ sessions' = [c \in Convs |-> None]
    /\ UNCHANGED <<session, request, replay, delete>>

FinalizeLive(s) ==
    /\ main = "stopping" /\ s \in snapshot
    /\ finalize(s)
    /\ snapshot' = snapshot \ {s}
    /\ main' = IF snapshot = {s} THEN "down" ELSE main
    /\ UNCHANGED <<sessions, request, replay, delete>>

-----------------------------------------------------------------------------
Next ==
    \/ \E r \in Requests : Create(r) \/ Worker(r)
    \/ \E g \in Readers : Get(g) \/ CheckOffset(g) \/ read_from(g) \/ ReaderLeaves(g)
    \/ \E d \in Deleters : Evict(d) \/ CancelVictim(d) \/ FinalizeVictim(d)
    \/ Collect \/ StopGC \/ \E s \in Requests : FinalizeLive(s)

(* Every thread that can go on does; a generation ends by itself (EOS or   *)
(* max_tokens, here Output).  Clients come, leave and delete, the GC and *)
(* shutdown run, or do not.                                                *)
Fairness ==
    /\ \A r \in Requests : WF_vars(Worker(r))
    /\ \A g \in Readers : WF_vars(CheckOffset(g)) /\ WF_vars(read_from(g))
    /\ \A d \in Deleters : WF_vars(CancelVictim(d)) /\ WF_vars(FinalizeVictim(d))

Spec == Init /\ [][Next]_vars /\ Fairness

-----------------------------------------------------------------------------
(* The type of every variable.                                             *)
TypeOK ==
    /\ sessions \in [Convs -> Requests \cup {None}]
    /\ buffer \in [Requests -> Seq(Nat)]
    /\ \A r \in Requests : Len(buffer[r]) <= Cap
    /\ prefix_dropped \in [Requests -> Nat] /\ written \in [Requests -> 0 .. MaxBytes]
    /\ done \subseteq Requests /\ cancelled \subseteq Requests /\ strayed \subseteq Requests
    /\ worker \in [Requests -> {"idle", "replace", "replace_fin", "setup", "evict", "stream",
                                "write", "destroy", "end"}]
    /\ other \in [Requests -> Requests \cup {None}]
    /\ pulled \in [Requests -> [n : Chunks, more : BOOLEAN]]
    /\ reader \in [Readers -> {"idle", "check", "read", "404", "400", "lost", "done", "left"}]
    /\ at \in [Readers -> Requests \cup {None}] /\ from \in [Readers -> 0 .. MaxBytes]
    /\ got \in [Readers -> Seq(Nat)]
    /\ deleter \in [Deleters -> {"idle", "cancel", "finalize", "end"}]
    /\ victim \in [Deleters -> Requests \cup {None}]
    /\ main \in {"up", "stopping", "down"} /\ snapshot \subseteq Requests

Log == INSTANCE StreamLog WITH Logs <- Requests, NoLog <- None,
                               len <- written, closed <- done

(* The sessions implement append-only logs: through any mix of drops at    *)
(* the cap, replacement, eviction and shutdown a reader is only ever given *)
(* the next bytes of the one output it attached to, and nothing is added   *)
(* to a session after finalize().                                          *)
IsLog == Log!Spec

(* However a replay ends by itself: at the end of a session that is done   *)
(* it has delivered everything from its offset on; with an offset that is  *)
(* refused or found lost (the handler drops the status, the client sees an *)
(* ordinary end) the output has gone more than the cap beyond what it had. *)
ReplayComplete ==
    \A g \in Readers :
        /\ reader[g] = "done" => offset(g) >= written[at[g]]
        /\ reader[g] \in {"400", "lost"} => offset(g) + Cap < written[at[g]]

(* While a generation runs and nobody is about to cancel it, its session   *)
(* is the one its conversation has in the map, so a client can resume it   *)
(* and a DELETE reaches it: "One conv maps to at most one live session".   *)
(* The one exception is a session that another POST of the conversation,   *)
(* ending before it streamed, has evicted in place of its own.             *)
Stoppable ==
    \A r \in Requests :
        /\ worker[r] \in {"setup", "stream", "write"}
        /\ r \notin cancelled \cup strayed /\ main = "up"
        => \/ sessions[ConvOf[r]] = r
           \/ \E q \in Requests : worker[q] = "replace" /\ other[q] = r
           \/ \E d \in Deleters : deleter[d] = "cancel" /\ victim[d] = r

(* No replay hangs: every attached reader's response ends.                 *)
ReadersEnd ==
    \A g \in Readers :
        reader[g] \in {"check", "read"} ~> reader[g] \notin {"check", "read"}

=============================================================================
