------------------------ MODULE StreamSessionProofs ------------------------
(***************************************************************************)
(* Machine-checked facts about StreamSession, for any number of POSTs,     *)
(* GETs, DELETEs and conversations, any cap, any chunk sizes and any       *)
(* outputs: the type invariant, ReplayComplete, Stoppable, and that the    *)
(* sessions implement the append-only logs of StreamLog.                   *)
(***************************************************************************)
EXTENDS StreamSession, SequenceTheorems, TLAPS

(* The buffer is the tail of the output that was not dropped: it ends where*)
(* the output ends and each byte sits at its logical offset.               *)
BufferIsTail ==
    \A r \in Requests :
        /\ prefix_dropped[r] + Len(buffer[r]) = written[r]
        /\ \A k \in 1 .. Len(buffer[r]) : buffer[r][k] = prefix_dropped[r] + k

(* The chunk in hand still fits into the output of its generation.         *)
ChunkFits == \A r \in Requests : written[r] + pulled[r].n <= Output[r]

(* Who holds a session outside the map lock: a POST that replaces or       *)
(* evicts, a DELETE, a replay.                                             *)
HoldsSession ==
    /\ \A r \in Requests :
          worker[r] \in {"replace", "replace_fin", "evict"} => other[r] \in Requests
    /\ \A d \in Deleters : deleter[d] \in {"cancel", "finalize"} => victim[d] \in Requests
    /\ \A g \in Readers : at[g] = None <=> reader[g] \in {"idle", "404"}

(* Whoever finalizes a session it did not create has cancelled it first,   *)
(* or has evicted it by ending early.                                      *)
FinalizerHasReason ==
    /\ \A q \in Requests : worker[q] = "replace_fin" => other[q] \in cancelled
    /\ \A q \in Requests : worker[q] = "evict" => other[q] = q \/ other[q] \in strayed
    /\ \A d \in Deleters : deleter[d] = "finalize" => victim[d] \in cancelled

(* Before shutdown a session is done only if its own worker has ended, or  *)
(* it was cancelled or strayed; so the GC never forgets a running one.     *)
DoneHasReason ==
    main = "up" =>
        \A r \in done : \/ r \in cancelled \cup strayed
                        \/ worker[r] \in {"evict", "destroy", "end"}

(* The session is in the map, or somebody is about to cancel it.           *)
Claimed(r) ==
    \/ sessions[ConvOf[r]] = r
    \/ \E q \in Requests : worker[q] = "replace" /\ other[q] = r
    \/ \E d \in Deleters : deleter[d] = "cancel" /\ victim[d] = r

(* The worker of r runs, undisturbed so far.                               *)
Live(r) ==
    /\ worker[r] \in {"replace", "replace_fin", "setup", "stream", "write"}
    /\ r \notin cancelled \cup strayed /\ main = "up"

(* Stoppable for every state of the worker from the swap of the map on.    *)
Reachable == \A r \in Requests : Live(r) => Claimed(r)

(* A replay that read_from() ended is over a session that takes no more,   *)
(* and has delivered all of it.                                            *)
ReplayEnded ==
    \A g \in Readers : reader[g] = "done" => at[g] \in done /\ offset(g) >= written[at[g]]

(* The inductive invariant.                                                *)
IInv ==
    /\ TypeOK /\ BufferIsTail /\ ChunkFits /\ HoldsSession
    /\ FinalizerHasReason /\ DoneHasReason /\ Reachable /\ ReplayEnded

-----------------------------------------------------------------------------
(* The lists of unchanged variables.                                       *)
USE DEF session, request, replay, delete, stop

(* create_or_replace() swaps the map entry: the session that was there is  *)
(* now held by this POST, which is about to cancel it.                     *)
LEMMA CreateStep ==
    ASSUME IInv, NEW r \in Requests, Create(r)
    PROVE  IInv'
<1> USE StreamAssumption DEF IInv, Create
<1>1. TypeOK'
  BY DEF TypeOK, HoldsSession
<1>2. BufferIsTail' /\ ChunkFits'
  BY DEF TypeOK, BufferIsTail, ChunkFits
<1>3. HoldsSession'
  BY DEF TypeOK, HoldsSession
<1>4. FinalizerHasReason'
  BY DEF TypeOK, HoldsSession, FinalizerHasReason
<1>5. DoneHasReason'
  BY DEF TypeOK, HoldsSession, FinalizerHasReason, DoneHasReason
<1>6. Reachable'
  <2> SUFFICES ASSUME NEW x \in Requests, Live(x)' PROVE Claimed(x)'
    BY DEF Reachable
  <2>1. CASE x = r
    BY <2>1 DEF TypeOK, Claimed
  <2>2. CASE x # r
    <3>1. Claimed(x)
      BY <2>2 DEF TypeOK, Reachable, Live
    <3>2. CASE sessions[ConvOf[x]] = x /\ ConvOf[x] = ConvOf[r]
      <4>1. worker'[r] = "replace" /\ other'[r] = x
        BY <3>2 DEF TypeOK
      <4> QED BY <4>1 DEF Claimed
    <3>3. CASE sessions[ConvOf[x]] = x /\ ConvOf[x] # ConvOf[r]
      BY <3>3 DEF TypeOK, Claimed
    <3>4. CASE \E q \in Requests : worker[q] = "replace" /\ other[q] = x
      <4>1. PICK q \in Requests : worker[q] = "replace" /\ other[q] = x
        BY <3>4
      <4>2. worker'[q] = "replace" /\ other'[q] = x
        BY <4>1 DEF TypeOK
      <4> QED BY <4>2 DEF Claimed
    <3>5. CASE \E d \in Deleters : deleter[d] = "cancel" /\ victim[d] = x
      BY <3>5 DEF Claimed
    <3> QED BY <3>1, <3>2, <3>3, <3>4, <3>5 DEF Claimed
  <2> QED BY <2>1, <2>2
<1>7. ReplayEnded'
  BY DEF TypeOK, HoldsSession, ReplayEnded, offset
<1> QED BY <1>1, <1>2, <1>3, <1>4, <1>5, <1>6, <1>7

(* The previous session is cancelled.                                      *)
LEMMA ReplacePreviousStep ==
    ASSUME IInv, NEW r \in Requests, ReplacePrevious(r)
    PROVE  IInv'
<1> USE StreamAssumption DEF IInv, ReplacePrevious, cancel
<1>1. TypeOK'
  BY DEF TypeOK, HoldsSession
<1>2. BufferIsTail' /\ ChunkFits'
  BY DEF TypeOK, BufferIsTail, ChunkFits
<1>3. HoldsSession'
  BY DEF TypeOK, HoldsSession
<1>4. FinalizerHasReason'
  BY DEF TypeOK, HoldsSession, FinalizerHasReason
<1>5. DoneHasReason'
  BY DEF TypeOK, HoldsSession, FinalizerHasReason, DoneHasReason
<1>6. Reachable'
  <2> SUFFICES ASSUME NEW x \in Requests, Live(x)' PROVE Claimed(x)'
    BY DEF Reachable
  <2>1. Claimed(x)
    BY DEF TypeOK, Reachable, Live
  <2>2. ASSUME NEW q \in Requests, worker[q] = "replace", other[q] = x
        PROVE  worker'[q] = "replace" /\ other'[q] = x
    BY <2>2 DEF TypeOK, Live
  <2> QED BY <2>1, <2>2 DEF Claimed
<1>7. ReplayEnded'
  BY DEF TypeOK, HoldsSession, ReplayEnded, offset
<1> QED BY <1>1, <1>2, <1>3, <1>4, <1>5, <1>6, <1>7

(* The previous session, cancelled by now, is finalized.                   *)
LEMMA FinalizePreviousStep ==
    ASSUME IInv, NEW r \in Requests, FinalizePrevious(r)
    PROVE  IInv'
<1> USE StreamAssumption DEF IInv, FinalizePrevious, finalize
<1>1. TypeOK'
  BY DEF TypeOK, HoldsSession
<1>2. BufferIsTail' /\ ChunkFits'
  BY DEF TypeOK, BufferIsTail, ChunkFits
<1>3. HoldsSession'
  BY DEF TypeOK, HoldsSession
<1>4. FinalizerHasReason'
  BY DEF TypeOK, HoldsSession, FinalizerHasReason
<1>5. DoneHasReason'
  BY DEF TypeOK, HoldsSession, FinalizerHasReason, DoneHasReason
<1>6. Reachable'
  <2> SUFFICES ASSUME NEW x \in Requests, Live(x)' PROVE Claimed(x)'
    BY DEF Reachable
  <2>1. Claimed(x)
    BY DEF TypeOK, Reachable, Live
  <2>2. ASSUME NEW q \in Requests, worker[q] = "replace", other[q] = x
        PROVE  worker'[q] = "replace" /\ other'[q] = x
    BY <2>2 DEF TypeOK, Live
  <2> QED BY <2>1, <2>2 DEF Claimed
<1>7. ReplayEnded'
  BY DEF TypeOK, HoldsSession, ReplayEnded, offset
<1> QED BY <1>1, <1>2, <1>3, <1>4, <1>5, <1>6, <1>7

(* set_next.                                                               *)
LEMMA BeginStep ==
    ASSUME IInv, NEW r \in Requests, Begin(r)
    PROVE  IInv'
<1> USE StreamAssumption DEF IInv, Begin
<1>1. TypeOK'
  BY DEF TypeOK, HoldsSession
<1>2. BufferIsTail' /\ ChunkFits'
  BY DEF TypeOK, BufferIsTail, ChunkFits
<1>3. HoldsSession'
  BY DEF TypeOK, HoldsSession
<1>4. FinalizerHasReason'
  BY DEF TypeOK, HoldsSession, FinalizerHasReason
<1>5. DoneHasReason'
  BY DEF TypeOK, HoldsSession, FinalizerHasReason, DoneHasReason
<1>6. Reachable'
  BY DEF TypeOK, HoldsSession, DoneHasReason, Reachable, Live, Claimed
<1>7. ReplayEnded'
  BY DEF TypeOK, HoldsSession, ReplayEnded, offset
<1> QED BY <1>1, <1>2, <1>3, <1>4, <1>5, <1>6, <1>7

(* An early end evicts its own session or makes another one stray.         *)
LEMMA EndEarlyStep ==
    ASSUME IInv, NEW r \in Requests, EndEarly(r)
    PROVE  IInv'
<1> USE StreamAssumption DEF IInv, EndEarly
<1>1. TypeOK'
  <2>1. sessions[ConvOf[r]] \in Requests \cup {None}
    BY DEF TypeOK
  <2>2. strayed' \subseteq Requests
    BY <2>1 DEF TypeOK
  <2> QED BY <2>1, <2>2 DEF TypeOK
<1>2. BufferIsTail' /\ ChunkFits'
  BY DEF TypeOK, BufferIsTail, ChunkFits
<1>3. HoldsSession'
  BY DEF TypeOK, HoldsSession
<1>4. FinalizerHasReason'
  BY DEF TypeOK, HoldsSession, FinalizerHasReason
<1>5. DoneHasReason'
  BY DEF TypeOK, HoldsSession, FinalizerHasReason, DoneHasReason
<1>6. Reachable'
  <2> SUFFICES ASSUME NEW x \in Requests, Live(x)' PROVE Claimed(x)'
    BY DEF Reachable
  <2>1. Live(x) /\ x # r
    BY DEF TypeOK, Live
  <2>2. Claimed(x) /\ worker'[x] = worker[x]
    BY <2>1 DEF TypeOK, Reachable
  <2>3. CASE sessions[ConvOf[x]] = x
    <3>1. ConvOf[x] # ConvOf[r]
      BY <2>1, <2>3 DEF TypeOK, Live
    <3> QED BY <2>3, <3>1 DEF TypeOK, Claimed
  <2>4. ASSUME NEW q \in Requests, worker[q] = "replace", other[q] = x
        PROVE  worker'[q] = "replace" /\ other'[q] = x
    BY <2>4 DEF TypeOK
  <2> QED BY <2>2, <2>3, <2>4 DEF Claimed
<1>7. ReplayEnded'
  BY DEF TypeOK, HoldsSession, ReplayEnded, offset
<1> QED BY <1>1, <1>2, <1>3, <1>4, <1>5, <1>6, <1>7

(* The evicted session is finalized.                                       *)
LEMMA FinalizeEvictedStep ==
    ASSUME IInv, NEW r \in Requests, FinalizeEvicted(r)
    PROVE  IInv'
<1> USE StreamAssumption DEF IInv, FinalizeEvicted, finalize
<1>1. TypeOK'
  BY DEF TypeOK, HoldsSession
<1>2. BufferIsTail' /\ ChunkFits'
  BY DEF TypeOK, BufferIsTail, ChunkFits
<1>3. HoldsSession'
  BY DEF TypeOK, HoldsSession
<1>4. FinalizerHasReason'
  BY DEF TypeOK, HoldsSession, FinalizerHasReason
<1>5. DoneHasReason'
  BY DEF TypeOK, HoldsSession, FinalizerHasReason, DoneHasReason
<1>6. Reachable'
  <2> SUFFICES ASSUME NEW x \in Requests, Live(x)' PROVE Claimed(x)'
    BY DEF Reachable
  <2>1. Claimed(x)
    BY DEF TypeOK, Reachable, Live
  <2>2. ASSUME NEW q \in Requests, worker[q] = "replace", other[q] = x
        PROVE  worker'[q] = "replace" /\ other'[q] = x
    BY <2>2 DEF TypeOK, Live
  <2> QED BY <2>1, <2>2 DEF Claimed
<1>7. ReplayEnded'
  BY DEF TypeOK, HoldsSession, ReplayEnded, offset
<1> QED BY <1>1, <1>2, <1>3, <1>4, <1>5, <1>6, <1>7

(* The response is destroyed.                                              *)
LEMMA DestroyStep ==
    ASSUME IInv, NEW r \in Requests, Destroy(r)
    PROVE  IInv'
<1> USE StreamAssumption DEF IInv, Destroy, finalize
<1>1. TypeOK'
  BY DEF TypeOK, HoldsSession
<1>2. BufferIsTail' /\ ChunkFits'
  BY DEF TypeOK, BufferIsTail, ChunkFits
<1>3. HoldsSession'
  BY DEF TypeOK, HoldsSession
<1>4. FinalizerHasReason'
  BY DEF TypeOK, HoldsSession, FinalizerHasReason
<1>5. DoneHasReason'
  BY DEF TypeOK, HoldsSession, FinalizerHasReason, DoneHasReason
<1>6. Reachable'
  BY DEF TypeOK, HoldsSession, DoneHasReason, Reachable, Live, Claimed
<1>7. ReplayEnded'
  BY DEF TypeOK, HoldsSession, ReplayEnded, offset
<1> QED BY <1>1, <1>2, <1>3, <1>4, <1>5, <1>6, <1>7

(* evict_and_cancel() takes the session out of the map.                    *)
LEMMA EvictStep ==
    ASSUME IInv, NEW d \in Deleters, Evict(d)
    PROVE  IInv'
<1> USE StreamAssumption DEF IInv, Evict
<1>1. TypeOK'
  BY DEF TypeOK, HoldsSession
<1>2. BufferIsTail' /\ ChunkFits'
  BY DEF TypeOK, BufferIsTail, ChunkFits
<1>3. HoldsSession'
  BY DEF TypeOK, HoldsSession
<1>4. FinalizerHasReason'
  BY DEF TypeOK, HoldsSession, FinalizerHasReason
<1>5. DoneHasReason'
  BY DEF TypeOK, HoldsSession, FinalizerHasReason, DoneHasReason
<1>6. Reachable'
  <2> SUFFICES ASSUME NEW x \in Requests, Live(x)' PROVE Claimed(x)'
    BY DEF Reachable
  <2>1. Claimed(x)
    BY DEF TypeOK, Reachable, Live
  <2>2. CASE sessions[ConvOf[x]] = x /\ ConvOf[x] = ConvOf[d]
    <3>1. deleter'[d] = "cancel" /\ victim'[d] = x
      BY <2>2 DEF TypeOK
    <3> QED BY <3>1 DEF Claimed
  <2>3. CASE sessions[ConvOf[x]] = x /\ ConvOf[x] # ConvOf[d]
    BY <2>3 DEF TypeOK, Claimed
  <2>4. ASSUME NEW e \in Deleters, deleter[e] = "cancel", victim[e] = x
        PROVE  deleter'[e] = "cancel" /\ victim'[e] = x
    BY <2>4 DEF TypeOK
  <2> QED BY <2>1, <2>2, <2>3, <2>4 DEF Claimed
<1>7. ReplayEnded'
  BY DEF TypeOK, HoldsSession, ReplayEnded, offset
<1> QED BY <1>1, <1>2, <1>3, <1>4, <1>5, <1>6, <1>7

(* ... cancels it ...                                                      *)
LEMMA CancelVictimStep ==
    ASSUME IInv, NEW d \in Deleters, CancelVictim(d)
    PROVE  IInv'
<1> USE StreamAssumption DEF IInv, CancelVictim, cancel
<1>1. TypeOK'
  BY DEF TypeOK, HoldsSession
<1>2. BufferIsTail' /\ ChunkFits'
  BY DEF TypeOK, BufferIsTail, ChunkFits
<1>3. HoldsSession'
  BY DEF TypeOK, HoldsSession
<1>4. FinalizerHasReason'
  BY DEF TypeOK, HoldsSession, FinalizerHasReason
<1>5. DoneHasReason'
  BY DEF TypeOK, HoldsSession, FinalizerHasReason, DoneHasReason
<1>6. Reachable'
  BY DEF TypeOK, HoldsSession, DoneHasReason, Reachable, Live, Claimed
<1>7. ReplayEnded'
  BY DEF TypeOK, HoldsSession, ReplayEnded, offset
<1> QED BY <1>1, <1>2, <1>3, <1>4, <1>5, <1>6, <1>7

(* ... and finalizes it.                                                   *)
LEMMA FinalizeVictimStep ==
    ASSUME IInv, NEW d \in Deleters, FinalizeVictim(d)
    PROVE  IInv'
<1> USE StreamAssumption DEF IInv, FinalizeVictim, finalize
<1>1. TypeOK'
  BY DEF TypeOK, HoldsSession
<1>2. BufferIsTail' /\ ChunkFits'
  BY DEF TypeOK, BufferIsTail, ChunkFits
<1>3. HoldsSession'
  BY DEF TypeOK, HoldsSession
<1>4. FinalizerHasReason'
  BY DEF TypeOK, HoldsSession, FinalizerHasReason
<1>5. DoneHasReason'
  BY DEF TypeOK, HoldsSession, FinalizerHasReason, DoneHasReason
<1>6. Reachable'
  BY DEF TypeOK, HoldsSession, DoneHasReason, Reachable, Live, Claimed
<1>7. ReplayEnded'
  BY DEF TypeOK, HoldsSession, ReplayEnded, offset
<1> QED BY <1>1, <1>2, <1>3, <1>4, <1>5, <1>6, <1>7

(* The GC forgets sessions that are done.                                  *)
LEMMA CollectStep ==
    ASSUME IInv, Collect
    PROVE  IInv'
<1> USE StreamAssumption DEF IInv, Collect
<1>1. TypeOK'
  BY DEF TypeOK, HoldsSession
<1>2. BufferIsTail' /\ ChunkFits'
  BY DEF TypeOK, BufferIsTail, ChunkFits
<1>3. HoldsSession'
  BY DEF TypeOK, HoldsSession
<1>4. FinalizerHasReason'
  BY DEF TypeOK, HoldsSession, FinalizerHasReason
<1>5. DoneHasReason'
  BY DEF TypeOK, HoldsSession, FinalizerHasReason, DoneHasReason
<1>6. Reachable'
  <2> SUFFICES ASSUME NEW x \in Requests, Live(x)' PROVE Claimed(x)'
    BY DEF Reachable
  <2>1. Live(x) /\ Claimed(x)
    BY DEF Reachable, Live
  <2>2. x \notin done
    BY <2>1 DEF DoneHasReason, Live
  <2>3. ConvOf[x] \in Convs
    OBVIOUS
  <2>4. sessions[ConvOf[x]] = x => sessions'[ConvOf[x]] = x
    BY <2>2, <2>3 DEF TypeOK
  <2> QED BY <2>1, <2>4 DEF Claimed
<1>7. ReplayEnded'
  BY DEF TypeOK, HoldsSession, ReplayEnded, offset
<1> QED BY <1>1, <1>2, <1>3, <1>4, <1>5, <1>6, <1>7

(* stop_gc() empties the map.                                              *)
LEMMA StopGCStep ==
    ASSUME IInv, StopGC
    PROVE  IInv'
<1> USE StreamAssumption DEF IInv, StopGC
<1>1. TypeOK'
  BY DEF TypeOK, HoldsSession
<1>2. BufferIsTail' /\ ChunkFits'
  BY DEF TypeOK, BufferIsTail, ChunkFits
<1>3. HoldsSession'
  BY DEF TypeOK, HoldsSession
<1>4. FinalizerHasReason'
  BY DEF TypeOK, HoldsSession, FinalizerHasReason
<1>5. DoneHasReason'
  BY DEF TypeOK, HoldsSession, FinalizerHasReason, DoneHasReason
<1>6. Reachable'
  BY DEF TypeOK, HoldsSession, DoneHasReason, Reachable, Live, Claimed
<1>7. ReplayEnded'
  BY DEF TypeOK, HoldsSession, ReplayEnded, offset
<1> QED BY <1>1, <1>2, <1>3, <1>4, <1>5, <1>6, <1>7

(* ... and finalizes what was in it.                                       *)
LEMMA FinalizeLiveStep ==
    ASSUME IInv, NEW s \in Requests, FinalizeLive(s)
    PROVE  IInv'
<1> USE StreamAssumption DEF IInv, FinalizeLive, finalize
<1>1. TypeOK'
  BY DEF TypeOK, HoldsSession
<1>2. BufferIsTail' /\ ChunkFits'
  BY DEF TypeOK, BufferIsTail, ChunkFits
<1>3. HoldsSession'
  BY DEF TypeOK, HoldsSession
<1>4. FinalizerHasReason'
  BY DEF TypeOK, HoldsSession, FinalizerHasReason
<1>5. DoneHasReason'
  BY DEF TypeOK, HoldsSession, FinalizerHasReason, DoneHasReason
<1>6. Reachable'
  BY DEF TypeOK, HoldsSession, DoneHasReason, Reachable, Live, Claimed
<1>7. ReplayEnded'
  BY DEF TypeOK, HoldsSession, ReplayEnded, offset
<1> QED BY <1>1, <1>2, <1>3, <1>4, <1>5, <1>6, <1>7

(* The GET handler attaches or answers 404.                                *)
LEMMA GetStep ==
    ASSUME IInv, NEW g \in Readers, Get(g)
    PROVE  IInv'
<1> USE StreamAssumption DEF IInv
<1>1. /\ reader[g] = "idle"
      /\ UNCHANGED <<sessions, session, request, got, delete, stop>>
  BY DEF Get
<1>2. PICK s \in Requests \cup {None}, f \in 0 .. MaxBytes, v \in {"404", "check"} :
        /\ reader' = [reader EXCEPT ![g] = v]
        /\ at' = [at EXCEPT ![g] = s]
        /\ from' = [from EXCEPT ![g] = f]
        /\ s = None <=> v = "404"
  <2>1. at = [at EXCEPT ![g] = None] /\ from = [from EXCEPT ![g] = from[g]]
    BY <1>1 DEF TypeOK, HoldsSession
  <2>2. from[g] \in 0 .. MaxBytes /\ sessions[ConvOf[g]] \in Requests \cup {None}
    BY DEF TypeOK
  <2>3. CASE sessions[ConvOf[g]] = None
    BY <2>1, <2>2, <2>3 DEF Get
  <2>4. CASE sessions[ConvOf[g]] # None
    BY <2>2, <2>4 DEF Get
  <2> QED BY <2>3, <2>4
<1>3. TypeOK'
  BY <1>1, <1>2 DEF TypeOK
<1>4. BufferIsTail' /\ ChunkFits' /\ FinalizerHasReason' /\ DoneHasReason'
  BY <1>1 DEF BufferIsTail, ChunkFits, FinalizerHasReason, DoneHasReason
<1>5. HoldsSession'
  BY <1>1, <1>2 DEF TypeOK, HoldsSession
<1>6. Reachable'
  BY <1>1 DEF Reachable, Live, Claimed
<1>7. ReplayEnded'
  BY <1>1, <1>2 DEF TypeOK, ReplayEnded, offset
<1> QED BY <1>3, <1>4, <1>5, <1>6, <1>7

(* The GET handler checks the offset.                                      *)
LEMMA CheckOffsetStep ==
    ASSUME IInv, NEW g \in Readers, CheckOffset(g)
    PROVE  IInv'
<1> USE StreamAssumption DEF IInv, CheckOffset
<1>1. TypeOK'
  BY DEF TypeOK, HoldsSession
<1>2. BufferIsTail' /\ ChunkFits'
  BY DEF TypeOK, BufferIsTail, ChunkFits
<1>3. HoldsSession'
  BY DEF TypeOK, HoldsSession
<1>4. FinalizerHasReason'
  BY DEF TypeOK, HoldsSession, FinalizerHasReason
<1>5. DoneHasReason'
  BY DEF TypeOK, HoldsSession, FinalizerHasReason, DoneHasReason
<1>6. Reachable'
  BY DEF TypeOK, HoldsSession, DoneHasReason, Reachable, Live, Claimed
<1>7. ReplayEnded'
  BY DEF TypeOK, HoldsSession, ReplayEnded, offset
<1> QED BY <1>1, <1>2, <1>3, <1>4, <1>5, <1>6, <1>7

(* A reader's connection goes.                                             *)
LEMMA ReaderLeavesStep ==
    ASSUME IInv, NEW g \in Readers, ReaderLeaves(g)
    PROVE  IInv'
<1> USE StreamAssumption DEF IInv, ReaderLeaves
<1>1. TypeOK'
  BY DEF TypeOK, HoldsSession
<1>2. BufferIsTail' /\ ChunkFits'
  BY DEF TypeOK, BufferIsTail, ChunkFits
<1>3. HoldsSession'
  BY DEF TypeOK, HoldsSession
<1>4. FinalizerHasReason'
  BY DEF TypeOK, HoldsSession, FinalizerHasReason
<1>5. DoneHasReason'
  BY DEF TypeOK, HoldsSession, FinalizerHasReason, DoneHasReason
<1>6. Reachable'
  BY DEF TypeOK, HoldsSession, DoneHasReason, Reachable, Live, Claimed
<1>7. ReplayEnded'
  BY DEF TypeOK, HoldsSession, ReplayEnded, offset
<1> QED BY <1>1, <1>2, <1>3, <1>4, <1>5, <1>6, <1>7

(* A chunk is pulled: it fits into the output.                             *)
LEMMA PullStep ==
    ASSUME IInv, NEW r \in Requests, NEW n \in Chunks, NEW more \in BOOLEAN, Pull(r, n, more)
    PROVE  IInv'
<1> USE StreamAssumption DEF IInv, Pull
<1>1. TypeOK'
  <2>1. [n |-> n, more |-> more] \in [n : Chunks, more : BOOLEAN]
    OBVIOUS
  <2>2. pulled' \in [Requests -> [n : Chunks, more : BOOLEAN]]
    BY <2>1 DEF TypeOK
  <2> QED BY <2>2 DEF TypeOK
<1>2. BufferIsTail' /\ ChunkFits'
  <2>1. written[r] + n <= Output[r]
    <3> HIDE DEF Pull
    <3>1. written[r] \in Nat /\ Output[r] \in Nat /\ pulled[r] \in [n : Chunks, more : BOOLEAN]
      BY DEF TypeOK
    <3>2. written[r] + pulled[r].n <= Output[r] /\ pulled[r].n \in Nat
      BY <3>1 DEF ChunkFits
    <3>3. written[r] <= Output[r]
      BY <3>1, <3>2
    <3> QED BY <3>1, <3>3 DEF Pull
  <2> QED BY <2>1 DEF TypeOK, BufferIsTail, ChunkFits
<1>3. HoldsSession' /\ FinalizerHasReason' /\ DoneHasReason'
  BY DEF TypeOK, HoldsSession, FinalizerHasReason, DoneHasReason
<1>4. Reachable'
  <2>1. /\ worker[r] = "stream" /\ worker' = [worker EXCEPT ![r] = "write"]
        /\ UNCHANGED <<sessions, cancelled, strayed, main, other, deleter, victim>>
    OBVIOUS
  <2> HIDE DEF Pull
  <2>2. \A q \in Requests : worker'[q] = IF q = r THEN "write" ELSE worker[q]
    BY <2>1 DEF TypeOK
  <2>3. ASSUME NEW x \in Requests, Live(x)' PROVE Claimed(x)'
    <3>1. Live(x)
      BY <2>1, <2>2, <2>3 DEF Live
    <3>2. \A q \in Requests : worker[q] = "replace" => worker'[q] = "replace"
      BY <2>1, <2>2
    <3> QED BY <2>1, <3>1, <3>2 DEF Reachable, Claimed
  <2> QED BY <2>3 DEF Reachable
<1>5. ReplayEnded'
  BY DEF ReplayEnded, offset
<1> QED BY <1>1, <1>2, <1>3, <1>4, <1>5

(* append() in numbers: the session ends up with the last m bytes of the   *)
(* longer output, m within the cap, and the rest counted as dropped.       *)
LEMMA AppendKeepsTail ==
    ASSUME TypeOK, BufferIsTail, NEW s \in Requests, NEW n \in Nat, n > 0,
           written[s] + n <= MaxBytes, append(s, n)
    PROVE  /\ written' = [written EXCEPT ![s] = written[s] + n]
           /\ \E b \in Seq(Nat), p \in Nat :
                 /\ buffer' = [buffer EXCEPT ![s] = b]
                 /\ prefix_dropped' = [prefix_dropped EXCEPT ![s] = p]
                 /\ Len(b) <= Cap /\ p + Len(b) = written[s] + n
                 /\ \A k \in 1 .. Len(b) : b[k] = p + k
                 /\ (p = prefix_dropped[s] \/ Len(b) = Cap)
<1> DEFINE w == written[s]
           o == prefix_dropped[s]
           old == buffer[s]
<1>1. /\ w \in Nat /\ o \in Nat /\ old \in Seq(Nat) /\ Len(old) \in Nat /\ Len(old) <= Cap
      /\ o + Len(old) = w /\ \A k \in 1 .. Len(old) : old[k] = o + k
      /\ Cap \in Nat /\ Cap > 0
  BY StreamAssumption DEF TypeOK, BufferIsTail
<1> DEFINE l == Len(old)
<1>2. w \in Nat /\ o \in Nat /\ l \in Nat /\ o + l = w /\ l <= Cap /\ Cap \in Nat /\ Cap > 0
  BY <1>1
<1> HIDE DEF l
<1>3. CASE n >= Cap
  <2> HIDE DEF w, o, old
  <2> DEFINE skip == n - Cap
             b == [k \in 1 .. Cap |-> w + skip + k]
  <2>1. b \in Seq(Nat) /\ Len(b) = Cap /\ \A k \in 1 .. Len(b) : b[k] = w + skip + k
    BY <1>1, <1>3
  <2>2. o + Len(old) + skip \in Nat /\ o + Len(old) + skip = w + skip
    <3>1. o + l + skip \in Nat /\ o + l + skip = w + skip
      BY <1>2, <1>3
    <3> QED BY <3>1 DEF l
  <2>3. /\ buffer' = [buffer EXCEPT ![s] = b]
        /\ prefix_dropped' = [prefix_dropped EXCEPT ![s] = o + Len(old) + skip]
        /\ written' = [written EXCEPT ![s] = w + n]
    BY <1>3 DEF append, w, o, old
  <2>4. (o + Len(old) + skip) + Len(b) = w + n
    BY <1>1, <1>3, <2>1
  <2>5. \A k \in 1 .. Len(b) : b[k] = (o + Len(old) + skip) + k
    BY <2>1, <2>2
  <2>6. Len(b) <= Cap
    BY <1>1, <2>1
  <2> HIDE DEF b
  <2> QED BY <2>1, <2>2, <2>3, <2>4, <2>5, <2>6 DEF w, o
<1>4. CASE ~(n >= Cap)
  <2> HIDE DEF w, o, old
  <2> DEFINE needed == Len(old) + n
             drop == IF needed > Cap THEN needed - Cap ELSE 0
             keep == SubSeq(old, drop + 1, Len(old))
             add == [k \in 1 .. n |-> w + k]
             b == keep \o add
  <2>1. /\ drop \in Nat /\ drop <= Len(old) /\ Len(old) + n - drop <= Cap
        /\ (drop = 0 \/ Len(old) + n - drop = Cap)
    BY <1>1, <1>4
  <2> HIDE DEF drop
  <2>2. /\ keep \in Seq(Nat) /\ Len(keep) = Len(old) - drop
        /\ \A k \in 1 .. Len(keep) : keep[k] = old[drop + k]
    <3>1. \A i \in drop + 1 .. Len(old) : old[i] \in Nat
      BY <1>1, <2>1
    <3>2. /\ keep \in Seq(Nat)
          /\ Len(keep) = IF drop + 1 <= Len(old) THEN Len(old) - (drop + 1) + 1 ELSE 0
          /\ \A i \in 1 .. Len(old) - (drop + 1) + 1 : keep[i] = old[(drop + 1) + i - 1]
      BY <1>1, <2>1, <3>1, SubSeqProperties
    <3> HIDE DEF keep
    <3>3. Len(keep) = Len(old) - drop
      BY <1>1, <2>1, <3>2
    <3>4. ASSUME NEW k \in 1 .. Len(keep) PROVE keep[k] = old[drop + k]
      <4>1. /\ k \in 1 .. Len(old) - (drop + 1) + 1 /\ (drop + 1) + k - 1 = drop + k
        BY <1>1, <2>1, <3>3
      <4> QED BY <3>2, <4>1
    <3> QED BY <3>2, <3>3, <3>4
  <2>3. add \in Seq(Nat) /\ Len(add) = n /\ \A k \in 1 .. n : add[k] = w + k
    BY <1>1
  <2>4. /\ buffer' = [buffer EXCEPT ![s] = b]
        /\ prefix_dropped' = [prefix_dropped EXCEPT ![s] = o + drop]
        /\ written' = [written EXCEPT ![s] = w + n]
    BY <1>4 DEF append, drop, w, o, old
  <2> HIDE DEF keep, add
  <2>5. /\ b \in Seq(Nat) /\ Len(b) = Len(keep) + Len(add)
        /\ \A i \in 1 .. Len(keep) + Len(add) :
              b[i] = IF i <= Len(keep) THEN keep[i] ELSE add[i - Len(keep)]
    BY <2>2, <2>3, ConcatProperties
  <2> HIDE DEF b
  <2>6. Len(b) = Len(old) - drop + n
    BY <1>1, <2>1, <2>2, <2>3, <2>5
  <2>7. ASSUME NEW k \in 1 .. Len(b) PROVE b[k] = (o + drop) + k
    <3>1. CASE k <= Len(keep)
      <4>1. drop + k \in 1 .. Len(old) /\ k \in 1 .. Len(keep)
        BY <1>1, <2>1, <2>2, <2>6, <3>1
      <4>2. b[k] = keep[k] /\ keep[k] = old[drop + k] /\ old[drop + k] = o + (drop + k)
        BY <1>1, <2>2, <2>5, <3>1, <4>1
      <4> QED BY <1>1, <2>1, <4>1, <4>2
    <3>2. CASE ~(k <= Len(keep))
      <4>1. k - Len(keep) \in 1 .. n /\ k \in 1 .. Len(keep) + Len(add)
        BY <1>1, <2>1, <2>2, <2>3, <2>5, <2>6, <3>2
      <4>2. b[k] = add[k - Len(keep)] /\ add[k - Len(keep)] = w + (k - Len(keep))
        BY <2>3, <2>5, <3>2, <4>1
      <4>3. w + (k - (l - drop)) = (o + drop) + k
        BY <1>2, <2>1
      <4> QED BY <2>2, <4>2, <4>3 DEF l
    <3> QED BY <3>1, <3>2
  <2>8. o + drop \in Nat /\ (o + drop) + Len(b) = w + n /\ Len(b) <= Cap
    <3>1. Len(b) = l - drop + n /\ l + n - drop <= Cap
      BY <2>1, <2>6 DEF l
    <3> QED BY <1>2, <2>1, <3>1
  <2>9. o + drop = o \/ Len(b) = Cap
    <3>1. Len(b) = l - drop + n /\ (drop = 0 \/ l + n - drop = Cap)
      BY <2>1, <2>6 DEF l
    <3> QED BY <1>2, <2>1, <3>1
  <2> QED BY <2>4, <2>5, <2>7, <2>8, <2>9 DEF w, o
<1> QED BY <1>3, <1>4

(* The chunk goes into the buffer, or is refused by a session that is done.*)
LEMMA WriteStep ==
    ASSUME IInv, NEW r \in Requests, Write(r)
    PROVE  IInv'
<1> USE StreamAssumption DEF IInv
<1> DEFINE n == pulled[r].n
<1>1. /\ worker[r] = "write"
      /\ worker' = [worker EXCEPT ![r] = IF pulled[r].more THEN "stream" ELSE "destroy"]
      /\ pulled' = [pulled EXCEPT ![r] = NoChunk]
      /\ UNCHANGED <<sessions, other, strayed, replay, delete, stop, done, cancelled>>
  BY DEF Write, write
<1>2. /\ n \in Nat /\ pulled[r].more \in BOOLEAN /\ written[r] \in Nat /\ Output[r] \in Nat
      /\ Output[r] <= MaxBytes /\ written[r] + n <= Output[r]
  <2>1. pulled[r] \in [n : Chunks, more : BOOLEAN] /\ written[r] \in Nat /\ Output[r] \in 0 .. MaxBytes
    BY DEF TypeOK
  <2>2. written[r] + n <= Output[r]
    BY DEF ChunkFits
  <2>3. n \in Chunks /\ pulled[r].more \in BOOLEAN
    BY <2>1
  <2>4. Chunks \subseteq Nat /\ MaxBytes \in Nat
    BY StreamAssumption
  <2> HIDE StreamAssumption DEF n, IInv
  <2>5. n \in Nat
    BY <2>3, <2>4
  <2>6. Output[r] \in Nat /\ Output[r] <= MaxBytes
    BY <2>1, <2>4
  <2> QED BY <2>1, <2>2, <2>3, <2>5, <2>6
<1>3. pulled' \in [Requests -> [n : Chunks, more : BOOLEAN]] /\ pulled'[r].n = 0
  BY <1>1 DEF TypeOK, NoChunk
<1>4. HoldsSession' /\ FinalizerHasReason' /\ DoneHasReason'
  BY <1>1 DEF TypeOK, HoldsSession, FinalizerHasReason, DoneHasReason
<1>5. Reachable'
  <2>1. worker = [q \in Requests |-> worker[q]] /\ Reachable
    BY DEF TypeOK
  <2> HIDE StreamAssumption DEF IInv
  <2>2. \A q \in Requests \ {r} : worker'[q] = worker[q]
    BY <1>1, <2>1
  <2>3. worker'[r] \in {"stream", "destroy"}
    BY <1>1, <2>1
  <2>4. \A q \in Requests : worker[q] = "replace" => worker'[q] = "replace"
    BY <1>1, <2>2
  <2>5. ASSUME NEW q \in Requests, Live(q)' PROVE Claimed(q)'
    <3>1. Live(q)
      BY <1>1, <2>2, <2>5 DEF Live
    <3>2. Claimed(q)
      BY <2>1, <3>1 DEF Reachable
    <3> QED BY <1>1, <2>4, <3>2 DEF Claimed
  <2> QED BY <2>5 DEF Reachable
<1>6. CASE n > 0 /\ r \notin done /\ append(r, n)
  <2>1. written[r] + n <= MaxBytes
    BY <1>2
  <2>2. /\ written' = [written EXCEPT ![r] = written[r] + n]
        /\ \E b \in Seq(Nat), p \in Nat :
              /\ buffer' = [buffer EXCEPT ![r] = b]
              /\ prefix_dropped' = [prefix_dropped EXCEPT ![r] = p]
              /\ Len(b) <= Cap /\ p + Len(b) = written[r] + n
              /\ \A k \in 1 .. Len(b) : b[k] = p + k
              /\ (p = prefix_dropped[r] \/ Len(b) = Cap)
    BY <1>2, <1>6, <2>1, AppendKeepsTail
  <2>3. PICK b \in Seq(Nat), p \in Nat :
              /\ buffer' = [buffer EXCEPT ![r] = b]
              /\ prefix_dropped' = [prefix_dropped EXCEPT ![r] = p]
              /\ Len(b) <= Cap /\ p + Len(b) = written[r] + n
              /\ \A k \in 1 .. Len(b) : b[k] = p + k
              /\ (p = prefix_dropped[r] \/ Len(b) = Cap)
    BY <2>2
  <2>4. TypeOK'
    <3>1. buffer' \in [Requests -> Seq(Nat)] /\ \A q \in Requests : Len(buffer'[q]) <= Cap
      BY <2>3 DEF TypeOK
    <3>2. prefix_dropped' \in [Requests -> Nat]
      BY <2>3 DEF TypeOK
    <3>3. written' \in [Requests -> 0 .. MaxBytes]
      <4>1. written[r] + n \in 0 .. MaxBytes
        BY <1>2, <2>1
      <4>2. written \in [Requests -> 0 .. MaxBytes]
        BY DEF TypeOK
      <4> HIDE StreamAssumption DEF n, IInv
      <4> QED BY <2>2, <4>1, <4>2
    <3>4. worker' \in [Requests -> {"idle", "replace", "replace_fin", "setup", "evict", "stream",
                                    "write", "destroy", "end"}]
      BY <1>1 DEF TypeOK
    <3>5. TypeOK
      OBVIOUS
    <3> HIDE StreamAssumption DEF n, IInv
    <3> QED BY <1>1, <1>3, <3>1, <3>2, <3>3, <3>4, <3>5 DEF TypeOK
  <2>5. BufferIsTail'
    BY <2>2, <2>3 DEF TypeOK, BufferIsTail
  <2>6. ChunkFits'
    BY <1>1, <1>2, <1>3, <2>2 DEF TypeOK, ChunkFits
  <2>7. ReplayEnded'
    BY <1>1, <1>6, <2>2 DEF TypeOK, HoldsSession, ReplayEnded, offset
  <2> QED BY <1>4, <1>5, <2>4, <2>5, <2>6, <2>7
<1>7. CASE UNCHANGED session
  <2>1. TypeOK'
    BY <1>1, <1>2, <1>3, <1>7 DEF TypeOK
  <2>2. BufferIsTail' /\ ReplayEnded'
    BY <1>1, <1>7 DEF BufferIsTail, ReplayEnded, offset
  <2>3. ChunkFits'
    BY <1>1, <1>2, <1>3, <1>7 DEF TypeOK, ChunkFits
  <2> QED BY <1>4, <1>5, <2>1, <2>2, <2>3
<1> QED BY <1>6, <1>7 DEF Write, write

(* What one read_from() hands out: the bytes from the reader's offset to   *)
(* the end of the output, each once.                                       *)
LEMMA ReadIsNextBytes ==
    ASSUME IInv, NEW g \in Readers, reader[g] = "read",
           offset(g) >= prefix_dropped[at[g]],
           offset(g) < prefix_dropped[at[g]] + Len(buffer[at[g]])
    PROVE  LET s == at[g]
               n == written[s] - offset(g)
           IN  /\ s \in Requests /\ n \in Nat /\ n > 0 /\ offset(g) \in Nat
               /\ SubSeq(buffer[s], offset(g) - prefix_dropped[s] + 1, Len(buffer[s]))
                    = [k \in 1 .. n |-> offset(g) + k]
<1> DEFINE s == at[g]
           b == buffer[s]
           p == prefix_dropped[s]
           o == offset(g)
           n == written[s] - o
           t == SubSeq(b, o - p + 1, Len(b))
<1>1. s \in Requests
  BY DEF IInv, TypeOK, HoldsSession
<1>2. /\ p \in Nat /\ o \in Nat /\ b \in Seq(Nat) /\ Len(b) \in Nat
      /\ p + Len(b) = written[s] /\ \A k \in 1 .. Len(b) : b[k] = p + k
  BY <1>1 DEF IInv, TypeOK, BufferIsTail, offset
<1>3. o >= p /\ o < p + Len(b)
  OBVIOUS
<1> HIDE DEF b, p, o, s
<1>4. n \in Nat /\ n > 0 /\ n = Len(b) - (o - p)
  BY <1>2, <1>3
<1>5. \A i \in o - p + 1 .. Len(b) : b[i] \in Nat
  BY <1>2, <1>3
<1>6. /\ t \in Seq(Nat)
      /\ Len(t) = IF o - p + 1 <= Len(b) THEN Len(b) - (o - p + 1) + 1 ELSE 0
      /\ \A i \in 1 .. Len(b) - (o - p + 1) + 1 : t[i] = b[(o - p + 1) + i - 1]
  BY <1>2, <1>5, SubSeqProperties
<1> HIDE DEF t
<1>7. Len(t) = n
  BY <1>2, <1>3, <1>4, <1>6
<1>8. ASSUME NEW k \in 1 .. n PROVE t[k] = o + k
  <2>1. (o - p + 1) + k - 1 \in 1 .. Len(b) /\ k \in 1 .. Len(b) - (o - p + 1) + 1
    BY <1>2, <1>3, <1>4
  <2>2. t[k] = b[(o - p + 1) + k - 1] /\ b[(o - p + 1) + k - 1] = p + ((o - p + 1) + k - 1)
    BY <1>2, <1>6, <2>1
  <2> QED BY <1>2, <1>3, <1>4, <2>2
<1>9. t = [k \in 1 .. n |-> o + k]
  BY <1>4, <1>6, <1>7, <1>8
<1> QED BY <1>1, <1>2, <1>4, <1>9 DEF s, b, p, o, t

(* read_from() keeps the invariant: the end is reported only at the end.   *)
LEMMA ReadFromStep ==
    ASSUME IInv, NEW g \in Readers, read_from(g)
    PROVE  IInv'
<1> USE StreamAssumption DEF IInv
<1>1. /\ reader[g] = "read"
      /\ UNCHANGED <<sessions, session, request, at, from, delete, stop>>
  BY DEF read_from
<1>2. at[g] \in Requests
  BY <1>1 DEF TypeOK, HoldsSession
<1>3. BufferIsTail' /\ ChunkFits' /\ FinalizerHasReason' /\ DoneHasReason'
  BY <1>1 DEF BufferIsTail, ChunkFits, FinalizerHasReason, DoneHasReason
<1>4. Reachable'
  BY <1>1 DEF Reachable, Live, Claimed
<1>5. CASE reader' = [reader EXCEPT ![g] = "lost"] /\ UNCHANGED got
  <2>1. TypeOK' /\ HoldsSession'
    BY <1>1, <1>5 DEF TypeOK, HoldsSession
  <2>2. ReplayEnded'
    BY <1>1, <1>5 DEF TypeOK, ReplayEnded, offset
  <2> QED BY <1>3, <1>4, <2>1, <2>2
<1>6. CASE /\ offset(g) >= prefix_dropped[at[g]]
           /\ offset(g) < prefix_dropped[at[g]] + Len(buffer[at[g]])
           /\ got' = [got EXCEPT ![g] = @ \o SubSeq(buffer[at[g]],
                        offset(g) - prefix_dropped[at[g]] + 1, Len(buffer[at[g]]))]
           /\ UNCHANGED reader
  <2> DEFINE n == written[at[g]] - offset(g)
             t == [k \in 1 .. n |-> offset(g) + k]
  <2>1. n \in Nat /\ offset(g) \in Nat /\ got' = [got EXCEPT ![g] = got[g] \o t]
    BY <1>1, <1>6, ReadIsNextBytes
  <2>2. t \in Seq(Nat)
    <3> HIDE DEF n
    <3> QED BY <2>1
  <2> HIDE DEF t
  <2>3. got[g] \o t \in Seq(Nat)
    BY <2>2 DEF TypeOK
  <2>4. TypeOK'
    <3>1. got' \in [Readers -> Seq(Nat)]
      BY <2>1, <2>3 DEF TypeOK
    <3> QED BY <1>1, <1>6, <3>1 DEF TypeOK
  <2>5. HoldsSession'
    BY <1>1, <1>6 DEF HoldsSession
  <2>6. ReplayEnded'
    BY <1>1, <1>6, <2>1 DEF TypeOK, ReplayEnded, offset
  <2> QED BY <1>3, <1>4, <2>4, <2>5, <2>6
<1>7. CASE /\ offset(g) >= prefix_dropped[at[g]] + Len(buffer[at[g]]) /\ at[g] \in done
           /\ reader' = [reader EXCEPT ![g] = "done"] /\ UNCHANGED got
  <2>1. TypeOK' /\ HoldsSession'
    BY <1>1, <1>7 DEF TypeOK, HoldsSession
  <2>2. offset(g) >= written[at[g]]
    BY <1>2, <1>7 DEF BufferIsTail
  <2>3. ReplayEnded'
    BY <1>1, <1>7, <2>2 DEF TypeOK, ReplayEnded, offset
  <2> QED BY <1>3, <1>4, <2>1, <2>3
<1> QED BY <1>5, <1>6, <1>7 DEF read_from

-----------------------------------------------------------------------------
(* Nothing has happened yet.                                               *)
LEMMA InitInv == Init => IInv
<1> SUFFICES ASSUME Init PROVE IInv
  OBVIOUS
<1> USE StreamAssumption DEF Init
<1>1. TypeOK
  <2>1. pulled \in [Requests -> [n : Chunks, more : BOOLEAN]]
    BY DEF NoChunk
  <2> QED BY <2>1 DEF TypeOK
<1>2. BufferIsTail
  BY DEF BufferIsTail
<1>3. ChunkFits
  BY DEF ChunkFits, NoChunk
<1>4. HoldsSession /\ FinalizerHasReason /\ DoneHasReason /\ ReplayEnded
  BY DEF HoldsSession, FinalizerHasReason, DoneHasReason, ReplayEnded
<1>5. Reachable
  BY DEF Reachable, Live
<1> QED BY <1>1, <1>2, <1>3, <1>4, <1>5 DEF IInv

(* Every step of a worker, a replay, a DELETE, the GC and shutdown keeps   *)
(* the inductive invariant.                                                *)
LEMMA InvStep == IInv /\ [Next]_vars => IInv'
<1> SUFFICES ASSUME IInv, [Next]_vars PROVE IInv'
  OBVIOUS
<1>1. ASSUME NEW r \in Requests, Create(r) \/ Worker(r) PROVE IInv'
  BY <1>1, CreateStep, ReplacePreviousStep, FinalizePreviousStep, BeginStep, EndEarlyStep,
     FinalizeEvictedStep, PullStep, WriteStep, DestroyStep DEF Worker
<1>2. ASSUME NEW g \in Readers, Get(g) \/ CheckOffset(g) \/ read_from(g) \/ ReaderLeaves(g)
      PROVE  IInv'
  BY <1>2, GetStep, CheckOffsetStep, ReadFromStep, ReaderLeavesStep
<1>3. ASSUME NEW d \in Deleters, Evict(d) \/ CancelVictim(d) \/ FinalizeVictim(d)
      PROVE  IInv'
  BY <1>3, EvictStep, CancelVictimStep, FinalizeVictimStep
<1>4. CASE Collect \/ StopGC \/ \E s \in Requests : FinalizeLive(s)
  BY <1>4, CollectStep, StopGCStep, FinalizeLiveStep
<1>5. CASE UNCHANGED vars
  BY <1>5 DEF vars, IInv, TypeOK, BufferIsTail, ChunkFits, HoldsSession,
     FinalizerHasReason, DoneHasReason, Reachable, Live, Claimed, ReplayEnded, offset
<1> QED BY <1>1, <1>2, <1>3, <1>4, <1>5 DEF Next

(* The strengthened invariant holds throughout.                            *)
THEOREM StreamInvariant == Spec => []IInv
  BY InitInv, InvStep, PTL DEF Spec

(* Every variable keeps its type; in particular no buffer outgrows the cap.*)
THEOREM StreamTypeCorrect == Spec => []TypeOK
<1>1. IInv => TypeOK
  BY DEF IInv
<1> QED BY <1>1, StreamInvariant, PTL

(* Nothing is dropped before the buffer is full: what is left is always    *)
(* the newest Cap bytes.                                                   *)
DropsOnlyExcess ==
    \A r \in Requests : prefix_dropped[r] = 0 \/ prefix_dropped[r] + Cap = written[r]

(* A reader whose offset was refused or lost is more than the cap behind.  *)
CutOffBehind ==
    \A g \in Readers :
        reader[g] \in {"400", "lost"} =>
            at[g] \in Requests /\ offset(g) + Cap < written[at[g]]

(* A reader has no bytes before its offset is checked.                     *)
NothingReadYet ==
    \A g \in Readers : reader[g] \in {"idle", "check"} => Len(got[g]) = 0

CutOffInv == DropsOnlyExcess /\ CutOffBehind /\ NothingReadYet

(* append() drops what goes over the cap and no more.                      *)
LEMMA AppendDropsExcess ==
    ASSUME TypeOK, BufferIsTail, DropsOnlyExcess, NEW s \in Requests, NEW n \in Nat, n > 0,
           written[s] + n <= MaxBytes, append(s, n)
    PROVE  /\ written' = [written EXCEPT ![s] = written[s] + n]
           /\ DropsOnlyExcess'
<1>1. /\ written[s] \in Nat /\ prefix_dropped[s] \in Nat /\ Len(buffer[s]) \in Nat
      /\ Len(buffer[s]) <= Cap /\ Cap \in Nat /\ Cap > 0
      /\ prefix_dropped[s] + Len(buffer[s]) = written[s]
  BY StreamAssumption DEF TypeOK, BufferIsTail
<1>2. PICK l \in Nat : l = Len(buffer[s])
  BY <1>1
<1>3. PICK o \in Nat : o = prefix_dropped[s]
  BY <1>1
<1>4. PICK w \in Nat : w = written[s]
  BY <1>1
<1>5. /\ l <= Cap /\ o + l = w /\ (o = 0 \/ o + Cap = w) /\ Cap \in Nat /\ Cap > 0
  BY <1>1, <1>2, <1>3, <1>4 DEF DropsOnlyExcess
<1>6. written' = [written EXCEPT ![s] = w + n]
  BY <1>4, AppendKeepsTail
<1>7. PICK b \in Seq(Nat), p \in Nat :
         /\ buffer' = [buffer EXCEPT ![s] = b]
         /\ prefix_dropped' = [prefix_dropped EXCEPT ![s] = p]
         /\ Len(b) <= Cap /\ p + Len(b) = written[s] + n
         /\ \A k \in 1 .. Len(b) : b[k] = p + k
         /\ (p = prefix_dropped[s] \/ Len(b) = Cap)
  BY AppendKeepsTail
<1>8. p = 0 \/ p + Cap = w + n
  <2>1. PICK m \in Nat : m = Len(b)
    OBVIOUS
  <2>2. m <= Cap /\ p + m = w + n /\ (p = o \/ m = Cap)
    BY <1>3, <1>4, <1>7, <2>1
  <2> QED BY <1>5, <2>2
<1>9. /\ prefix_dropped = [r \in Requests |-> prefix_dropped[r]]
      /\ written = [r \in Requests |-> written[r]]
  BY DEF TypeOK
<1>10. ASSUME NEW r \in Requests
       PROVE  prefix_dropped'[r] = 0 \/ prefix_dropped'[r] + Cap = written'[r]
  <2>1. CASE r = s
    <3>1. prefix_dropped'[s] = p /\ written'[s] = w + n
      BY <1>6, <1>7, <1>9
    <3> QED BY <1>8, <2>1, <3>1
  <2>2. CASE r # s
    <3>1. prefix_dropped'[r] = prefix_dropped[r] /\ written'[r] = written[r]
      BY <1>6, <1>7, <1>9, <2>2
    <3> QED BY <3>1 DEF DropsOnlyExcess
  <2> QED BY <2>1, <2>2
<1>11. DropsOnlyExcess'
  BY <1>10 DEF DropsOnlyExcess
<1> QED BY <1>4, <1>6, <1>11

(* A step that appends nothing and ends no replay.                         *)
LEMMA CutOffSame ==
    ASSUME CutOffInv, UNCHANGED <<prefix_dropped, written, reader, at, from, got>>
    PROVE  CutOffInv'
  BY DEF CutOffInv, DropsOnlyExcess, CutOffBehind, NothingReadYet, offset

(* The chunk of a worker: the output only grows.                           *)
LEMMA CutOffWrite ==
    ASSUME IInv, CutOffInv, NEW r \in Requests, Write(r)
    PROVE  CutOffInv'
<1>1. UNCHANGED <<reader, at, from, got>>
  BY DEF Write
<1>2. PICK n : n = pulled[r].n
  OBVIOUS
<1>3. n \in Nat /\ written \in [Requests -> Nat] /\ Cap \in Nat
  <2>1. pulled[r] \in [n : Chunks, more : BOOLEAN] /\ written \in [Requests -> 0 .. MaxBytes]
    BY DEF IInv, TypeOK
  <2>2. n \in Chunks
    BY <1>2, <2>1
  <2>3. Chunks \subseteq Nat /\ Cap \in Nat /\ 0 .. MaxBytes \subseteq Nat
    BY StreamAssumption
  <2> HIDE DEF IInv
  <2>4. written \in [Requests -> Nat]
    BY <2>1, <2>3
  <2> QED BY <2>2, <2>3, <2>4
<1>4. CASE n > 0 /\ append(r, n)
  <2>1. written' = [written EXCEPT ![r] = written[r] + n] /\ DropsOnlyExcess'
    <3>1. written[r] + n <= MaxBytes
      <4>1. written[r] + n <= Output[r] /\ Output[r] \in 0 .. MaxBytes
        BY <1>2, StreamAssumption DEF IInv, ChunkFits
      <4> QED BY <1>3, <4>1, StreamAssumption
    <3> QED BY <1>3, <1>4, <3>1, AppendDropsExcess DEF IInv, CutOffInv
  <2>2. ASSUME NEW g \in Readers, reader[g] \in {"400", "lost"}
        PROVE  at[g] \in Requests /\ offset(g) + Cap < written'[at[g]]
    <3>1. at[g] \in Requests /\ offset(g) + Cap < written[at[g]]
      BY <2>2 DEF CutOffInv, CutOffBehind
    <3>2. from[g] \in Nat /\ Len(got[g]) \in Nat
      BY StreamAssumption DEF IInv, TypeOK
    <3>3. written'[at[g]] \in {written[at[g]], written[at[g]] + n}
      BY <1>3, <2>1, <3>1
    <3>4. offset(g) \in Nat /\ written[at[g]] \in Nat
      BY <1>3, <3>1, <3>2 DEF offset
    <3> QED BY <1>3, <3>1, <3>3, <3>4
  <2>3. CutOffBehind'
    BY <1>1, <2>2 DEF CutOffBehind, offset
  <2> QED BY <1>1, <2>1, <2>3 DEF CutOffInv, NothingReadYet
<1>5. CASE UNCHANGED session
  BY <1>1, <1>5, CutOffSame DEF session
<1> QED BY <1>2, <1>4, <1>5 DEF Write, write

(* A step of one reader: what it must show of itself.                      *)
LEMMA CutOffReader ==
    ASSUME IInv, CutOffInv, NEW g \in Readers, UNCHANGED <<prefix_dropped, written>>,
           \A h \in Readers \ {g} : /\ reader'[h] = reader[h] /\ at'[h] = at[h]
                                    /\ from'[h] = from[h] /\ got'[h] = got[h],
           reader'[g] \in {"400", "lost"} =>
               at'[g] \in Requests /\ offset(g)' < prefix_dropped[at'[g]],
           reader'[g] \in {"idle", "check"} => Len(got'[g]) = 0,
           offset(g)' \in Nat
    PROVE  CutOffInv'
<1>1. DropsOnlyExcess' /\ NothingReadYet'
  BY DEF CutOffInv, DropsOnlyExcess, NothingReadYet
<1>2. ASSUME NEW h \in Readers, reader'[h] \in {"400", "lost"}
      PROVE  at'[h] \in Requests /\ offset(h)' + Cap < written[at'[h]]
  <2>1. CASE h # g
    BY <1>2, <2>1 DEF CutOffInv, CutOffBehind, offset
  <2>2. CASE h = g
    <3>1. at'[g] \in Requests /\ offset(g)' < prefix_dropped[at'[g]]
      BY <1>2, <2>2
    <3>2. PICK s \in Requests : s = at'[g]
      BY <3>1
    <3>3. prefix_dropped[s] = 0 \/ prefix_dropped[s] + Cap = written[s]
      BY <3>2 DEF CutOffInv, DropsOnlyExcess
    <3>4. prefix_dropped[s] \in Nat /\ written[s] \in Nat /\ Cap \in Nat
      BY StreamAssumption DEF IInv, TypeOK
    <3>5. PICK o \in Nat : o = offset(g)'
      OBVIOUS
    <3>6. o + Cap < written[s]
      BY <3>1, <3>2, <3>3, <3>4, <3>5
    <3> QED BY <2>2, <3>2, <3>5, <3>6
  <2> QED BY <2>1, <2>2
<1>3. CutOffBehind'
  BY <1>2 DEF CutOffBehind
<1> QED BY <1>1, <1>3 DEF CutOffInv

(* The steps of a reader: where an offset is refused or found lost it was  *)
(* dropped.                                                                *)
LEMMA CutOffRead ==
    ASSUME IInv, CutOffInv, NEW g \in Readers,
           Get(g) \/ CheckOffset(g) \/ read_from(g) \/ ReaderLeaves(g)
    PROVE  CutOffInv'
<1>1. /\ reader \in [Readers -> {"idle", "check", "read", "404", "400", "lost", "done", "left"}]
      /\ at \in [Readers -> Requests \cup {None}] /\ from \in [Readers -> 0 .. MaxBytes]
      /\ got \in [Readers -> Seq(Nat)] /\ MaxBytes \in Nat
  BY StreamAssumption DEF IInv, TypeOK
<1>2. from' \in [Readers -> 0 .. MaxBytes] /\ got' \in [Readers -> Seq(Nat)]
  BY InvStep DEF IInv, TypeOK, Next
<1>3. offset(g)' \in Nat
  <2>1. Len(got'[g]) \in Nat /\ from'[g] \in Nat
    BY <1>1, <1>2
  <2> QED BY <2>1 DEF offset
<1>4. UNCHANGED <<prefix_dropped, written>>
  BY DEF Get, CheckOffset, read_from, ReaderLeaves
<1>5. reader[g] = "check" \/ reader[g] = "read" => at[g] \in Requests
  BY <1>1 DEF IInv, HoldsSession
<1>6. reader[g] \in {"idle", "check"} => Len(got[g]) = 0
  BY DEF CutOffInv, NothingReadYet
<1>7. CASE Get(g)
  <2>1. got' = got /\ reader[g] = "idle"
    BY <1>7 DEF Get
  <2>2. reader'[g] \in {"404", "check"} /\ \A h \in Readers \ {g} :
            reader'[h] = reader[h] /\ at'[h] = at[h] /\ from'[h] = from[h]
    BY <1>1, <1>7 DEF Get
  <2> QED BY <1>3, <1>4, <1>6, <2>1, <2>2, CutOffReader
<1>8. CASE CheckOffset(g)
  <2>1. /\ UNCHANGED <<at, from, got>> /\ reader[g] = "check"
        /\ reader' = [reader EXCEPT ![g] =
                         IF from[g] < prefix_dropped[at[g]] THEN "400" ELSE "read"]
    BY <1>8 DEF CheckOffset
  <2>2. \A h \in Readers \ {g} : reader'[h] = reader[h]
    BY <1>1, <2>1
  <2>3. reader'[g] = IF from[g] < prefix_dropped[at[g]] THEN "400" ELSE "read"
    BY <1>1, <2>1
  <2>4. offset(g)' = from[g]
    BY <1>1, <1>6, <2>1 DEF offset
  <2> QED BY <1>3, <1>4, <1>5, <2>1, <2>2, <2>3, <2>4, CutOffReader
<1>9. CASE read_from(g)
  <2>1. UNCHANGED <<at, from>> /\ reader[g] = "read"
    BY <1>9 DEF read_from
  <2>2. \A h \in Readers \ {g} : reader'[h] = reader[h] /\ got'[h] = got[h]
    BY <1>1, <1>9 DEF read_from
  <2>3. reader'[g] \in {"lost", "read", "done"}
    BY <1>1, <1>9 DEF read_from
  <2>4. reader'[g] = "lost" => got' = got /\ offset(g) < prefix_dropped[at[g]]
    BY <1>1, <1>9 DEF read_from
  <2>5. reader'[g] = "lost" => offset(g)' < prefix_dropped[at'[g]]
    BY <2>1, <2>4 DEF offset
  <2> QED BY <1>3, <1>4, <1>5, <2>1, <2>2, <2>3, <2>5, CutOffReader
<1>10. CASE ReaderLeaves(g)
  <2>1. UNCHANGED <<at, from, got>> /\ reader' = [reader EXCEPT ![g] = "left"]
    BY <1>10 DEF ReaderLeaves
  <2> QED BY <1>1, <1>3, <1>4, <2>1, CutOffReader
<1> QED BY <1>7, <1>8, <1>9, <1>10

LEMMA CutOffStep == IInv /\ CutOffInv /\ [Next]_vars => CutOffInv'
<1> SUFFICES ASSUME IInv, CutOffInv, [Next]_vars PROVE CutOffInv'
  OBVIOUS
<1>1. ASSUME NEW r \in Requests, Create(r) \/ Worker(r) PROVE CutOffInv'
  <2>1. CASE Write(r)
    BY <2>1, CutOffWrite
  <2>2. CASE ~Write(r)
    <3>1. UNCHANGED <<prefix_dropped, written, reader, at, from, got>>
      BY <1>1, <2>2 DEF Create, Worker, ReplacePrevious, FinalizePrevious, Begin, EndEarly,
         FinalizeEvicted, Pull, Destroy, cancel, finalize
    <3> QED BY <3>1, CutOffSame
  <2> QED BY <2>1, <2>2
<1>2. ASSUME NEW g \in Readers, Get(g) \/ CheckOffset(g) \/ read_from(g) \/ ReaderLeaves(g)
      PROVE  CutOffInv'
  BY <1>2, CutOffRead
<1>3. ASSUME NEW d \in Deleters, Evict(d) \/ CancelVictim(d) \/ FinalizeVictim(d)
      PROVE  CutOffInv'
  BY <1>3, CutOffSame DEF Evict, CancelVictim, FinalizeVictim, cancel, finalize
<1>4. CASE Collect \/ StopGC \/ \E s \in Requests : FinalizeLive(s)
  BY <1>4, CutOffSame DEF Collect, StopGC, FinalizeLive, finalize
<1>5. CASE UNCHANGED vars
  BY <1>5, CutOffSame DEF vars
<1> QED BY <1>1, <1>2, <1>3, <1>4, <1>5 DEF Next

(* However a replay ends by itself: done only with everything from its     *)
(* offset on delivered, refused or cut off only when the output is more    *)
(* than the cap beyond what it had.                                        *)
THEOREM StreamReplayComplete == Spec => []ReplayComplete
<1>1. Init => CutOffInv
  BY DEF Init, CutOffInv, DropsOnlyExcess, CutOffBehind, NothingReadYet
<1>2. Spec => []CutOffInv
  BY <1>1, StreamInvariant, CutOffStep, PTL DEF Spec
<1>3. IInv /\ CutOffInv => ReplayComplete
  BY DEF IInv, ReplayEnded, CutOffInv, CutOffBehind, ReplayComplete
<1> QED BY <1>2, <1>3, StreamInvariant, PTL

(* A running generation that nobody has cancelled or made stray is in the  *)
(* map, or somebody is about to cancel it.                                 *)
THEOREM StreamStoppable == Spec => []Stoppable
<1>1. IInv => Stoppable
  BY DEF IInv, Reachable, Live, Claimed, Stoppable
<1> QED BY <1>1, StreamInvariant, PTL

-----------------------------------------------------------------------------
(* The refinement of StreamLog, one lemma per kind of step.                *)

(* A step that touches neither an output, nor the set of finished sessions,*)
(* nor a replay stutters in the log.                                       *)
LEMMA LogStutters ==
    ASSUME UNCHANGED <<written, done, at, from, got>>
    PROVE  [Log!Next]_(Log!vars)
  BY DEF Log!vars

(* finalize() closes the log, once.                                        *)
LEMMA LogCloses ==
    ASSUME TypeOK, NEW s \in Requests, finalize(s), UNCHANGED replay
    PROVE  [Log!Next]_(Log!vars)
<1>1. CASE s \in done
  <2>1. UNCHANGED <<written, done, at, from, got>>
    BY <1>1 DEF finalize
  <2> QED BY <2>1, LogStutters
<1>2. CASE s \notin done
  <2>1. Log!Close(s)
    BY <1>2 DEF finalize, Log!Close
  <2> QED BY <2>1 DEF Log!Next
<1> QED BY <1>1, <1>2

(* write() makes the log grow, within the bound, or is refused.            *)
LEMMA LogGrows ==
    ASSUME IInv, NEW r \in Requests, Write(r)
    PROVE  [Log!Next]_(Log!vars)
<1>1. /\ UNCHANGED <<done, replay>>
      /\ \/ pulled[r].n > 0 /\ r \notin done /\ append(r, pulled[r].n)
         \/ UNCHANGED written
  BY DEF Write, write
<1>2. CASE UNCHANGED written
  BY <1>1, <1>2, LogStutters
<1>3. CASE pulled[r].n > 0 /\ r \notin done /\ append(r, pulled[r].n)
  <2> DEFINE n == pulled[r].n
  <2>1. pulled[r] \in [n : Chunks, more : BOOLEAN] /\ written[r] \in Nat /\ Output[r] \in 0 .. MaxBytes
    BY StreamAssumption DEF IInv, TypeOK
  <2>2. n \in Nat /\ written[r] + n <= Output[r]
    BY <2>1, StreamAssumption DEF IInv, ChunkFits
  <2>3. written' = [written EXCEPT ![r] = written[r] + n]
    BY <1>3 DEF append
  <2>4. n > 0
    BY <1>3
  <2> HIDE DEF n
  <2>5. written[r] + n \in written[r] + 1 .. MaxBytes
    BY <2>1, <2>2, <2>4, StreamAssumption
  <2>6. Log!Grow(r)
    BY <1>1, <1>3, <2>3, <2>5 DEF Log!Grow
  <2> QED BY <2>6 DEF Log!Next
<1> QED BY <1>1, <1>2, <1>3

(* A GET attaches to the session it found, at the offset it asked for.     *)
LEMMA LogAttaches ==
    ASSUME IInv, NEW g \in Readers, Get(g)
    PROVE  [Log!Next]_(Log!vars)
<1> DEFINE s == sessions[ConvOf[g]]
<1>1. s \in Requests \cup {None} /\ at[g] = None
  BY StreamAssumption DEF IInv, TypeOK, HoldsSession, Get
<1>2. UNCHANGED <<written, done, got>>
  BY DEF Get
<1>3. CASE s = None
  BY <1>2, <1>3, LogStutters DEF Get
<1>4. CASE s # None
  <2>1. Log!Attach(g, s)
    BY <1>1, <1>2, <1>4 DEF Get, Log!Attach
  <2> QED BY <1>1, <1>4, <2>1 DEF Log!Next
<1> QED BY <1>3, <1>4

(* read_from() delivers the next bytes of the log, or none.                *)
LEMMA LogDelivers ==
    ASSUME IInv, NEW g \in Readers, read_from(g)
    PROVE  [Log!Next]_(Log!vars)
<1>1. reader[g] = "read" /\ UNCHANGED <<written, done, at, from>>
  BY DEF read_from
<1>2. CASE UNCHANGED got
  BY <1>1, <1>2, LogStutters
<1>3. CASE /\ offset(g) >= prefix_dropped[at[g]]
           /\ offset(g) < prefix_dropped[at[g]] + Len(buffer[at[g]])
           /\ got' = [got EXCEPT ![g] = @ \o SubSeq(buffer[at[g]],
                        offset(g) - prefix_dropped[at[g]] + 1, Len(buffer[at[g]]))]
  <2> DEFINE n == written[at[g]] - offset(g)
  <2>1. /\ at[g] \in Requests /\ n \in Nat /\ n > 0
        /\ got' = [got EXCEPT ![g] = got[g] \o [k \in 1 .. n |-> offset(g) + k]]
    BY <1>1, <1>3, ReadIsNextBytes
  <2>2. n \in 1 .. written[at[g]] - offset(g)
    BY <2>1
  <2>3. at[g] # None
    BY <2>1, StreamAssumption
  <2>4. Log!Deliver(g)
    BY <1>1, <2>1, <2>2, <2>3 DEF Log!Deliver, offset
  <2> QED BY <2>4 DEF Log!Next
<1> QED BY <1>2, <1>3 DEF read_from

(* Every step is a step of the logs or leaves them alone.                  *)
LEMMA LogStep == IInv /\ [Next]_vars => [Log!Next]_(Log!vars)
<1> SUFFICES ASSUME IInv, [Next]_vars PROVE [Log!Next]_(Log!vars)
  OBVIOUS
<1>1. ASSUME NEW r \in Requests, Create(r) \/ Worker(r) PROVE [Log!Next]_(Log!vars)
  <2>1. CASE Create(r) \/ Begin(r) \/ EndEarly(r) \/ ReplacePrevious(r)
    BY <2>1, LogStutters DEF Create, Begin, EndEarly, ReplacePrevious, cancel
  <2>2. CASE \E n \in Chunks, more \in BOOLEAN : Pull(r, n, more)
    BY <2>2, LogStutters DEF Pull
  <2>3. CASE FinalizePrevious(r) \/ FinalizeEvicted(r)
    <3>1. other[r] \in Requests /\ finalize(other[r]) /\ UNCHANGED replay
      BY <2>3 DEF IInv, HoldsSession, FinalizePrevious, FinalizeEvicted
    <3> QED BY <3>1, LogCloses DEF IInv
  <2>4. CASE Destroy(r)
    BY <2>4, LogCloses DEF IInv, Destroy
  <2>5. CASE Write(r)
    BY <2>5, LogGrows
  <2> QED BY <1>1, <2>1, <2>2, <2>3, <2>4, <2>5 DEF Worker
<1>2. ASSUME NEW g \in Readers, Get(g) \/ CheckOffset(g) \/ read_from(g) \/ ReaderLeaves(g)
      PROVE  [Log!Next]_(Log!vars)
  <2>1. CASE CheckOffset(g) \/ ReaderLeaves(g)
    BY <2>1, LogStutters DEF CheckOffset, ReaderLeaves
  <2> QED BY <1>2, <2>1, LogAttaches, LogDelivers
<1>3. ASSUME NEW d \in Deleters, Evict(d) \/ CancelVictim(d) \/ FinalizeVictim(d)
      PROVE  [Log!Next]_(Log!vars)
  <2>1. CASE Evict(d) \/ CancelVictim(d)
    BY <2>1, LogStutters DEF Evict, CancelVictim, cancel
  <2>2. CASE FinalizeVictim(d)
    <3>1. victim[d] \in Requests /\ finalize(victim[d]) /\ UNCHANGED replay
      BY <2>2 DEF IInv, HoldsSession, FinalizeVictim
    <3> QED BY <3>1, LogCloses DEF IInv
  <2> QED BY <1>3, <2>1, <2>2
<1>4. CASE Collect \/ StopGC
  BY <1>4, LogStutters DEF Collect, StopGC
<1>5. ASSUME NEW s \in Requests, FinalizeLive(s) PROVE [Log!Next]_(Log!vars)
  BY <1>5, LogCloses DEF IInv, FinalizeLive
<1>6. CASE UNCHANGED vars
  BY <1>6, LogStutters DEF vars
<1> QED BY <1>1, <1>2, <1>3, <1>4, <1>5, <1>6 DEF Next

(* The sessions implement append-only logs: whatever is dropped at the cap,*)
(* replaced, evicted, collected or shut down, a reader only ever receives  *)
(* the next bytes of the one output it attached to, and nothing is added   *)
(* after finalize().                                                       *)
THEOREM StreamImplementsLog == Spec => IsLog
<1>1. Init => Log!Init
  BY DEF Init, Log!Init
<1>2. Spec => Log!Init /\ [][Log!Next]_(Log!vars)
  BY <1>1, StreamInvariant, LogStep, PTL DEF Spec
<1> QED BY <1>2 DEF IsLog, Log!Spec

=============================================================================
