------------------------- MODULE ServerQueueProofs -------------------------
(***************************************************************************)
(* Machine-checked facts about ServerQueue, for any finite sets of clients *)
(* and slots, any number of decodes and any sleeps and terminations: the   *)
(* type invariant, who may have declined tasks and results aside           *)
(* (WorkerOnlyInYield, ResultsHaveReader), and that no task of a client    *)
(* that waits is ever lost or duplicated (NothingLost).                    *)
(***************************************************************************)
EXTENDS ServerQueue, QueueLemmas

MainLabels == {"process", "handle", "update", "yield", "work", "join", "after", "wait",
               "asleep", "joinworker", "exit"}
WorkerLabels == {"park", "process", "handle", "check", "blocked", "finish", "exit"}
ClientLabels == {"start", "nosleep", "ready", "post", "posted", "done", "stopping",
                 "leaving", "gone"}

(* The tasks that can be about: one per client, a cancel task only for a   *)
(* client that is gone, and NEXT_RESPONSE.  Only completions are deferred. *)
Gone  == {c \in Clients : cpc[c] = "gone"}
Jobs  == {Own(c) : c \in Runners}
Known == {Own(c) : c \in Clients} \cup {Task("cancel", c) : c \in Gone} \cup {NextResponse}

QueueTypes ==
    /\ queue \in Seq(Known) /\ unhandled \in Seq(Known) /\ deferred \in Seq(Jobs)
    /\ mtask \in Known \cup {NoTask} /\ wtask \in Known \cup {NoTask}

StateTypes ==
    /\ running \in BOOLEAN /\ sleeping \in BOOLEAN /\ req_stop_sleeping \in BOOLEAN
    /\ stop \in BOOLEAN /\ busy \in BOOLEAN /\ yielding \in BOOLEAN
    /\ slot \in [Slots -> {Idle} \cup [id : Runners, left : 1 .. NDecode]]
    /\ mpc \in MainLabels /\ wpc \in WorkerLabels /\ cpc \in [Clients -> ClientLabels]
    /\ notified \subseteq Blocked /\ sleeps \in 0 .. MaxSleeps

(* Who is where: a thread has a task in its hand exactly while it handles  *)
(* it, the worker is at work only in the yield that woke it, and stop ends *)
(* both.                                                                   *)
Control ==
    /\ mpc = "handle" <=> mtask # NoTask
    /\ wpc = "handle" <=> wtask # NoTask
    /\ wpc \notin {"park", "exit"} => busy
    /\ busy \/ unhandled # <<>> => mpc \in {"work", "join"}
    /\ stop => mpc \in {"joinworker", "exit"}

(* A client that has posted, or is about to, is registered.                *)
Registered ==
    /\ waiting \subseteq Clients /\ results \subseteq Clients /\ ResultsHaveReader
    /\ \A c \in Clients : cpc[c] \in {"post", "posted"} => c \in waiting

(* How many places hold the task of a client, by where the client is.      *)
Accounted ==
    \A c \in Clients :
        /\ Copies(c) <= 1
        /\ cpc[c] \in {"start", "nosleep", "ready", "post"} => Copies(c) = 0
        /\ cpc[c] = "posted" => Copies(c) = 1

(* The inductive invariant.                                                *)
Basis == QueueTypes /\ StateTypes /\ Control /\ Registered
IInv  == Basis /\ Accounted

-----------------------------------------------------------------------------
(* How often a task occurs in a queue, and what the deque operations do    *)
(* to that.                                                                *)

Occurs(q, t) == {i \in DOMAIN q : q[i] = t}

(* A queue is finite.                                                      *)
LEMMA TimesType ==
    ASSUME NEW S, NEW q \in Seq(S), NEW t
    PROVE  /\ IsFiniteSet(Occurs(q, t)) /\ Times(q, t) = Cardinality(Occurs(q, t))
           /\ Times(q, t) \in Nat
<1>1. DOMAIN q = 1 .. Len(q) /\ Len(q) \in Nat
  OBVIOUS
<1>2. IsFiniteSet(1 .. Len(q)) /\ Occurs(q, t) \in SUBSET (1 .. Len(q))
  BY <1>1, FS_Interval DEF Occurs
<1>3. IsFiniteSet(Occurs(q, t))
  BY <1>2, FS_Subset
<1> QED BY <1>3, FS_CardinalityType DEF Times, Occurs

(* Nothing occurs in an empty queue, and one thing in a queue of one.      *)
LEMMA TimesSmall ==
    /\ \A t : Times(<<>>, t) = 0
    /\ \A e, t : Times(<<e>>, t) = One(e = t)
<1>1. ASSUME NEW t PROVE Times(<<>>, t) = 0
  <2>1. {i \in DOMAIN <<>> : <<>>[i] = t} = {}
    OBVIOUS
  <2> QED BY <2>1, FS_EmptySet DEF Times
<1>2. ASSUME NEW e, NEW t PROVE Times(<<e>>, t) = One(e = t)
  <2>1. DOMAIN <<e>> = {1} /\ <<e>>[1] = e
    OBVIOUS
  <2>2. CASE e = t
    <3>1. {i \in DOMAIN <<e>> : <<e>>[i] = t} = {1}
      BY <2>1, <2>2
    <3> QED BY <2>2, <3>1, FS_Singleton DEF Times, One
  <2>3. CASE e # t
    <3>1. {i \in DOMAIN <<e>> : <<e>>[i] = t} = {}
      BY <2>1, <2>3
    <3> QED BY <2>3, <3>1, FS_EmptySet DEF Times, One
  <2> QED BY <2>2, <2>3
<1> QED BY <1>1, <1>2

(* A set of positions moved up is as large.                                *)
LEMMA ShiftedSet ==
    ASSUME NEW A \in SUBSET Nat, IsFiniteSet(A), NEW n \in Nat
    PROVE  /\ IsFiniteSet({i + n : i \in A})
           /\ Cardinality({i + n : i \in A}) = Cardinality(A)
<1> DEFINE B == {i + n : i \in A}
           f == [i \in A |-> i + n]
<1>1. f \in [A -> B] /\ (\A a, b \in A : f[a] = f[b] => a = b) /\ \A y \in B : \E a \in A : f[a] = y
  OBVIOUS
<1> HIDE DEF f, B
<1>2. f \in Bijection(A, B)
  BY <1>1 DEF Bijection, Injection, Surjection, IsInjective
<1>3. ExistsBijection(A, B)
  BY <1>2 DEF ExistsBijection
<1>4. IsFiniteSet(B) /\ Cardinality(B) = Cardinality(A)
  BY <1>3, FS_Bijection
<1> QED BY <1>4 DEF B

(* Of two queues put together.                                             *)
LEMMA TimesConcat ==
    ASSUME NEW S, NEW p \in Seq(S), NEW q \in Seq(S), NEW t
    PROVE  p \o q \in Seq(S) /\ Times(p \o q, t) = Times(p, t) + Times(q, t)
<1> DEFINE n == Len(p)
           B == {i + n : i \in Occurs(q, t)}
<1>1. /\ n \in Nat /\ Len(q) \in Nat /\ DOMAIN p = 1 .. n /\ DOMAIN q = 1 .. Len(q)
      /\ p \o q \in Seq(S) /\ Len(p \o q) = n + Len(q)
      /\ \A i \in 1 .. n + Len(q) : (p \o q)[i] = IF i <= n THEN p[i] ELSE q[i - n]
  BY ConcatProperties
<1>2. DOMAIN (p \o q) = 1 .. n + Len(q)
  BY <1>1, LenProperties
<1> HIDE DEF n
<1>3. Occurs(p \o q, t) = Occurs(p, t) \cup B
  <2>1. ASSUME NEW i \in Occurs(p \o q, t) PROVE i \in Occurs(p, t) \cup B
    <3>1. i \in 1 .. n + Len(q) /\ (p \o q)[i] = t
      BY <1>2 DEF Occurs
    <3>2. CASE i <= n
      BY <1>1, <3>1, <3>2 DEF Occurs
    <3>3. CASE ~(i <= n)
      <4>1. i - n \in 1 .. Len(q) /\ q[i - n] = t /\ i = (i - n) + n
        BY <1>1, <3>1, <3>3
      <4>2. i - n \in Occurs(q, t)
        BY <1>1, <4>1 DEF Occurs
      <4> QED BY <4>1, <4>2
    <3> QED BY <3>2, <3>3
  <2>2. ASSUME NEW i \in Occurs(p, t) PROVE i \in Occurs(p \o q, t)
    BY <1>1, <1>2 DEF Occurs
  <2>3. ASSUME NEW j \in Occurs(q, t) PROVE j + n \in Occurs(p \o q, t)
    <3>1. j \in 1 .. Len(q) /\ q[j] = t
      BY <1>1 DEF Occurs
    <3>2. j + n \in 1 .. n + Len(q) /\ ~(j + n <= n) /\ (j + n) - n = j
      BY <1>1, <3>1
    <3>3. (p \o q)[j + n] = t
      BY <1>1, <3>1, <3>2
    <3> QED BY <1>2, <3>2, <3>3 DEF Occurs
  <2> QED BY <2>1, <2>2, <2>3
<1>4. Occurs(p, t) \cap B = {}
  BY <1>1 DEF Occurs
<1>5. Occurs(q, t) \in SUBSET Nat
  BY <1>1 DEF Occurs
<1>6. /\ IsFiniteSet(Occurs(p, t)) /\ IsFiniteSet(Occurs(q, t))
      /\ Times(p, t) = Cardinality(Occurs(p, t)) /\ Times(q, t) = Cardinality(Occurs(q, t))
      /\ Times(p, t) \in Nat /\ Times(q, t) \in Nat
      /\ Times(p \o q, t) = Cardinality(Occurs(p \o q, t))
  BY <1>1, TimesType
<1>7. IsFiniteSet(B) /\ Cardinality(B) = Times(q, t)
  BY <1>1, <1>5, <1>6, ShiftedSet
<1> HIDE DEF B
<1>8. Cardinality(Occurs(p, t) \cup B) =
          Cardinality(Occurs(p, t)) + Cardinality(B) - Cardinality(Occurs(p, t) \cap B)
  BY <1>6, <1>7, FS_Union
<1>9. Cardinality(Occurs(p, t) \cap B) = 0
  BY <1>4, FS_EmptySet
<1> QED BY <1>1, <1>3, <1>6, <1>7, <1>8, <1>9

(* push_front, push_back and pop_front.                                    *)
LEMMA TimesPush ==
    ASSUME NEW S, NEW q \in Seq(S), NEW e \in S, NEW t
    PROVE  /\ <<e>> \o q \in Seq(S) /\ Times(<<e>> \o q, t) = Times(q, t) + One(e = t)
           /\ Append(q, e) \in Seq(S) /\ Times(Append(q, e), t) = Times(q, t) + One(e = t)
<1> DEFINE p == <<e>>
<1>1. p \in Seq(S) /\ Times(p, t) = One(e = t)
  BY TimesSmall
<1>2. Times(q, t) \in Nat /\ One(e = t) \in Nat
  BY TimesType DEF One
<1>3. Append(q, e) = q \o p
  BY AppendIsConcat
<1> HIDE DEF p
<1>4. p \o q \in Seq(S) /\ Times(p \o q, t) = Times(p, t) + Times(q, t)
  BY <1>1, TimesConcat
<1>5. q \o p \in Seq(S) /\ Times(q \o p, t) = Times(q, t) + Times(p, t)
  BY <1>1, TimesConcat
<1>6. /\ p \o q \in Seq(S) /\ Times(p \o q, t) = Times(q, t) + One(e = t)
      /\ Append(q, e) \in Seq(S) /\ Times(Append(q, e), t) = Times(q, t) + One(e = t)
  BY <1>1, <1>2, <1>3, <1>4, <1>5
<1> QED BY <1>6 DEF p

(* erase: one task leaves.                                                 *)
LEMMA TimesErase ==
    ASSUME NEW S, NEW q \in Seq(S), NEW i \in 1 .. Len(q), NEW t
    PROVE  /\ RemoveAt(q, i) \in Seq(S) /\ q[i] \in S
           /\ Times(q, t) = Times(RemoveAt(q, i), t) + One(q[i] = t)
<1> DEFINE a == SubSeq(q, 1, i - 1)
           b == SubSeq(q, i + 1, Len(q))
           c == SubSeq(q, 1, i)
           w == <<q[i]>>
<1>1. Len(q) \in Nat /\ (\A k \in 1 .. Len(q) : q[k] \in S) /\ i \in Nat
  OBVIOUS
<1>2. a \in Seq(S) /\ b \in Seq(S)
  <2>1. (\A k \in 1 .. i - 1 : q[k] \in S) /\ \A k \in i + 1 .. Len(q) : q[k] \in S
    BY <1>1
  <2> QED BY <1>1, <2>1, SubSeqProperties
<1>3. c = a \o w
  <2>1. 1 \in 1 .. Len(q) /\ i \in 1 .. Len(q)
    BY <1>1
  <2> QED BY <2>1, SubSeqRecursiveSecond
<1>4. c \o b = q
  <2>1. 1 \in 1 .. Len(q) + 1 /\ i \in 1 - 1 .. Len(q) /\ Len(q) \in i .. Len(q)
    BY <1>1
  <2>2. c \o b = SubSeq(q, 1, Len(q))
    BY <2>1, ConcatAdjacentSubSeq
  <2> QED BY <2>2, SubSeqFull
<1>5. w \in Seq(S) /\ Times(w, t) = One(q[i] = t) /\ One(q[i] = t) \in Nat
  BY <1>1, TimesSmall DEF One
<1> HIDE DEF a, b, c, w
<1>6. c \in Seq(S) /\ Times(c, t) = Times(a, t) + Times(w, t)
  <2>1. a \o w \in Seq(S) /\ Times(a \o w, t) = Times(a, t) + Times(w, t)
    BY <1>2, <1>5, TimesConcat
  <2> QED BY <1>3, <2>1
<1>7. Times(q, t) = Times(c, t) + Times(b, t)
  <2>1. Times(c \o b, t) = Times(c, t) + Times(b, t)
    BY <1>2, <1>6, TimesConcat
  <2> QED BY <1>4, <2>1
<1>8. a \o b \in Seq(S) /\ Times(a \o b, t) = Times(a, t) + Times(b, t)
  BY <1>2, TimesConcat
<1>9. Times(a, t) \in Nat /\ Times(b, t) \in Nat
  BY <1>2, TimesType
<1>10. RemoveAt(q, i) = a \o b
  BY DEF RemoveAt, a, b
<1> QED BY <1>1, <1>5, <1>6, <1>7, <1>8, <1>9, <1>10

(* pop_front: the first task leaves.                                       *)
LEMMA TimesPop ==
    ASSUME NEW S, NEW q \in Seq(S), q # <<>>, NEW t
    PROVE  /\ Head(q) \in S /\ Tail(q) \in Seq(S)
           /\ Times(q, t) = Times(Tail(q), t) + One(Head(q) = t)
<1>1. Head(q) \in S /\ Tail(q) \in Seq(S) /\ Head(q) = q[1]
  BY HeadTailProperties
<1>2. q = <<Head(q)>> \o Tail(q)
  <2>1. 1 \in 1 .. Len(q) /\ Len(q) \in 1 .. Len(q)
    OBVIOUS
  <2>2. SubSeq(q, 1, Len(q)) = <<q[1]>> \o SubSeq(q, 1 + 1, Len(q))
    BY <2>1, SubSeqRecursiveFirst
  <2> QED BY <1>1, <2>2, SubSeqFull, TailIsSubSeq
<1> DEFINE h == Head(q)
           r == Tail(q)
<1>3. h \in S /\ r \in Seq(S) /\ q = <<h>> \o r
  BY <1>1, <1>2
<1> HIDE DEF h, r
<1>4. Times(<<h>> \o r, t) = Times(r, t) + One(h = t)
  BY <1>3, TimesPush
<1>5. Times(q, t) = Times(r, t) + One(h = t)
  BY <1>3, <1>4
<1> QED BY <1>1, <1>5 DEF h, r

(* remove_if and erase: every t leaves, all else stays.                    *)
LEMMA TimesErased ==
    ASSUME NEW S, NEW q \in Seq(S), NEW t
    PROVE  /\ erased(q, t) \in Seq(S) /\ Times(erased(q, t), t) = 0
           /\ \A u : u # t => Times(erased(q, t), u) = Times(q, u)
<1> DEFINE kept == {i \in DOMAIN q : q[i] # t}
           N == Cardinality(kept)
           upto(i) == {j \in kept : j <= i}
           rank == [i \in kept |-> Cardinality(upto(i))]
           nth(k) == CHOOSE i \in kept : Cardinality(upto(i)) = k
           e == erased(q, t)
<1>1. DOMAIN q = 1 .. Len(q) /\ Len(q) \in Nat /\ \A i \in 1 .. Len(q) : q[i] \in S
  OBVIOUS
<1>2. kept \in SUBSET (1 .. Len(q)) /\ IsFiniteSet(1 .. Len(q))
  BY <1>1, FS_Interval
<1>3. IsFiniteSet(kept) /\ N \in Nat
  BY <1>2, FS_Subset, FS_CardinalityType
<1>4. e = [k \in 1 .. N |-> q[nth(k)]]
  BY DEF erased
<1>5. \A i \in kept : i \in Nat /\ q[i] \in S /\ q[i] # t
  BY <1>1, <1>2
<1>6. \A i : i \in DOMAIN q /\ q[i] # t => i \in kept
  OBVIOUS
<1> HIDE DEF kept, N, e
<1>7. ASSUME NEW i \in kept
      PROVE  /\ IsFiniteSet(upto(i)) /\ Cardinality(upto(i)) \in 1 .. N
  <2>1. upto(i) \in SUBSET kept /\ i \in upto(i)
    BY <1>5
  <2>2. IsFiniteSet(upto(i)) /\ Cardinality(upto(i)) <= N /\ Cardinality(upto(i)) \in Nat
    BY <1>3, <2>1, FS_Subset, FS_CardinalityType DEF N
  <2>3. Cardinality(upto(i)) # 0
    BY <2>1, <2>2, FS_EmptySet
  <2> QED BY <1>3, <2>2, <2>3
<1>8. ASSUME NEW i \in kept, NEW j \in kept, i < j
      PROVE  Cardinality(upto(i)) # Cardinality(upto(j))
  <2>1. i \in Nat /\ j \in Nat
    BY <1>5
  <2>2. upto(i) \in SUBSET upto(j)
    <3>1. \A k \in kept : k <= i => k <= j
      BY <1>5, <1>8, <2>1
    <3> QED BY <3>1
  <2>3. j \in upto(j) /\ j \notin upto(i)
    BY <1>8, <2>1
  <2>4. IsFiniteSet(upto(j))
    BY <1>7
  <2> QED BY <2>2, <2>3, <2>4, FS_Subset
<1>9. rank \in Injection(kept, 1 .. N)
  <2>1. rank \in [kept -> 1 .. N]
    BY <1>7
  <2>2. ASSUME NEW i \in kept, NEW j \in kept, rank[i] = rank[j] PROVE i = j
    <3>1. Cardinality(upto(i)) = Cardinality(upto(j))
      BY <2>2
    <3>2. ~(i < j) /\ ~(j < i)
      BY <1>8, <3>1
    <3> QED BY <1>5, <3>2
  <2> HIDE DEF rank
  <2> QED BY <2>1, <2>2 DEF Injection, IsInjective
<1>10. \A k \in 1 .. N : \E i \in kept : Cardinality(upto(i)) = k
  <2>1. IsFiniteSet(1 .. N) /\ Cardinality(1 .. N) = N
    BY <1>3, FS_Interval
  <2>2. rank \in Surjection(kept, 1 .. N)
    <3> HIDE DEF rank
    <3> QED BY <1>9, <2>1, FS_Injection DEF N
  <2>3. \A k \in 1 .. N : \E i \in kept : rank[i] = k
    <3> HIDE DEF rank
    <3> QED BY <2>2 DEF Surjection
  <2> QED BY <2>3
<1>11. \A k \in 1 .. N : nth(k) \in kept /\ Cardinality(upto(nth(k))) = k
  BY <1>10
<1>12. ASSUME NEW i \in kept PROVE \E k \in 1 .. N : nth(k) = i
  <2> DEFINE k == Cardinality(upto(i))
  <2>1. k \in 1 .. N
    BY <1>7
  <2>2. nth(k) \in kept /\ Cardinality(upto(nth(k))) = Cardinality(upto(i))
    BY <1>11, <2>1
  <2> HIDE DEF nth
  <2>3. ~(nth(k) < i) /\ ~(i < nth(k)) /\ nth(k) \in Nat /\ i \in Nat
    BY <1>5, <1>8, <2>2
  <2> QED BY <2>1, <2>3
<1> HIDE DEF upto, nth
<1>13. e \in [1 .. N -> S]
  BY <1>4, <1>5, <1>11
<1>14. e \in Seq(S) /\ DOMAIN e = 1 .. N
  BY <1>3, <1>13, SeqDef
<1>15. Times(e, t) = 0
  <2>1. Occurs(e, t) = {}
    BY <1>4, <1>5, <1>11, <1>14 DEF Occurs
  <2> QED BY <1>14, <2>1, TimesType, FS_EmptySet
<1>16. ASSUME NEW u, u # t PROVE Times(e, u) = Times(q, u)
  <2> DEFINE A == Occurs(e, u)
             B == Occurs(q, u)
             f == [k \in A |-> nth(k)]
  <2>1. \A k \in A : k \in 1 .. N /\ q[nth(k)] = u /\ nth(k) \in kept
    BY <1>4, <1>11, <1>14 DEF Occurs
  <2>2. \A i \in kept : i \in DOMAIN q
    BY <1>1, <1>2
  <2>3. f \in [A -> B]
    BY <2>1, <2>2 DEF Occurs
  <2>4. ASSUME NEW k \in A, NEW l \in A, f[k] = f[l] PROVE k = l
    BY <1>11, <2>1, <2>4
  <2>5. ASSUME NEW i \in B PROVE \E k \in A : f[k] = i
    <3>1. i \in kept /\ q[i] = u
      BY <1>6, <1>16 DEF Occurs
    <3>2. PICK k \in 1 .. N : nth(k) = i
      BY <1>12, <3>1
    <3>3. k \in A
      BY <1>4, <1>14, <3>1, <3>2 DEF Occurs
    <3> QED BY <3>2, <3>3
  <2> HIDE DEF f
  <2>6. f \in Bijection(A, B)
    BY <2>3, <2>4, <2>5 DEF Bijection, Injection, Surjection, IsInjective
  <2>7. ExistsBijection(A, B)
    BY <2>6 DEF ExistsBijection
  <2>8. /\ IsFiniteSet(A) /\ Times(e, u) = Cardinality(A) /\ Times(q, u) = Cardinality(B)
    BY <1>14, TimesType
  <2>9. Cardinality(B) = Cardinality(A)
    BY <2>7, <2>8, FS_Bijection
  <2> QED BY <2>8, <2>9
<1> QED BY <1>14, <1>15, <1>16 DEF e

-----------------------------------------------------------------------------
(* Tasks.                                                                  *)

(* Tasks of different clients or kinds differ, and NoTask is none.         *)
LEMMA TaskFacts ==
    ASSUME NEW c \in Clients
    PROVE  /\ Own(c).id = c /\ Own(c) # NoTask /\ Own(c) # NextResponse
           /\ \A d \in Clients : (Own(c) = Own(d) <=> c = d) /\ Own(c) # Task("cancel", d)
           /\ c \in Runners => Own(c) = Task("run", c)
           /\ c \notin Runners => Own(c) = Task("info", c) /\ c \in Pollers
           /\ Task("cancel", c) # NoTask /\ NextResponse # NoTask
<1>1. /\ Own(c).id = c /\ Own(c) # NextResponse
      /\ \A d \in Clients : (Own(c) = Own(d) <=> c = d) /\ Own(c) # Task("cancel", d)
      /\ c \in Runners => Own(c) = Task("run", c)
      /\ c \notin Runners => Own(c) = Task("info", c) /\ c \in Pollers
  BY DEF Own, Task, NextResponse, Clients
<1>2. Own(c) # NoTask /\ Task("cancel", c) # NoTask /\ NextResponse # NoTask
  BY QueueAssumption DEF Own, Task, NextResponse
<1> QED BY <1>1, <1>2

(* What the kind of a task says of it.                                     *)
LEMMA KnownKinds ==
    ASSUME NEW t \in Known
    PROVE  /\ t # NoTask /\ t \in Tasks
           /\ t.kind = "run" => t.id \in Runners /\ t = Own(t.id)
           /\ t.kind = "info" => t.id \in Pollers /\ t.id \notin Runners /\ t = Own(t.id)
           /\ t.kind = "cancel" => t.id \in Gone /\ t = Task("cancel", t.id)
           /\ t.kind = "next" => t = NextResponse
           /\ t.kind \in {"run", "info", "cancel", "next"}
<1>1. CASE \E c \in Clients : t = Own(c)
  <2>1. PICK c \in Clients : t = Own(c)
    BY <1>1
  <2>2. CASE c \in Runners
    <3>1. t = [kind |-> "run", id |-> c]
      BY <2>1, <2>2 DEF Own, Task
    <3>2. t.kind = "run" /\ t.id = c /\ t \in Tasks
      BY <3>1 DEF Tasks
    <3>3. t # NoTask
      BY <2>1, TaskFacts
    <3> QED BY <2>1, <2>2, <3>2, <3>3
  <2>3. CASE c \notin Runners
    <3>1. t = [kind |-> "info", id |-> c] /\ c \in Pollers
      BY <2>1, <2>3 DEF Own, Task, Clients
    <3>2. t.kind = "info" /\ t.id = c /\ t \in Tasks
      BY <3>1 DEF Tasks
    <3>3. t # NoTask
      BY <2>1, TaskFacts
    <3> QED BY <2>1, <2>3, <3>1, <3>2, <3>3
  <2> QED BY <2>2, <2>3
<1>2. CASE \E c \in Gone : t = Task("cancel", c)
  <2>1. PICK c \in Gone : t = [kind |-> "cancel", id |-> c]
    BY <1>2 DEF Task
  <2>2. c \in Clients
    BY DEF Gone
  <2> QED BY <2>1, <2>2, TaskFacts DEF Tasks, Task
<1>3. CASE t = NextResponse
  <2>1. t = [kind |-> "next", id |-> NoTask]
    BY <1>3 DEF NextResponse, Task
  <2> QED BY <1>3, <2>1, QueueAssumption DEF Tasks, NextResponse, Task
<1> QED BY <1>1, <1>2, <1>3 DEF Known

(* Deferred tasks are tasks; what is known stays known as clients go.      *)
LEMMA KnownGrows ==
    ASSUME Gone \subseteq Gone'
    PROVE  /\ Jobs \subseteq Known /\ Known \subseteq Known'
           /\ Seq(Jobs) \subseteq Seq(Known) /\ Seq(Known) \subseteq Seq(Known')
<1>1. Jobs \subseteq Known /\ Known \subseteq Known'
  BY DEF Jobs, Known, Clients
<1> QED BY <1>1, SeqMonotonic

(* Gone is for ever.                                                       *)
LEMMA GoneStays ==
    ASSUME StateTypes, NEW c \in Clients, NEW l, cpc' = [cpc EXCEPT ![c] = l], cpc[c] # "gone"
    PROVE  Gone \subseteq Gone'
  BY DEF StateTypes, Gone

-----------------------------------------------------------------------------
(* What keeps each part of the invariant.                                  *)

(* The queues and the threads' hands are left alone.                       *)
LEMMA QueuesKept ==
    ASSUME QueueTypes, Gone \subseteq Gone', UNCHANGED <<queue, deferred, unhandled, mtask, wtask>>
    PROVE  QueueTypes'
<1>1. Known \subseteq Known' /\ Seq(Known) \subseteq Seq(Known')
  BY KnownGrows
<1> HIDE DEF Known
<1> QED BY <1>1 DEF QueueTypes, Jobs

(* A wake-up goes to blocked threads only.                                 *)
LEMMA Notifies ==
    ASSUME notified \subseteq Blocked, notify_one \/ notify_all
    PROVE  notified' \subseteq Blocked
  BY DEF notify_one, notify_all

(* The terms of Copies are natural numbers.                                *)
LEMMA CopiesTerms ==
    ASSUME QueueTypes, StateTypes, NEW c \in Clients
    PROVE  /\ Times(queue, Own(c)) \in Nat /\ Times(deferred, Own(c)) \in Nat
           /\ Times(unhandled, Own(c)) \in Nat
           /\ IsFiniteSet(SlotsOf(c)) /\ Cardinality(SlotsOf(c)) \in Nat
           /\ Copies(c) \in Nat
<1>1. /\ Times(queue, Own(c)) \in Nat /\ Times(deferred, Own(c)) \in Nat
      /\ Times(unhandled, Own(c)) \in Nat
  BY TimesType DEF QueueTypes
<1>2. SlotsOf(c) \in SUBSET Slots
  BY DEF SlotsOf
<1>3. IsFiniteSet(SlotsOf(c)) /\ Cardinality(SlotsOf(c)) \in Nat
  BY <1>2, QueueAssumption, FS_Subset, FS_CardinalityType
<1>4. One(mtask = Own(c)) \in Nat /\ One(wtask = Own(c)) \in Nat /\ One(c \in results) \in Nat
  BY DEF One
<1> QED BY <1>1, <1>3, <1>4 DEF Copies

(* A step that keeps the places of every task and moves no client.         *)
LEMMA AccountedKept ==
    ASSUME IInv, UNCHANGED cpc, \A c \in Clients : Copies(c)' = Copies(c)
    PROVE  Accounted'
  BY DEF IInv, Accounted

(* The places of a client's task do not change.                            *)
LEMMA CopiesKept ==
    ASSUME UNCHANGED <<queue, deferred, unhandled, mtask, wtask, slot>>, NEW c \in Clients,
           c \in results' <=> c \in results
    PROVE  Copies(c)' = Copies(c)
  BY DEF Copies, Times, One, SlotsOf

-----------------------------------------------------------------------------
(* HTTP threads.                                                           *)

(* A client moves on without touching the queues.                          *)
LEMMA ClientMoves ==
    ASSUME IInv, NEW c \in Clients, NEW l \in ClientLabels, cpc' = [cpc EXCEPT ![c] = l],
           cpc[c] # "gone", l # "posted",
           l \in {"start", "nosleep", "ready", "post"} =>
               cpc[c] \in {"start", "nosleep", "ready", "post"},
           UNCHANGED <<queues, running, sleeping, sleeps, worker, slot, main, helper>>,
           req_stop_sleeping' \in BOOLEAN, notified' \subseteq Blocked', Registered',
           results' \subseteq results, \A d \in Clients : d # c /\ d \in results => d \in results'
    PROVE  IInv'
<1>1. /\ UNCHANGED <<queue, deferred, unhandled, mtask, wtask, mpc, wpc, stop, busy, yielding>>
      /\ UNCHANGED <<running, sleeping, sleeps, slot>>
  BY DEF queues, worker, main, helper
<1>2. QueueTypes'
  <2>1. Gone \subseteq Gone'
    BY GoneStays DEF IInv, Basis
  <2> QED BY <1>1, <2>1, QueuesKept DEF IInv, Basis
<1>3. StateTypes'
  BY <1>1 DEF IInv, Basis, StateTypes
<1>4. Control'
  BY <1>1 DEF IInv, Basis, Control
<1>5. Accounted'
  <2> SUFFICES ASSUME NEW d \in Clients
               PROVE  /\ Copies(d)' <= 1
                      /\ cpc'[d] \in {"start", "nosleep", "ready", "post"} => Copies(d)' = 0
                      /\ cpc'[d] = "posted" => Copies(d)' = 1
    BY DEF Accounted
  <2>1. /\ Copies(d) <= 1
        /\ cpc[d] \in {"start", "nosleep", "ready", "post"} => Copies(d) = 0
        /\ cpc[d] = "posted" => Copies(d) = 1
    BY DEF IInv, Accounted
  <2>2. CASE d # c
    <3>1. cpc'[d] = cpc[d]
      BY <2>2 DEF IInv, Basis, StateTypes
    <3>2. Copies(d)' = Copies(d)
      BY <1>1, <2>2, CopiesKept
    <3> QED BY <2>1, <3>1, <3>2
  <2>3. CASE d = c
    <3>1. cpc'[d] = l
      BY <2>3 DEF IInv, Basis, StateTypes
    <3>2. Copies(d) \in Nat
      BY CopiesTerms DEF IInv, Basis
    <3>3. Copies(d)' \in Nat /\ Copies(d)' <= Copies(d)
      <4>1. /\ Copies(d)' \in Nat
            /\ Copies(d)' = Copies(d) - One(d \in results) + One(d \in results')
        <5>1. /\ Times(queue, Own(d))' = Times(queue, Own(d))
              /\ Times(deferred, Own(d))' = Times(deferred, Own(d))
              /\ Times(unhandled, Own(d))' = Times(unhandled, Own(d))
              /\ SlotsOf(d)' = SlotsOf(d)
              /\ One(mtask = Own(d))' = One(mtask = Own(d))
              /\ One(wtask = Own(d))' = One(wtask = Own(d))
          BY <1>1 DEF Times, SlotsOf, One
        <5>2. /\ Times(queue, Own(d)) \in Nat /\ Times(deferred, Own(d)) \in Nat
              /\ Times(unhandled, Own(d)) \in Nat /\ Cardinality(SlotsOf(d)) \in Nat
              /\ One(mtask = Own(d)) \in Nat /\ One(wtask = Own(d)) \in Nat
              /\ One(d \in results) \in Nat /\ One(d \in results') \in Nat
          BY CopiesTerms DEF IInv, Basis, One
        <5> QED BY <5>1, <5>2 DEF Copies
      <4>2. One(d \in results') <= One(d \in results) /\ One(d \in results') \in Nat
            /\ One(d \in results) \in Nat
        BY DEF One
      <4> QED BY <3>2, <4>1, <4>2
    <3> QED BY <2>1, <2>3, <3>1, <3>2, <3>3
  <2> QED BY <2>2, <2>3
<1> QED BY <1>2, <1>3, <1>4, <1>5 DEF IInv, Basis

(* Everything a client does before it posts and after it gives up.         *)
LEMMA ClientStep ==
    ASSUME IInv, NEW c \in Clients,
           \/ WaitUntilNoSleep(c) \/ NoSleepWakes(c) \/ Poll(c) \/ AddWaiting(c) \/ Recv(c)
           \/ GiveUp(c) \/ Leave(c) \/ remove_waiting_task_id(c)
    PROVE  IInv'
<1> DEFINE early == {"start", "nosleep", "ready", "post"}
<1>1. PICK l \in ClientLabels :
        /\ cpc' = [cpc EXCEPT ![c] = l] /\ cpc[c] # "gone" /\ l # "posted"
        /\ l \in early => cpc[c] \in early
        /\ UNCHANGED <<queues, running, sleeping, sleeps, worker, slot, main, helper>>
  <2>1. CASE WaitUntilNoSleep(c)
    BY <2>1 DEF WaitUntilNoSleep, ClientLabels
  <2>2. CASE NoSleepWakes(c)
    BY <2>2 DEF NoSleepWakes, sleep, ClientLabels
  <2>3. CASE Poll(c)
    BY <2>3 DEF Poll, sleep, ClientLabels
  <2>4. CASE AddWaiting(c)
    BY <2>4 DEF AddWaiting, sleep, ClientLabels
  <2>5. CASE Recv(c)
    BY <2>5 DEF Recv, sleep, ClientLabels
  <2>6. CASE Stop(c)
    BY <2>6 DEF Stop, sleep, ClientLabels
  <2>7. CASE remove_waiting_task_id(c)
    BY <2>7 DEF remove_waiting_task_id, sleep, ClientLabels
  <2> QED BY <2>1, <2>2, <2>3, <2>4, <2>5, <2>6, <2>7 DEF GiveUp, Leave
<1>2. /\ \A d \in Clients : cpc'[d] = IF d = c THEN l ELSE cpc[d]
      /\ mpc' = mpc /\ wpc' = wpc
  BY <1>1 DEF IInv, Basis, StateTypes, main, helper
<1>3. /\ req_stop_sleeping' \in BOOLEAN /\ notified' \subseteq Blocked'
  <2>1. notified \subseteq Blocked /\ req_stop_sleeping \in BOOLEAN
    BY DEF IInv, Basis, StateTypes
  <2>2. CASE WaitUntilNoSleep(c)
    <3>1. cpc[c] = "start" /\ req_stop_sleeping' \in BOOLEAN
      BY <2>1, <2>2 DEF WaitUntilNoSleep
    <3>2. notified' \subseteq Blocked
      BY <2>1, <2>2, Notifies DEF WaitUntilNoSleep
    <3>3. Blocked \subseteq Blocked'
      BY <1>2, <3>1 DEF Blocked
    <3> QED BY <3>1, <3>2, <3>3
  <2>3. CASE NoSleepWakes(c)
    <3>1. notified' = notified \ {c} /\ req_stop_sleeping' = req_stop_sleeping
      BY <2>3 DEF NoSleepWakes, Consume, sleep
    <3>2. Blocked \subseteq Blocked' \cup {c}
      BY <1>2 DEF Blocked
    <3> QED BY <2>1, <3>1, <3>2
  <2>4. CASE Poll(c) \/ AddWaiting(c) \/ Recv(c) \/ Stop(c) \/ remove_waiting_task_id(c)
    <3>1. /\ notified' = notified /\ req_stop_sleeping' = req_stop_sleeping
          /\ cpc[c] # "nosleep"
      BY <2>4 DEF Poll, AddWaiting, Recv, Stop, remove_waiting_task_id, sleep
    <3>2. Blocked \subseteq Blocked'
      BY <1>2, <3>1 DEF Blocked
    <3> QED BY <2>1, <3>1, <3>2
  <2> QED BY <2>2, <2>3, <2>4 DEF GiveUp, Leave
<1>4. /\ Registered' /\ results' \subseteq results
      /\ \A d \in Clients : d # c /\ d \in results => d \in results'
  <2>0. /\ waiting \subseteq Clients /\ results \subseteq Clients
        /\ results \subseteq waiting \cup {d \in Clients : cpc[d] = "stopping"}
        /\ \A d \in Clients : cpc[d] \in {"post", "posted"} => d \in waiting
    BY DEF IInv, Basis, Registered, ResultsHaveReader
  <2>6. cpc'[c] = l /\ \A d \in Clients : d # c => cpc'[d] = cpc[d]
    BY <1>2
  <2>1. CASE WaitUntilNoSleep(c) \/ NoSleepWakes(c) \/ Poll(c)
    <3>1. waiting' = waiting /\ results' = results /\ cpc[c] \in {"start", "nosleep"}
          /\ cpc'[c] \in {"ready", "nosleep", "done"}
      BY <2>1 DEF WaitUntilNoSleep, NoSleepWakes, Poll, response, IInv, Basis, StateTypes
    <3> QED BY <2>0, <2>6, <3>1 DEF Registered, ResultsHaveReader
  <2>2. CASE AddWaiting(c)
    <3>1. /\ waiting' = waiting \cup {c} /\ results' = results /\ cpc[c] = "ready"
          /\ cpc'[c] = "post"
      BY <2>2 DEF AddWaiting, IInv, Basis, StateTypes
    <3> QED BY <2>0, <2>6, <3>1 DEF Registered, ResultsHaveReader
  <2>3. CASE Recv(c)
    <3>1. /\ waiting' = waiting \ {c} /\ results' = results \ {c} /\ cpc[c] = "posted"
          /\ cpc'[c] = "done"
      BY <2>3 DEF Recv, IInv, Basis, StateTypes
    <3> QED BY <2>0, <2>6, <3>1 DEF Registered, ResultsHaveReader
  <2>4. CASE Stop(c)
    <3>1. /\ waiting' = waiting \ {c} /\ results' = results /\ cpc[c] = "posted"
          /\ cpc'[c] = "stopping"
      BY <2>4 DEF Stop, IInv, Basis, StateTypes
    <3> QED BY <2>0, <2>6, <3>1 DEF Registered, ResultsHaveReader
  <2>5. CASE remove_waiting_task_id(c)
    <3>1. /\ waiting' = waiting /\ results' = results \ {c} /\ cpc[c] = "stopping"
          /\ cpc'[c] = "leaving"
      BY <2>5 DEF remove_waiting_task_id, IInv, Basis, StateTypes
    <3> QED BY <2>0, <2>6, <3>1 DEF Registered, ResultsHaveReader
  <2> QED BY <2>1, <2>2, <2>3, <2>4, <2>5 DEF GiveUp, Leave
<1> QED BY <1>1, <1>3, <1>4, ClientMoves

(* post(): the client's task comes into the server.                        *)
LEMMA PostStep ==
    ASSUME IInv, NEW c \in Clients, Post(c)
    PROVE  IInv'
<1>1. /\ cpc[c] = "post" /\ cpc' = [cpc EXCEPT ![c] = "posted"] /\ notify_one
      /\ UNCHANGED <<deferred, unhandled, mtask, wtask, mpc, wpc, stop, busy, yielding>>
      /\ UNCHANGED <<running, sleeping, req_stop_sleeping, sleeps, slot, waiting, results>>
      /\ queue' = <<Own(c)>> \o queue \/ queue' = Append(queue, Own(c))
  BY DEF Post, worker, sleep, response, main, helper
<1>2. \A d \in Clients : cpc'[d] = IF d = c THEN "posted" ELSE cpc[d]
  BY <1>1 DEF IInv, Basis, StateTypes
<1>3. Gone' = Gone /\ Own(c) \in Known
  BY <1>1, <1>2 DEF Gone, Known
<1>4. Known' = Known
  BY <1>3 DEF Known
<1>5. /\ queue' \in Seq(Known)
      /\ \A d \in Clients : Times(queue', Own(d)) = Times(queue, Own(d)) + One(Own(c) = Own(d))
  <2>1. queue \in Seq(Known)
    BY DEF IInv, Basis, QueueTypes
  <2> DEFINE K == Known
             o == Own(c)
  <2>2. queue \in Seq(K) /\ o \in K /\ (queue' = <<o>> \o queue \/ queue' = Append(queue, o))
    BY <1>1, <1>3, <2>1
  <2> HIDE DEF K, o
  <2>3. ASSUME NEW t PROVE queue' \in Seq(K) /\ Times(queue', t) = Times(queue, t) + One(o = t)
    <3>1. /\ <<o>> \o queue \in Seq(K) /\ Times(<<o>> \o queue, t) = Times(queue, t) + One(o = t)
          /\ Append(queue, o) \in Seq(K)
          /\ Times(Append(queue, o), t) = Times(queue, t) + One(o = t)
      BY <2>2, TimesPush
    <3>2. CASE queue' = <<o>> \o queue
      BY <3>1, <3>2
    <3>3. CASE queue' = Append(queue, o)
      BY <3>1, <3>3
    <3> QED BY <2>2, <3>2, <3>3
  <2> QED BY <2>3 DEF K, o
<1>6. QueueTypes'
  BY <1>1, <1>4, <1>5 DEF IInv, Basis, QueueTypes, Jobs
<1>7. StateTypes'
  <2>1. notified' \subseteq Blocked
    BY <1>1, Notifies DEF IInv, Basis, StateTypes
  <2>2. Blocked \subseteq Blocked'
    BY <1>1, <1>2 DEF Blocked
  <2> HIDE DEF Blocked
  <2> QED BY <1>1, <2>1, <2>2 DEF IInv, Basis, StateTypes, ClientLabels
<1>8. Control'
  BY <1>1 DEF IInv, Basis, Control
<1>9. Registered'
  BY <1>1, <1>2 DEF IInv, Basis, Registered, ResultsHaveReader
<1>10. Accounted'
  <2> SUFFICES ASSUME NEW d \in Clients
               PROVE  /\ Copies(d)' <= 1
                      /\ cpc'[d] \in {"start", "nosleep", "ready", "post"} => Copies(d)' = 0
                      /\ cpc'[d] = "posted" => Copies(d)' = 1
    BY DEF Accounted
  <2>1. /\ Copies(d) <= 1
        /\ cpc[d] \in {"start", "nosleep", "ready", "post"} => Copies(d) = 0
        /\ cpc[d] = "posted" => Copies(d) = 1
    BY DEF IInv, Accounted
  <2>2. Copies(d)' = Copies(d) + One(d = c)
    <3>1. Times(queue', Own(d)) = Times(queue, Own(d)) + One(d = c)
      BY <1>5, TaskFacts DEF One
    <3>2. /\ Times(deferred, Own(d))' = Times(deferred, Own(d))
          /\ Times(unhandled, Own(d))' = Times(unhandled, Own(d))
          /\ SlotsOf(d)' = SlotsOf(d) /\ One(mtask = Own(d))' = One(mtask = Own(d))
          /\ One(wtask = Own(d))' = One(wtask = Own(d))
          /\ One(d \in results)' = One(d \in results)
      BY <1>1 DEF Times, SlotsOf, One
    <3>3. /\ Times(queue, Own(d)) \in Nat /\ Times(deferred, Own(d)) \in Nat
          /\ Times(unhandled, Own(d)) \in Nat /\ Cardinality(SlotsOf(d)) \in Nat
          /\ One(mtask = Own(d)) \in Nat /\ One(wtask = Own(d)) \in Nat
          /\ One(d \in results) \in Nat /\ One(d = c) \in Nat
      BY CopiesTerms DEF IInv, Basis, One
    <3> QED BY <3>1, <3>2, <3>3 DEF Copies
  <2>3. Copies(d) \in Nat
    BY CopiesTerms DEF IInv, Basis
  <2> QED BY <1>1, <1>2, <2>1, <2>2, <2>3 DEF One
<1> QED BY <1>6, <1>7, <1>8, <1>9, <1>10 DEF IInv, Basis

(* stop(): what is queued of the client's task is removed, and a cancel    *)
(* task, which is nobody's own, is queued.                                 *)
LEMMA PostCancelStep ==
    ASSUME IInv, NEW c \in Clients, PostCancel(c)
    PROVE  IInv'
<1> DEFINE x == Task("cancel", c)
<1>1. /\ cpc[c] = "leaving" /\ cpc' = [cpc EXCEPT ![c] = "gone"] /\ notify_one
      /\ UNCHANGED <<mtask, wtask, mpc, wpc, stop, busy, yielding>>
      /\ UNCHANGED <<running, sleeping, req_stop_sleeping, sleeps, slot, waiting, results>>
      /\ queue' = <<x>> \o erased(queue, Own(c))
      /\ deferred' = erased(deferred, Own(c)) /\ unhandled' = erased(unhandled, Own(c))
  BY DEF PostCancel, cleanup_pending_task, worker, sleep, response, main, helper
<1>2. \A d \in Clients : cpc'[d] = IF d = c THEN "gone" ELSE cpc[d]
  BY <1>1 DEF IInv, Basis, StateTypes
<1>3. Gone \subseteq Gone' /\ x \in Known'
  BY <1>2 DEF Gone, Known
<1>4. queue \in Seq(Known') /\ unhandled \in Seq(Known') /\ deferred \in Seq(Jobs)
  <2>1. Seq(Known) \subseteq Seq(Known')
    BY <1>3, KnownGrows
  <2> HIDE DEF Known
  <2> QED BY <2>1 DEF IInv, Basis, QueueTypes
<1> DEFINE K == Known'
<1>5. /\ queue' \in Seq(K) /\ unhandled' \in Seq(K) /\ deferred' \in Seq(Jobs)
      /\ \A d \in Clients :
            /\ Times(queue', Own(d)) = IF d = c THEN 0 ELSE Times(queue, Own(d))
            /\ Times(unhandled', Own(d)) = IF d = c THEN 0 ELSE Times(unhandled, Own(d))
            /\ Times(deferred', Own(d)) = IF d = c THEN 0 ELSE Times(deferred, Own(d))
  <2> HIDE DEF K, x
  <2>1. queue \in Seq(K) /\ unhandled \in Seq(K) /\ x \in K
    BY <1>3, <1>4 DEF K
  <2> DEFINE e == erased(queue, Own(c))
  <2>2. e \in Seq(K) /\ Times(e, Own(c)) = 0 /\ \A u : u # Own(c) => Times(e, u) = Times(queue, u)
    BY <2>1, TimesErased
  <2>3. /\ unhandled' \in Seq(K) /\ Times(unhandled', Own(c)) = 0
        /\ \A u : u # Own(c) => Times(unhandled', u) = Times(unhandled, u)
    BY <1>1, <2>1, TimesErased
  <2>4. /\ deferred' \in Seq(Jobs) /\ Times(deferred', Own(c)) = 0
        /\ \A u : u # Own(c) => Times(deferred', u) = Times(deferred, u)
    BY <1>1, <1>4, TimesErased
  <2> HIDE DEF e
  <2>5. ASSUME NEW t PROVE /\ <<x>> \o e \in Seq(K) /\ Times(<<x>> \o e, t) = Times(e, t) + One(x = t)
    BY <2>1, <2>2, TimesPush
  <2>6. queue' = <<x>> \o e
    BY <1>1 DEF e
  <2>7. \A d \in Clients : One(x = Own(d)) = 0 /\ (d # c => Own(d) # Own(c))
    BY TaskFacts DEF One, x
  <2>8. \A d \in Clients : Times(e, Own(d)) \in Nat
    BY <2>2, TimesType
  <2>9. ASSUME NEW d \in Clients
        PROVE  Times(queue', Own(d)) = IF d = c THEN 0 ELSE Times(queue, Own(d))
    <3>1. Times(queue', Own(d)) = Times(e, Own(d))
      BY <2>5, <2>6, <2>7, <2>8
    <3> QED BY <2>2, <2>7, <3>1
  <2> QED BY <2>3, <2>4, <2>5, <2>6, <2>7, <2>9
<1>6. QueueTypes'
  <2>1. Known \subseteq Known'
    BY <1>3, KnownGrows
  <2> HIDE DEF Known
  <2> QED BY <1>1, <1>5, <2>1 DEF IInv, Basis, QueueTypes, Jobs
<1>7. StateTypes'
  <2>1. notified' \subseteq Blocked
    BY <1>1, Notifies DEF IInv, Basis, StateTypes
  <2>2. Blocked \subseteq Blocked'
    BY <1>1, <1>2 DEF Blocked
  <2> HIDE DEF Blocked
  <2> QED BY <1>1, <2>1, <2>2 DEF IInv, Basis, StateTypes, ClientLabels
<1>8. Control'
  <2>1. unhandled = <<>> => unhandled' = <<>>
    <3>1. SUFFICES ASSUME unhandled = <<>> PROVE unhandled' = <<>>
      OBVIOUS
    <3>2. {i \in DOMAIN unhandled : unhandled[i] # Own(c)} = {}
      BY <3>1
    <3>3. DOMAIN unhandled' = 1 .. 0
      BY <1>1, <3>2, FS_EmptySet DEF erased
    <3> QED BY <1>5, <3>3
  <2> QED BY <1>1, <2>1 DEF IInv, Basis, Control
<1>9. Registered'
  BY <1>1, <1>2 DEF IInv, Basis, Registered, ResultsHaveReader
<1>10. Accounted'
  <2> SUFFICES ASSUME NEW d \in Clients
               PROVE  /\ Copies(d)' <= 1
                      /\ cpc'[d] \in {"start", "nosleep", "ready", "post"} => Copies(d)' = 0
                      /\ cpc'[d] = "posted" => Copies(d)' = 1
    BY DEF Accounted
  <2>1. /\ Copies(d) <= 1
        /\ cpc[d] \in {"start", "nosleep", "ready", "post"} => Copies(d) = 0
        /\ cpc[d] = "posted" => Copies(d) = 1
    BY DEF IInv, Accounted
  <2>2. /\ SlotsOf(d)' = SlotsOf(d) /\ One(mtask = Own(d))' = One(mtask = Own(d))
        /\ One(wtask = Own(d))' = One(wtask = Own(d))
        /\ One(d \in results)' = One(d \in results)
    BY <1>1 DEF SlotsOf, One
  <2>3. /\ Times(queue, Own(d)) \in Nat /\ Times(deferred, Own(d)) \in Nat
        /\ Times(unhandled, Own(d)) \in Nat /\ Cardinality(SlotsOf(d)) \in Nat
        /\ One(mtask = Own(d)) \in Nat /\ One(wtask = Own(d)) \in Nat
        /\ One(d \in results) \in Nat
    BY CopiesTerms DEF IInv, Basis, One
  <2>4. CASE d = c
    <3>1. /\ Times(queue', Own(d)) = 0 /\ Times(deferred', Own(d)) = 0
          /\ Times(unhandled', Own(d)) = 0
      BY <1>5, <2>4
    <3>2. Copies(d)' \in Int /\ Copies(d) \in Int /\ Copies(d)' <= Copies(d)
      BY <2>2, <2>3, <3>1 DEF Copies
    <3> QED BY <1>2, <2>1, <2>4, <3>2
  <2>5. CASE d # c
    <3>1. Copies(d)' = Copies(d)
      BY <1>5, <2>2, <2>3, <2>5 DEF Copies
    <3> QED BY <1>2, <2>1, <2>5, <3>1
  <2> QED BY <2>4, <2>5
<1> QED BY <1>6, <1>7, <1>8, <1>9, <1>10 DEF IInv, Basis

-----------------------------------------------------------------------------
(* Steps of the main thread and of the worker that move no task.           *)

(* Neither thread moves a client.                                          *)
LEMMA KnownSame ==
    ASSUME UNCHANGED cpc
    PROVE  Gone' = Gone /\ Known' = Known
  BY DEF Gone, Known

(* The tasks stay where they are.                                          *)
LEMMA PlainStep ==
    ASSUME IInv, StateTypes', Control',
           UNCHANGED <<queue, deferred, unhandled, mtask, wtask, slot, waiting, results, cpc>>
    PROVE  IInv'
<1>1. QueueTypes'
  <2>1. Gone \subseteq Gone'
    BY KnownSame
  <2> QED BY <2>1, QueuesKept DEF IInv, Basis
<1>2. Registered'
  BY DEF IInv, Basis, Registered, ResultsHaveReader
<1>3. Accounted'
  <2>1. \A c \in Clients : Copies(c)' = Copies(c)
    BY CopiesKept
  <2> QED BY <2>1, AccountedKept
<1> QED BY <1>1, <1>2, <1>3 DEF IInv, Basis

(* The main thread goes on, waits, sleeps or ends.                         *)
LEMMA MainPlainStep ==
    ASSUME IInv,
           \/ (MainPop /\ queue = <<>>) \/ UpdateIdle \/ YieldToQueue
           \/ ((WorkDone \/ Join) /\ busy)
           \/ WaitOver \/ GoToSleep \/ WakeUp \/ MainStop \/ MainExit \/ Terminate
    PROVE  IInv'
<1> USE DEF queues, worker, sleep, response, main, helper
<1>1. CASE MainPop /\ queue = <<>>
  <2>1. StateTypes' /\ Control'
    BY <1>1 DEF MainPop, IInv, Basis, StateTypes, Control, MainLabels, Blocked
  <2> QED BY <1>1, <2>1, PlainStep DEF MainPop
<1>2. CASE UpdateIdle
  <2>1. StateTypes' /\ Control'
    BY <1>2 DEF UpdateIdle, IInv, Basis, StateTypes, Control, MainLabels, Blocked
  <2> QED BY <1>2, <2>1, PlainStep DEF UpdateIdle
<1>3. CASE YieldToQueue
  <2>1. StateTypes' /\ Control'
    BY <1>3 DEF YieldToQueue, IInv, Basis, StateTypes, Control, MainLabels, Blocked
  <2> QED BY <1>3, <2>1, PlainStep DEF YieldToQueue
<1>4. CASE WorkDone /\ busy
  <2>1. StateTypes' /\ Control'
    BY <1>4 DEF WorkDone, notify_all, IInv, Basis, StateTypes, Control, MainLabels, Blocked
  <2> QED BY <1>4, <2>1, PlainStep DEF WorkDone
<1>5. CASE Join /\ busy
  <2>1. StateTypes' /\ Control'
    BY <1>5 DEF Join, Consume, IInv, Basis, StateTypes, Control, MainLabels, Blocked
  <2> QED BY <1>5, <2>1, PlainStep DEF Join
<1>6. CASE WaitOver
  <2>1. StateTypes' /\ Control'
    BY <1>6 DEF WaitOver, Consume, IInv, Basis, StateTypes, Control, MainLabels, Blocked
  <2> QED BY <1>6, <2>1, PlainStep DEF WaitOver
<1>7. CASE GoToSleep
  <2>1. sleeps' \in 0 .. MaxSleeps
    BY <1>7, QueueAssumption DEF GoToSleep, IInv, Basis, StateTypes
  <2>2. StateTypes' /\ Control'
    BY <1>7, <2>1 DEF GoToSleep, Consume, IInv, Basis, StateTypes, Control, MainLabels, Blocked
  <2> QED BY <1>7, <2>2, PlainStep DEF GoToSleep
<1>8. CASE WakeUp
  <2>1. StateTypes' /\ Control'
    BY <1>8 DEF WakeUp, Consume, IInv, Basis, StateTypes, Control, MainLabels, Blocked
  <2> QED BY <1>8, <2>1, PlainStep DEF WakeUp
<1>9. CASE MainStop
  <2>1. StateTypes' /\ Control'
    BY <1>9 DEF MainStop, notify_all, IInv, Basis, StateTypes, Control, MainLabels, Blocked
  <2> QED BY <1>9, <2>1, PlainStep DEF MainStop
<1>10. CASE MainExit
  <2>1. StateTypes' /\ Control'
    BY <1>10 DEF MainExit, IInv, Basis, StateTypes, Control, MainLabels, Blocked
  <2> QED BY <1>10, <2>1, PlainStep DEF MainExit
<1>11. CASE Terminate
  <2>1. StateTypes' /\ Control'
    BY <1>11 DEF Terminate, notify_all, IInv, Basis, StateTypes, Control, Blocked
  <2> QED BY <1>11, <2>1, PlainStep DEF Terminate
<1> QED BY <1>1, <1>2, <1>3, <1>4, <1>5, <1>6, <1>7, <1>8, <1>9, <1>10, <1>11

(* The worker goes on, blocks or ends its part in the yield.               *)
LEMMA WorkerPlainStep ==
    ASSUME IInv,
           \/ WorkerUnparks \/ (WorkerPop /\ (~running \/ queue = <<>>))
           \/ WorkerCheck \/ WorkerWakes \/ WorkerFinish
    PROVE  IInv'
<1> USE DEF queues, worker, sleep, response, main, helper
<1>1. CASE WorkerUnparks
  <2>1. StateTypes' /\ Control'
    BY <1>1 DEF WorkerUnparks, IInv, Basis, StateTypes, Control, WorkerLabels, Blocked
  <2> QED BY <1>1, <2>1, PlainStep DEF WorkerUnparks
<1>2. CASE WorkerPop /\ (~running \/ queue = <<>>)
  <2>1. StateTypes' /\ Control'
    BY <1>2 DEF WorkerPop, IInv, Basis, StateTypes, Control, WorkerLabels, Blocked
  <2> QED BY <1>2, <2>1, PlainStep DEF WorkerPop
<1>3. CASE WorkerCheck
  <2>1. StateTypes' /\ Control'
    BY <1>3 DEF WorkerCheck, IInv, Basis, StateTypes, Control, WorkerLabels, Blocked
  <2> QED BY <1>3, <2>1, PlainStep DEF WorkerCheck
<1>4. CASE WorkerWakes
  <2>1. StateTypes' /\ Control'
    BY <1>4 DEF WorkerWakes, Consume, IInv, Basis, StateTypes, Control, WorkerLabels, Blocked
  <2> QED BY <1>4, <2>1, PlainStep DEF WorkerWakes
<1>5. CASE WorkerFinish
  <2>1. StateTypes' /\ Control'
    BY <1>5 DEF WorkerFinish, notify_all, IInv, Basis, StateTypes, Control, WorkerLabels, Blocked
  <2> QED BY <1>5, <2>1, PlainStep DEF WorkerFinish
<1> QED BY <1>1, <1>2, <1>3, <1>4, <1>5

-----------------------------------------------------------------------------
(* Steps that move a task.                                                 *)

(* A task moves from one place to another.                                 *)
LEMMA MoveStep ==
    ASSUME IInv, QueueTypes', StateTypes', Control', UNCHANGED <<cpc, waiting, results>>,
           \A c \in Clients : Copies(c)' = Copies(c)
    PROVE  IInv'
<1>1. Registered'
  BY DEF IInv, Basis, Registered, ResultsHaveReader
<1>2. Accounted'
  BY AccountedKept
<1> QED BY <1>1, <1>2 DEF IInv, Basis

(* send(): the task of x leaves its place for the results; if nobody waits *)
(* for it any more, it is dropped.                                         *)
LEMMA SendStep ==
    ASSUME IInv, QueueTypes', StateTypes', Control', UNCHANGED <<cpc, waiting>>,
           NEW x \in Clients, results' = Sent(x), Copies(x) >= 1 + One(x \in results),
           \A c \in Clients :
               Copies(c)' = Copies(c) - One(c = x) - One(c \in results) + One(c \in results')
    PROVE  IInv'
<1>1. results' \subseteq results \cup ({x} \cap waiting)
  BY DEF Sent
<1>2. Registered'
  BY <1>1 DEF IInv, Basis, Registered, ResultsHaveReader
<1>3. Accounted'
  <2> SUFFICES ASSUME NEW d \in Clients
               PROVE  /\ Copies(d)' <= 1
                      /\ cpc'[d] \in {"start", "nosleep", "ready", "post"} => Copies(d)' = 0
                      /\ cpc'[d] = "posted" => Copies(d)' = 1
    BY DEF Accounted
  <2>1. /\ Copies(d) <= 1
        /\ cpc[d] \in {"start", "nosleep", "ready", "post"} => Copies(d) = 0
        /\ cpc[d] = "posted" => Copies(d) = 1
    BY DEF IInv, Accounted
  <2>2. Copies(d) \in Nat
    BY CopiesTerms DEF IInv, Basis
  <2>3. CASE d # x
    <3>1. One(d \in results') = One(d \in results) /\ One(d = x) = 0 /\ One(d \in results) \in Nat
      BY <2>3 DEF Sent, One
    <3>2. Copies(d)' = Copies(d)
      BY <2>2, <3>1
    <3> QED BY <2>1, <3>2
  <2>4. CASE d = x
    <3>1. One(x \in results) = 0 /\ Copies(d) = 1 /\ One(d = x) = 1
      BY <2>1, <2>2, <2>4 DEF One
    <3>2. Copies(d)' = One(d \in results') /\ One(d \in results') \in {0, 1}
      BY <2>4, <3>1 DEF One
    <3>3. cpc[d] = "posted" => d \in results'
      BY <2>4 DEF IInv, Basis, Registered, Sent
    <3>4. cpc[d] = "posted" => One(d \in results') = 1
      BY <3>3 DEF One
    <3>5. cpc[d] \notin {"start", "nosleep", "ready", "post"}
      BY <2>1, <3>1
    <3> QED BY <3>2, <3>4, <3>5
  <2> QED BY <2>3, <2>4
<1> QED BY <1>2, <1>3 DEF IInv, Basis

(* The terms of Copies, by place.                                          *)
InQueue(c)     == Times(queue, Own(c))
InDeferred(c)  == Times(deferred, Own(c))
InUnhandled(c) == Times(unhandled, Own(c))
InMain(c)      == One(mtask = Own(c))
InWorker(c)    == One(wtask = Own(c))
InSlots(c)     == Cardinality(SlotsOf(c))
InResults(c)   == One(c \in results)

(* Copies is their sum; a place that does not change keeps its term.       *)
LEMMA Places ==
    ASSUME IInv, NEW c \in Clients
    PROVE  /\ Copies(c) = InQueue(c) + InDeferred(c) + InUnhandled(c) + InMain(c) + InWorker(c)
                             + InSlots(c) + InResults(c)
           /\ Copies(c)' = InQueue(c)' + InDeferred(c)' + InUnhandled(c)' + InMain(c)'
                              + InWorker(c)' + InSlots(c)' + InResults(c)'
           /\ InQueue(c) \in Nat /\ InDeferred(c) \in Nat /\ InUnhandled(c) \in Nat
           /\ InMain(c) \in Nat /\ InWorker(c) \in Nat /\ InSlots(c) \in Nat
           /\ InResults(c) \in Nat
           /\ UNCHANGED queue => InQueue(c)' = InQueue(c)
           /\ UNCHANGED deferred => InDeferred(c)' = InDeferred(c)
           /\ UNCHANGED unhandled => InUnhandled(c)' = InUnhandled(c)
           /\ UNCHANGED mtask => InMain(c)' = InMain(c)
           /\ UNCHANGED wtask => InWorker(c)' = InWorker(c)
           /\ UNCHANGED slot => InSlots(c)' = InSlots(c)
           /\ UNCHANGED results => InResults(c)' = InResults(c)
<1> USE DEF InQueue, InDeferred, InUnhandled, InMain, InWorker, InSlots, InResults
<1>1. Copies(c) = InQueue(c) + InDeferred(c) + InUnhandled(c) + InMain(c) + InWorker(c)
                    + InSlots(c) + InResults(c)
  BY DEF Copies
<1>2. Copies(c)' = InQueue(c)' + InDeferred(c)' + InUnhandled(c)' + InMain(c)' + InWorker(c)'
                     + InSlots(c)' + InResults(c)'
  BY DEF Copies
<1>3. /\ InQueue(c) \in Nat /\ InDeferred(c) \in Nat /\ InUnhandled(c) \in Nat
      /\ InSlots(c) \in Nat
  BY CopiesTerms DEF IInv, Basis
<1>4. InMain(c) \in Nat /\ InWorker(c) \in Nat /\ InResults(c) \in Nat
  BY DEF One
<1>5. /\ UNCHANGED queue => InQueue(c)' = InQueue(c)
      /\ UNCHANGED deferred => InDeferred(c)' = InDeferred(c)
      /\ UNCHANGED unhandled => InUnhandled(c)' = InUnhandled(c)
      /\ UNCHANGED mtask => InMain(c)' = InMain(c)
      /\ UNCHANGED wtask => InWorker(c)' = InWorker(c)
      /\ UNCHANGED slot => InSlots(c)' = InSlots(c)
      /\ UNCHANGED results => InResults(c)' = InResults(c)
  BY DEF Times, One, SlotsOf
<1> HIDE DEF InQueue, InDeferred, InUnhandled, InMain, InWorker, InSlots, InResults
<1> QED BY <1>1, <1>2, <1>3, <1>4, <1>5

(* process_new_tasks(): a thread takes the first task.                     *)
LEMMA PopStep ==
    ASSUME IInv, queue # <<>>, MainPop \/ (WorkerPop /\ running)
    PROVE  IInv'
<1> USE DEF queues, worker, sleep, response, main, helper
<1>1. /\ UNCHANGED <<deferred, unhandled, slot, waiting, results, cpc, running, sleeping>>
      /\ UNCHANGED <<req_stop_sleeping, sleeps, stop, busy, yielding, notified>>
      /\ queue' = Tail(queue)
      /\ \/ /\ mpc = "process" /\ mpc' = "handle" /\ mtask' = Head(queue)
            /\ UNCHANGED <<wpc, wtask>>
         \/ /\ wpc = "process" /\ wpc' = "handle" /\ wtask' = Head(queue)
            /\ UNCHANGED <<mpc, mtask>>
  BY DEF MainPop, WorkerPop
<1>2. /\ Head(queue) \in Known /\ Tail(queue) \in Seq(Known)
      /\ \A t : Times(queue, t) = Times(Tail(queue), t) + One(Head(queue) = t)
  <2>1. queue \in Seq(Known)
    BY DEF IInv, Basis, QueueTypes
  <2> HIDE DEF Known
  <2> QED BY <2>1, TimesPop
<1>3. Head(queue) # NoTask
  BY <1>2, KnownKinds
<1>4. QueueTypes'
  BY <1>1, <1>2, KnownSame DEF IInv, Basis, QueueTypes, Jobs
<1>5. StateTypes' /\ Control'
  <2>1. StateTypes'
    BY <1>1 DEF IInv, Basis, StateTypes, MainLabels, WorkerLabels, Blocked
  <2>2. Control'
    BY <1>1, <1>3 DEF IInv, Basis, Control
  <2> QED BY <2>1, <2>2
<1>6. ASSUME NEW c \in Clients PROVE Copies(c)' = Copies(c)
  <2> DEFINE h == One(Head(queue) = Own(c))
  <2>1. InQueue(c)' \in Nat /\ InQueue(c) = InQueue(c)' + h
    <3>1. queue' \in Seq(Known)
      BY <1>1, <1>2
    <3> QED BY <1>1, <1>2, <3>1, TimesType DEF InQueue
  <2>2. /\ InMain(c)' \in Nat /\ InWorker(c)' \in Nat /\ h \in Nat
        /\ InMain(c)' + InWorker(c)' = InMain(c) + InWorker(c) + h
    <3>1. mpc = "process" => mtask = NoTask
      BY DEF IInv, Basis, Control
    <3>2. wpc = "process" => wtask = NoTask
      BY DEF IInv, Basis, Control
    <3>3. Own(c) # NoTask
      BY TaskFacts
    <3> QED BY <1>1, <3>1, <3>2, <3>3 DEF One, InMain, InWorker
  <2> DEFINE q == InQueue(c)  d == InDeferred(c)  u == InUnhandled(c)  m == InMain(c)
             w == InWorker(c)  k == InSlots(c)  r == InResults(c)
             q1 == InQueue(c)'  m1 == InMain(c)'  w1 == InWorker(c)'
             N == Copies(c)  N1 == Copies(c)'
  <2>3. N1 = q1 + d + u + m1 + w1 + k + r
    BY <1>1, Places
  <2>4. N = q + d + u + m + w + k + r
    BY Places
  <2>5. /\ q \in Nat /\ d \in Nat /\ u \in Nat /\ m \in Nat /\ w \in Nat /\ k \in Nat
        /\ r \in Nat
    BY Places
  <2>6. q = q1 + h /\ m1 + w1 = m + w + h /\ q1 \in Nat /\ m1 \in Nat /\ w1 \in Nat /\ h \in Nat
    BY <2>1, <2>2
  <2> HIDE DEF h, q, d, u, m, w, k, r, q1, m1, w1, N, N1
  <2>7. N1 = N
    BY <2>3, <2>4, <2>5, <2>6
  <2> QED BY <2>7 DEF N, N1
<1> QED BY <1>1, <1>4, <1>5, <1>6, MoveStep

(* A slot is taken: its client has one more.                               *)
LEMMA SlotTaken ==
    ASSUME IInv, NEW s \in Slots, NEW x \in Runners, slot[s] = Idle,
           slot' = [slot EXCEPT ![s] = [id |-> x, left |-> NDecode]]
    PROVE  \A c \in Clients : InSlots(c)' \in Nat /\ InSlots(c)' = InSlots(c) + One(c = x)
<1>1. \A z \in Slots : slot'[z].id = IF z = s THEN x ELSE slot[z].id
  BY DEF IInv, Basis, StateTypes
<1>2. slot[s].id = NoTask /\ x \in Clients /\ NoTask \notin Clients
  BY QueueAssumption DEF Idle, Clients
<1> TAKE c \in Clients
<1>3. IsFiniteSet(SlotsOf(c)) /\ Cardinality(SlotsOf(c)) \in Nat
  BY CopiesTerms DEF IInv, Basis
<1>4. SlotsOf(c)' = {z \in Slots : slot'[z].id = c}
  BY DEF SlotsOf
<1>5. CASE c # x
  <2>1. SlotsOf(c)' = SlotsOf(c)
    BY <1>1, <1>2, <1>4, <1>5 DEF SlotsOf
  <2> QED BY <1>3, <1>5, <2>1 DEF InSlots, One
<1>6. CASE c = x
  <2>1. SlotsOf(c)' = SlotsOf(c) \cup {s} /\ s \notin SlotsOf(c)
    BY <1>1, <1>2, <1>4, <1>6 DEF SlotsOf
  <2>2. Cardinality(SlotsOf(c) \cup {s}) = Cardinality(SlotsOf(c)) + 1
    BY <1>3, <2>1, FS_AddElement
  <2> QED BY <1>3, <1>6, <2>1, <2>2 DEF InSlots, One
<1> QED BY <1>5, <1>6

(* A slot is given back: its client has one less.                          *)
LEMMA SlotFreed ==
    ASSUME IInv, NEW s \in Slots, NEW x \in Runners, slot[s].id = x,
           slot' = [slot EXCEPT ![s] = Idle]
    PROVE  \A c \in Clients : InSlots(c)' \in Nat /\ InSlots(c) = InSlots(c)' + One(c = x)
<1>1. \A z \in Slots : slot'[z].id = IF z = s THEN NoTask ELSE slot[z].id
  BY DEF IInv, Basis, StateTypes, Idle
<1>2. x \in Clients /\ NoTask \notin Clients
  BY QueueAssumption DEF Clients
<1> TAKE c \in Clients
<1>3. IsFiniteSet(SlotsOf(c)) /\ Cardinality(SlotsOf(c)) \in Nat
  BY CopiesTerms DEF IInv, Basis
<1>4. SlotsOf(c)' = {z \in Slots : slot'[z].id = c}
  BY DEF SlotsOf
<1>5. CASE c # x
  <2>1. SlotsOf(c)' = SlotsOf(c)
    BY <1>1, <1>2, <1>4, <1>5 DEF SlotsOf
  <2> QED BY <1>3, <1>5, <2>1 DEF InSlots, One
<1>6. CASE c = x
  <2>1. SlotsOf(c)' = SlotsOf(c) \ {s} /\ s \in SlotsOf(c)
    BY <1>1, <1>2, <1>4, <1>6 DEF SlotsOf
  <2> DEFINE A == SlotsOf(c)
             B == A \ {s}
  <2>2. Cardinality(B) = Cardinality(A) - 1 /\ Cardinality(B) \in Nat
    <3>1. IsFiniteSet(B) /\ Cardinality(B) = Cardinality(A) - 1
      BY <1>3, <2>1, FS_RemoveElement
    <3> QED BY <3>1, FS_CardinalityType
  <2>3. InSlots(c)' = Cardinality(B) /\ InSlots(c) = Cardinality(A)
    BY <2>1 DEF InSlots
  <2> HIDE DEF A, B
  <2> QED BY <1>3, <1>6, <2>2, <2>3 DEF One, A
<1> QED BY <1>5, <1>6

(* pop_deferred_task: a deferred task moves to the front of the queue.     *)
LEMMA PopDeferred ==
    ASSUME IInv, NEW s \in Slots, pop_deferred_task(s)
    PROVE  /\ queue' \in Seq(Known) /\ deferred' \in Seq(Jobs)
           /\ \A c \in Clients :
                /\ InQueue(c)' \in Nat /\ InDeferred(c)' \in Nat
                /\ InQueue(c)' + InDeferred(c)' = InQueue(c) + InDeferred(c)
<1> DEFINE J == Jobs
           K == Known
<1>1. queue \in Seq(K) /\ deferred \in Seq(J) /\ J \subseteq K
  BY DEF IInv, Basis, QueueTypes, Jobs, Known, Clients
<1> HIDE DEF J, K
<1>2. CASE deferred = <<>>
  <2>1. queue' = queue /\ deferred' = deferred
    BY <1>2 DEF pop_deferred_task
  <2>2. ASSUME NEW c \in Clients
        PROVE  /\ InQueue(c)' = InQueue(c) /\ InDeferred(c)' = InDeferred(c)
               /\ InQueue(c) \in Nat /\ InDeferred(c) \in Nat
    BY <2>1, Places
  <2> QED BY <1>1, <2>1, <2>2 DEF J, K
<1>3. CASE deferred # <<>>
  <2> DEFINE own == {i \in DOMAIN deferred : Want[deferred[i].id] = s}
  <2>1. DOMAIN deferred = 1 .. Len(deferred) /\ Len(deferred) \in Nat /\ 1 \in 1 .. Len(deferred)
    BY <1>1, <1>3
  <2>2. own # {} => Min(own) \in own
    <3>1. own \in SUBSET Nat
      BY <2>1
    <3> HIDE DEF own
    <3> QED BY <3>1, MinIsLeast
  <2>3. PICK i \in 1 .. Len(deferred) :
          queue' = <<deferred[i]>> \o queue /\ deferred' = RemoveAt(deferred, i)
    <3> DEFINE k == IF own = {} THEN 1 ELSE Min(own)
    <3>1. k \in 1 .. Len(deferred)
      BY <2>1, <2>2
    <3>2. queue' = <<deferred[k]>> \o queue /\ deferred' = RemoveAt(deferred, k)
      BY <1>3 DEF pop_deferred_task
    <3> HIDE DEF k
    <3> QED BY <3>1, <3>2
  <2> DEFINE e == deferred[i]
  <2>4. ASSUME NEW t
        PROVE  /\ deferred' \in Seq(J) /\ e \in J
               /\ Times(deferred, t) = Times(deferred', t) + One(e = t)
    BY <1>1, <2>3, TimesErase
  <2>5. e \in K /\ deferred' \in Seq(J)
    BY <1>1, <2>4
  <2> HIDE DEF e
  <2>6. queue' = <<e>> \o queue
    BY <2>3 DEF e
  <2>7. ASSUME NEW t
        PROVE  queue' \in Seq(K) /\ Times(queue', t) = Times(queue, t) + One(e = t)
    BY <1>1, <2>5, <2>6, TimesPush
  <2>8. ASSUME NEW c \in Clients
        PROVE  /\ InQueue(c)' \in Nat /\ InDeferred(c)' \in Nat
               /\ InQueue(c)' + InDeferred(c)' = InQueue(c) + InDeferred(c)
    <3> DEFINE h == One(e = Own(c))  q == InQueue(c)  d == InDeferred(c)
               q1 == InQueue(c)'  d1 == InDeferred(c)'
    <3>1. h \in Nat
      BY DEF One
    <3>2. q \in Nat /\ d \in Nat
      BY Places
    <3>3. q1 = q + h
      BY <2>7 DEF InQueue
    <3>4. d = d1 + h /\ d1 \in Nat
      <4>1. Times(deferred', Own(c)) \in Nat
        BY <2>5, TimesType
      <4> QED BY <2>4, <4>1 DEF InDeferred
    <3> HIDE DEF h, q, d, q1, d1
    <3>5. q1 \in Nat /\ d1 \in Nat /\ q1 + d1 = q + d
      BY <3>1, <3>2, <3>3, <3>4
    <3> QED BY <3>5 DEF q, d, q1, d1
  <2> QED BY <2>5, <2>7, <2>8 DEF J, K
<1> QED BY <1>2, <1>3

(* The task of a client that is gone is dropped.                           *)
LEMMA DropStep ==
    ASSUME IInv, QueueTypes', StateTypes', Control', UNCHANGED <<cpc, waiting, results>>,
           NEW x \in Gone, \A c \in Clients : Copies(c)' = Copies(c) - One(c = x)
    PROVE  IInv'
<1>1. Registered'
  BY DEF IInv, Basis, Registered, ResultsHaveReader
<1>2. Accounted'
  <2> SUFFICES ASSUME NEW d \in Clients
               PROVE  /\ Copies(d)' <= 1
                      /\ cpc'[d] \in {"start", "nosleep", "ready", "post"} => Copies(d)' = 0
                      /\ cpc'[d] = "posted" => Copies(d)' = 1
    BY DEF Accounted
  <2>1. /\ Copies(d) <= 1
        /\ cpc[d] \in {"start", "nosleep", "ready", "post"} => Copies(d) = 0
        /\ cpc[d] = "posted" => Copies(d) = 1
    BY DEF IInv, Accounted
  <2>2. Copies(d) \in Nat
    BY CopiesTerms DEF IInv, Basis
  <2>3. CASE d = x
    <3>1. cpc[d] = "gone" /\ One(d = x) = 1
      BY <2>3 DEF Gone, One
    <3> QED BY <2>1, <2>2, <3>1
  <2>4. CASE d # x
    <3>1. One(d = x) = 0
      BY <2>4 DEF One
    <3> QED BY <2>1, <2>2, <3>1
  <2> QED BY <2>3, <2>4
<1> QED BY <1>1, <1>2 DEF IInv, Basis

(* What a task in a thread's hand counts for.                              *)
LEMMA HandCounts ==
    ASSUME NEW t, NEW c \in Clients
    PROVE  /\ One(NoTask = Own(c)) = 0
           /\ \A x \in Clients : t = Own(x) => One(t = Own(c)) = One(c = x)
           /\ t = NextResponse => One(t = Own(c)) = 0
           /\ \A x \in Clients : t = Task("cancel", x) => One(t = Own(c)) = 0
<1>1. /\ Own(c) # NoTask /\ Own(c) # NextResponse
      /\ \A d \in Clients : (Own(c) = Own(d) <=> c = d) /\ Own(c) # Task("cancel", d)
  BY TaskFacts
<1> QED BY <1>1 DEF One

(* A task that a thread or a slot holds is a copy beside the results.      *)
LEMMA HandHolds ==
    ASSUME IInv, NEW x \in Clients, InMain(x) + InWorker(x) + InSlots(x) >= 1
    PROVE  Copies(x) >= 1 + One(x \in results)
<1> DEFINE q == InQueue(x)  d == InDeferred(x)  u == InUnhandled(x)  m == InMain(x)
           w == InWorker(x)  k == InSlots(x)  r == InResults(x)  N == Copies(x)
<1>1. N = q + d + u + m + w + k + r
  BY Places
<1>2. q \in Nat /\ d \in Nat /\ u \in Nat /\ m \in Nat /\ w \in Nat /\ k \in Nat /\ r \in Nat
  BY Places
<1>3. m + w + k >= 1
  OBVIOUS
<1> HIDE DEF q, d, u, m, w, k, r, N
<1>4. N >= 1 + r
  BY <1>1, <1>2, <1>3
<1> QED BY <1>4 DEF N, r, InResults

(* process_single_task on the main thread: its hand becomes free.          *)
LEMMA MainLetsGo ==
    ASSUME IInv, mpc = "handle", mpc' = "process", mtask' = NoTask, UNCHANGED cpc,
           UNCHANGED <<unhandled, wtask, wpc, running, sleeping, req_stop_sleeping>>,
           UNCHANGED <<sleeps, stop, busy, yielding>>,
           UNCHANGED notified \/ notify_one,
           slot' \in [Slots -> {Idle} \cup [id : Runners, left : 1 .. NDecode]],
           queue' \in Seq(Known), deferred' \in Seq(Jobs)
    PROVE  mtask \in Known /\ QueueTypes' /\ StateTypes' /\ Control'
<1>1. mtask \in Known
  BY DEF IInv, Basis, Control, QueueTypes
<1>2. QueueTypes'
  BY KnownSame DEF IInv, Basis, QueueTypes, Jobs
<1>3. StateTypes'
  <2>1. notified' \subseteq Blocked
    BY Notifies DEF IInv, Basis, StateTypes
  <2>2. Blocked \subseteq Blocked'
    BY DEF Blocked
  <2> HIDE DEF Blocked
  <2> QED BY <2>1, <2>2 DEF IInv, Basis, StateTypes, MainLabels
<1>4. Control'
  BY DEF IInv, Basis, Control
<1> QED BY <1>1, <1>2, <1>3, <1>4

(* A completion is launched or deferred.                                   *)
LEMMA HandleRunStep ==
    ASSUME IInv, HandleRun
    PROVE  IInv'
<1> USE DEF queues, worker, sleep, response, main, helper
<1>1. /\ mpc = "handle" /\ mtask.kind = "run" /\ mpc' = "process" /\ mtask' = NoTask
      /\ UNCHANGED <<queue, unhandled, running, sleeping, req_stop_sleeping, sleeps, stop, busy>>
      /\ UNCHANGED <<yielding, waiting, results, wpc, wtask, cpc>>
  BY DEF HandleRun
<1>2. mtask \in Known
  BY <1>1 DEF IInv, Basis, Control, QueueTypes
<1>3. PICK x \in Runners : x \in Clients /\ mtask.id = x /\ mtask = Own(x) /\ mtask \in Jobs
  BY <1>1, <1>2, KnownKinds DEF Clients, Jobs
<1>4. /\ queue \in Seq(Known) /\ deferred \in Seq(Jobs)
      /\ slot \in [Slots -> {Idle} \cup [id : Runners, left : 1 .. NDecode]]
  BY DEF IInv, Basis, QueueTypes, StateTypes
<1>5. CASE \E s \in Slots : /\ slot[s] = Idle /\ UNCHANGED <<deferred, notified>>
                            /\ slot' = [slot EXCEPT ![s] = [id |-> x, left |-> NDecode]]
  <2> DEFINE v == [id |-> x, left |-> NDecode]
  <2>1. PICK s \in Slots : slot[s] = Idle /\ deferred' = deferred /\ notified' = notified
                           /\ slot' = [slot EXCEPT ![s] = v]
    BY <1>5
  <2>2. v \in [id : Runners, left : 1 .. NDecode] /\ v.id = x
    BY <1>3, QueueAssumption
  <2> HIDE DEF v
  <2>3. slot' \in [Slots -> {Idle} \cup [id : Runners, left : 1 .. NDecode]]
    BY <1>4, <2>1, <2>2
  <2>4. QueueTypes' /\ StateTypes' /\ Control'
    BY <1>1, <1>4, <2>1, <2>3, MainLetsGo
  <2>5. \A c \in Clients : InSlots(c)' \in Nat /\ InSlots(c)' = InSlots(c) + One(c = x)
    BY <2>1, SlotTaken DEF v
  <2>6. ASSUME NEW c \in Clients PROVE Copies(c)' = Copies(c)
    <3> DEFINE q == InQueue(c)  d == InDeferred(c)  u == InUnhandled(c)  m == InMain(c)
               w == InWorker(c)  k == InSlots(c)  r == InResults(c)  h == One(c = x)
               k1 == InSlots(c)'  m1 == InMain(c)'  N == Copies(c)  N1 == Copies(c)'
    <3>1. N1 = q + d + u + m1 + w + k1 + r
      BY <1>1, <2>1, Places
    <3>2. N = q + d + u + m + w + k + r
      BY Places
    <3>3. /\ q \in Nat /\ d \in Nat /\ u \in Nat /\ m \in Nat /\ w \in Nat /\ k \in Nat
          /\ r \in Nat
      BY Places
    <3>4. m1 = 0 /\ m = h
      BY <1>1, <1>3, HandCounts DEF InMain
    <3>5. k1 \in Nat /\ k1 = k + h
      BY <2>5
    <3> HIDE DEF h, q, d, u, m, w, k, r, k1, m1, N, N1
    <3>6. N1 = N
      BY <3>1, <3>2, <3>3, <3>4, <3>5
    <3> QED BY <3>6 DEF N, N1
  <2> QED BY <1>1, <2>4, <2>6, MoveStep
<1>6. CASE deferred' = Append(deferred, mtask) /\ notify_one /\ UNCHANGED slot
  <2> DEFINE J == Jobs
             e == mtask
             f == deferred
  <2>1. f \in Seq(J) /\ e \in J /\ deferred' = Append(f, e)
    BY <1>3, <1>4, <1>6
  <2> HIDE DEF J, e, f
  <2>2. ASSUME NEW t
        PROVE  deferred' \in Seq(J) /\ Times(deferred', t) = Times(f, t) + One(e = t)
    <3>1. /\ <<e>> \o f \in Seq(J) /\ Times(<<e>> \o f, t) = Times(f, t) + One(e = t)
          /\ Append(f, e) \in Seq(J) /\ Times(Append(f, e), t) = Times(f, t) + One(e = t)
      BY <2>1, TimesPush
    <3> QED BY <2>1, <3>1
  <2>3. deferred' \in Seq(Jobs)
    BY <2>2 DEF J
  <2>4. QueueTypes' /\ StateTypes' /\ Control'
    <3>1. /\ slot' \in [Slots -> {Idle} \cup [id : Runners, left : 1 .. NDecode]]
          /\ queue' \in Seq(Known)
      BY <1>1, <1>4, <1>6
    <3> QED BY <1>1, <1>6, <2>3, <3>1, MainLetsGo
  <2>5. ASSUME NEW c \in Clients PROVE Copies(c)' = Copies(c)
    <3> DEFINE q == InQueue(c)  d == InDeferred(c)  u == InUnhandled(c)  m == InMain(c)
               w == InWorker(c)  k == InSlots(c)  r == InResults(c)
               d1 == InDeferred(c)'  m1 == InMain(c)'  N == Copies(c)  N1 == Copies(c)'
    <3>1. N1 = q + d1 + u + m1 + w + k + r
      BY <1>1, <1>6, Places
    <3>2. N = q + d + u + m + w + k + r
      BY Places
    <3>3. /\ q \in Nat /\ d \in Nat /\ u \in Nat /\ m \in Nat /\ w \in Nat /\ k \in Nat
          /\ r \in Nat
      BY Places
    <3>4. m1 = 0
      BY <1>1, HandCounts DEF InMain
    <3>5. d1 = d + m
      BY <2>2 DEF InDeferred, InMain, e, f
    <3> HIDE DEF q, d, u, m, w, k, r, d1, m1, N, N1
    <3>6. N1 = N
      BY <3>1, <3>2, <3>3, <3>4, <3>5
    <3> QED BY <3>6 DEF N, N1
  <2> QED BY <1>1, <2>4, <2>5, MoveStep
<1>7. \/ \E s \in Slots : /\ slot[s] = Idle /\ UNCHANGED <<deferred, notified>>
                          /\ slot' = [slot EXCEPT ![s] = [id |-> x, left |-> NDecode]]
      \/ deferred' = Append(deferred, mtask) /\ notify_one /\ UNCHANGED slot
  BY <1>3 DEF HandleRun, Free
<1> QED BY <1>5, <1>6, <1>7

(* The main thread has sent a result or an error for the task in its hand, *)
(* or the task is NEXT_RESPONSE, and drops it.                             *)
Answers ==
    /\ mpc = "handle" /\ mtask.kind \in {"info", "run", "next"} /\ mpc' = "process"
    /\ mtask' = NoTask
    /\ UNCHANGED <<queue, deferred, unhandled, running, sleeping, req_stop_sleeping, sleeps>>
    /\ UNCHANGED <<stop, busy, yielding, slot, waiting, wpc, wtask, cpc, notified>>
    /\ results' = IF mtask.kind # "next" THEN Sent(mtask.id) ELSE results

LEMMA AnswersStep ==
    ASSUME IInv, Answers
    PROVE  IInv'
<1>1. Answers
  OBVIOUS
<1> USE DEF Answers
<1>2. mtask \in Known /\ QueueTypes' /\ StateTypes' /\ Control'
  <2>1. /\ queue' \in Seq(Known) /\ deferred' \in Seq(Jobs)
        /\ slot' \in [Slots -> {Idle} \cup [id : Runners, left : 1 .. NDecode]]
    BY <1>1 DEF IInv, Basis, QueueTypes, StateTypes
  <2> QED BY <1>1, <2>1, MainLetsGo
<1>3. ASSUME NEW c \in Clients
      PROVE  Copies(c)' = Copies(c) - InMain(c) - InResults(c) + InResults(c)'
  <2> DEFINE q == InQueue(c)  d == InDeferred(c)  u == InUnhandled(c)  m == InMain(c)
             w == InWorker(c)  k == InSlots(c)  r == InResults(c)
             r1 == InResults(c)'  m1 == InMain(c)'  N == Copies(c)  N1 == Copies(c)'
  <2>1. N1 = q + d + u + m1 + w + k + r1
    BY <1>1, Places
  <2>2. N = q + d + u + m + w + k + r
    BY Places
  <2>3. /\ q \in Nat /\ d \in Nat /\ u \in Nat /\ m \in Nat /\ w \in Nat /\ k \in Nat
        /\ r \in Nat
    BY Places
  <2>4. m1 = 0 /\ r1 \in Nat
    BY <1>1, HandCounts DEF InMain, InResults, One
  <2> HIDE DEF q, d, u, m, w, k, r, r1, m1, N, N1
  <2>5. N1 = N - m - r + r1
    BY <2>1, <2>2, <2>3, <2>4
  <2> QED BY <2>5 DEF N, N1, m, r, r1
<1>4. CASE mtask.kind # "next"
  <2> DEFINE x == mtask.id
  <2>1. x \in Clients /\ mtask = Own(x) /\ results' = Sent(x)
    BY <1>1, <1>2, <1>4, KnownKinds DEF Clients
  <2> HIDE DEF x
  <2>2. \A c \in Clients : InMain(c) = One(c = x)
    BY <2>1, HandCounts DEF InMain
  <2>3. \A c \in Clients :
          Copies(c)' = Copies(c) - One(c = x) - One(c \in results) + One(c \in results')
    BY <1>3, <2>2 DEF InResults
  <2>4. Copies(x) >= 1 + One(x \in results)
    <3>1. InMain(x) = 1 /\ InWorker(x) \in Nat /\ InSlots(x) \in Nat
      BY <2>1, <2>2, Places DEF One
    <3>2. InMain(x) + InWorker(x) + InSlots(x) >= 1
      BY <3>1
    <3> QED BY <2>1, <3>2, HandHolds
  <2> QED BY <1>1, <1>2, <2>1, <2>3, <2>4, SendStep
<1>5. CASE mtask.kind = "next"
  <2>1. mtask = NextResponse /\ results' = results
    BY <1>1, <1>2, <1>5, KnownKinds
  <2>2. ASSUME NEW c \in Clients PROVE Copies(c)' = Copies(c)
    <3>1. InMain(c) = 0 /\ InResults(c)' = InResults(c)
      BY <2>1, HandCounts, Places DEF InMain
    <3>2. Copies(c) \in Nat /\ InResults(c) \in Nat
      BY Places, CopiesTerms DEF IInv, Basis
    <3> QED BY <1>3, <3>1, <3>2
  <2> QED BY <1>1, <1>2, <2>1, <2>2, MoveStep
<1> QED BY <1>4, <1>5

(* A read-only task is answered by the main thread, or the launch of a     *)
(* completion fails.                                                       *)
LEMMA HandleReadStep ==
    ASSUME IInv, HandleRead \/ LaunchFails
    PROVE  IInv'
<1>1. Answers
  BY DEF HandleRead, LaunchFails, Answers, queues, worker, sleep, helper
<1> QED BY <1>1, AnswersStep

(* A cancel task releases the slot of a client that is gone, if it has one.*)
LEMMA HandleCancelStep ==
    ASSUME IInv, HandleCancel
    PROVE  IInv'
<1> USE DEF queues, worker, sleep, response, main, helper
<1>1. /\ mpc = "handle" /\ mtask.kind = "cancel" /\ mpc' = "process" /\ mtask' = NoTask
      /\ UNCHANGED <<unhandled, running, sleeping, req_stop_sleeping, sleeps, stop, busy>>
      /\ UNCHANGED <<yielding, waiting, results, wpc, wtask, cpc>>
  BY DEF HandleCancel
<1>2. /\ queue \in Seq(Known) /\ deferred \in Seq(Jobs)
      /\ slot \in [Slots -> {Idle} \cup [id : Runners, left : 1 .. NDecode]]
  BY DEF IInv, Basis, QueueTypes, StateTypes
<1>3. mtask \in Known
  BY <1>1 DEF IInv, Basis, Control, QueueTypes
<1>4. PICK x \in Gone : x \in Clients /\ mtask.id = x /\ mtask = Task("cancel", x)
  BY <1>1, <1>3, KnownKinds DEF Gone
<1>5. \A c \in Clients : InMain(c) = 0 /\ InMain(c)' = 0
  BY <1>1, <1>4, HandCounts DEF InMain
<1>6. CASE \E s \in Slots : slot[s].id = x /\ Release(s)
  <2>1. PICK s \in Slots : /\ slot[s].id = x /\ slot' = [slot EXCEPT ![s] = Idle]
                           /\ pop_deferred_task(s) /\ notify_one
    BY <1>6 DEF Release
  <2>2. x \in Runners
    <3>1. slot[s] # Idle
      BY <1>4, <2>1, QueueAssumption DEF Idle
    <3> QED BY <1>2, <2>1, <3>1
  <2>3. slot' \in [Slots -> {Idle} \cup [id : Runners, left : 1 .. NDecode]]
    BY <1>2, <2>1
  <2>4. /\ queue' \in Seq(Known) /\ deferred' \in Seq(Jobs)
        /\ \A c \in Clients :
             /\ InQueue(c)' \in Nat /\ InDeferred(c)' \in Nat
             /\ InQueue(c)' + InDeferred(c)' = InQueue(c) + InDeferred(c)
    BY <2>1, PopDeferred
  <2>5. QueueTypes' /\ StateTypes' /\ Control'
    BY <1>1, <2>1, <2>3, <2>4, MainLetsGo
  <2>6. \A c \in Clients : InSlots(c)' \in Nat /\ InSlots(c) = InSlots(c)' + One(c = x)
    BY <2>1, <2>2, SlotFreed
  <2>7. ASSUME NEW c \in Clients PROVE Copies(c)' = Copies(c) - One(c = x)
    <3> DEFINE q == InQueue(c)  d == InDeferred(c)  u == InUnhandled(c)  m == InMain(c)
               w == InWorker(c)  k == InSlots(c)  r == InResults(c)  h == One(c = x)
               q1 == InQueue(c)'  d1 == InDeferred(c)'  k1 == InSlots(c)'  m1 == InMain(c)'
               N == Copies(c)  N1 == Copies(c)'
    <3>1. N1 = q1 + d1 + u + m1 + w + k1 + r
      BY <1>1, Places
    <3>2. N = q + d + u + m + w + k + r
      BY Places
    <3>3. /\ q \in Nat /\ d \in Nat /\ u \in Nat /\ m \in Nat /\ w \in Nat /\ k \in Nat
          /\ r \in Nat
      BY Places
    <3>4. m1 = 0 /\ m = 0
      BY <1>5
    <3>5. q1 \in Nat /\ d1 \in Nat /\ q1 + d1 = q + d
      BY <2>4
    <3>6. k1 \in Nat /\ k = k1 + h /\ h \in Nat
      BY <2>6 DEF One
    <3> HIDE DEF q, d, u, m, w, k, r, h, q1, d1, k1, m1, N, N1
    <3>7. N1 = N - h
      BY <3>1, <3>2, <3>3, <3>4, <3>5, <3>6
    <3> QED BY <3>7 DEF N, N1, h
  <2> QED BY <1>1, <2>5, <2>7, DropStep
<1>7. CASE UNCHANGED <<slot, queue, deferred, notified>>
  <2>1. QueueTypes' /\ StateTypes' /\ Control'
    BY <1>1, <1>2, <1>7, MainLetsGo
  <2>2. ASSUME NEW c \in Clients PROVE Copies(c)' = Copies(c)
    <3>1. InMain(c)' = InMain(c)
      BY <1>5
    <3> QED BY <1>1, <1>7, <3>1, Places
  <2> QED BY <1>1, <2>1, <2>2, MoveStep
<1> QED BY <1>4, <1>6, <1>7 DEF HandleCancel

(* update_slots posts NEXT_RESPONSE.                                       *)
LEMMA UpdateBusyStep ==
    ASSUME IInv, UpdateBusy
    PROVE  IInv'
<1> USE DEF queues, worker, sleep, response, main, helper
<1>1. /\ mpc = "update" /\ mpc' = "yield" /\ queue' = Append(queue, NextResponse) /\ notify_one
      /\ UNCHANGED <<deferred, unhandled, running, sleeping, req_stop_sleeping, sleeps, stop>>
      /\ UNCHANGED <<busy, yielding, slot, waiting, results, mtask, wpc, wtask, cpc>>
  BY DEF UpdateBusy
<1> DEFINE K == Known
           e == NextResponse
<1>2. queue \in Seq(K) /\ e \in K
  BY DEF IInv, Basis, QueueTypes, Known
<1> HIDE DEF K, e
<1>3. ASSUME NEW t
      PROVE  /\ <<e>> \o queue \in Seq(K) /\ Times(<<e>> \o queue, t) = Times(queue, t) + One(e = t)
             /\ Append(queue, e) \in Seq(K)
             /\ Times(Append(queue, e), t) = Times(queue, t) + One(e = t)
  BY <1>2, TimesPush
<1>4. queue' = Append(queue, e)
  BY <1>1 DEF e
<1>5. QueueTypes'
  <2>1. queue' \in Seq(Known)
    BY <1>3, <1>4 DEF K
  <2> QED BY <1>1, <2>1, KnownSame DEF IInv, Basis, QueueTypes, Jobs
<1>6. StateTypes'
  <2>1. notified' \subseteq Blocked
    BY <1>1, Notifies DEF IInv, Basis, StateTypes
  <2>2. Blocked \subseteq Blocked'
    BY <1>1 DEF Blocked
  <2> HIDE DEF Blocked
  <2> QED BY <1>1, <2>1, <2>2 DEF IInv, Basis, StateTypes, MainLabels
<1>7. Control'
  BY <1>1 DEF IInv, Basis, Control
<1>8. ASSUME NEW c \in Clients PROVE Copies(c)' = Copies(c)
  <2>1. One(e = Own(c)) = 0
    BY TaskFacts DEF e, One
  <2>2. Times(queue', Own(c)) = Times(queue, Own(c)) + 0 /\ Times(queue, Own(c)) \in Nat
    BY <1>2, <1>3, <1>4, <2>1, TimesType
  <2>3. InQueue(c)' = InQueue(c)
    BY <2>2 DEF InQueue
  <2> QED BY <1>1, <2>3, Places
<1> QED BY <1>1, <1>5, <1>6, <1>7, <1>8, MoveStep

(* The end of yield_to_queue: the declined tasks go back to the queue.     *)
LEMMA EndYieldStep ==
    ASSUME IInv, (WorkDone \/ Join) /\ ~busy
    PROVE  IInv'
<1> USE DEF queues, worker, sleep, response, main, helper
<1>1. /\ mpc \in {"work", "join"} /\ mpc' = "after" /\ queue' = unhandled \o queue
      /\ unhandled' = <<>> /\ ~busy /\ yielding' \in {FALSE, yielding}
      /\ UNCHANGED <<deferred, running, sleeping, req_stop_sleeping, sleeps, stop, busy>>
      /\ UNCHANGED <<slot, waiting, results, mtask, wpc, wtask, cpc>>
  BY DEF WorkDone, Join, EndYield, restored
<1>2. notified' \subseteq Blocked'
  <2>1. notified \subseteq Blocked
    BY DEF IInv, Basis, StateTypes
  <2>2. CASE WorkDone
    <3>1. mpc = "work" /\ notified' = notified \cup Blocked
      BY <2>2 DEF WorkDone, notify_all
    <3>2. Blocked \subseteq Blocked'
      BY <1>1, <3>1 DEF Blocked
    <3> QED BY <2>1, <3>1, <3>2
  <2>3. CASE Join
    <3>1. notified' = notified \ {"main"}
      BY <2>3 DEF Join, Consume
    <3>2. Blocked \subseteq Blocked' \cup {"main"}
      BY <1>1 DEF Blocked
    <3> QED BY <2>1, <3>1, <3>2
  <2> QED BY <2>2, <2>3
<1> DEFINE K == Known
<1>3. queue \in Seq(K) /\ unhandled \in Seq(K)
  BY DEF IInv, Basis, QueueTypes
<1> HIDE DEF K
<1>4. ASSUME NEW t
      PROVE  /\ unhandled \o queue \in Seq(K)
             /\ Times(unhandled \o queue, t) = Times(unhandled, t) + Times(queue, t)
  BY <1>3, TimesConcat
<1>5. QueueTypes'
  <2>1. queue' \in Seq(Known) /\ unhandled' \in Seq(Known)
    <3>1. queue' \in Seq(K)
      BY <1>1, <1>4
    <3>2. unhandled' \in Seq(K)
      BY <1>1
    <3> QED BY <3>1, <3>2 DEF K
  <2> QED BY <1>1, <2>1, KnownSame DEF IInv, Basis, QueueTypes, Jobs
<1>6. StateTypes'
  <2> HIDE DEF Blocked
  <2> QED BY <1>1, <1>2 DEF IInv, Basis, StateTypes, MainLabels
<1>7. Control'
  BY <1>1 DEF IInv, Basis, Control
<1>8. ASSUME NEW c \in Clients PROVE Copies(c)' = Copies(c)
  <2> DEFINE q == InQueue(c)  d == InDeferred(c)  u == InUnhandled(c)  m == InMain(c)
             w == InWorker(c)  k == InSlots(c)  r == InResults(c)
             q1 == InQueue(c)'  u1 == InUnhandled(c)'  N == Copies(c)  N1 == Copies(c)'
  <2>1. N1 = q1 + d + u1 + m + w + k + r
    BY <1>1, Places
  <2>2. N = q + d + u + m + w + k + r
    BY Places
  <2>3. q \in Nat /\ d \in Nat /\ u \in Nat /\ m \in Nat /\ w \in Nat /\ k \in Nat /\ r \in Nat
    BY Places
  <2>4. q1 = u + q
    BY <1>1, <1>4 DEF InQueue, InUnhandled
  <2>5. u1 = 0
    BY <1>1, TimesSmall DEF InUnhandled
  <2> HIDE DEF q, d, u, m, w, k, r, q1, u1, N, N1
  <2>6. N1 = N
    BY <2>1, <2>2, <2>3, <2>4, <2>5
  <2> QED BY <2>6 DEF N, N1
<1> QED BY <1>1, <1>5, <1>6, <1>7, <1>8, MoveStep

(* A slot that is done sends its result and is released.                   *)
LEMMA SlotDoneStep ==
    ASSUME IInv, NEW s \in Slots, SlotDone(s)
    PROVE  IInv'
<1> USE DEF queues, worker, sleep, response, main, helper
<1>1. /\ mpc = "after" /\ slot[s].left = 1 /\ slot' = [slot EXCEPT ![s] = Idle]
      /\ results' = Sent(slot[s].id) /\ pop_deferred_task(s) /\ notify_one
      /\ UNCHANGED <<unhandled, running, sleeping, req_stop_sleeping, sleeps, stop, busy>>
      /\ UNCHANGED <<yielding, waiting, mpc, mtask, wpc, wtask, cpc>>
  BY DEF SlotDone, Release
<1>2. slot \in [Slots -> {Idle} \cup [id : Runners, left : 1 .. NDecode]]
  BY DEF IInv, Basis, StateTypes
<1>3. PICK x \in Runners : slot[s].id = x /\ x \in Clients
  <2>1. slot[s] # Idle
    BY <1>1 DEF Idle
  <2> QED BY <1>2, <2>1 DEF Clients
<1>4. /\ queue' \in Seq(Known) /\ deferred' \in Seq(Jobs)
      /\ \A c \in Clients :
           /\ InQueue(c)' \in Nat /\ InDeferred(c)' \in Nat
           /\ InQueue(c)' + InDeferred(c)' = InQueue(c) + InDeferred(c)
  BY <1>1, PopDeferred
<1>5. \A c \in Clients : InSlots(c)' \in Nat /\ InSlots(c) = InSlots(c)' + One(c = x)
  BY <1>1, <1>3, SlotFreed
<1>6. QueueTypes'
  BY <1>1, <1>4, KnownSame DEF IInv, Basis, QueueTypes, Jobs
<1>7. StateTypes'
  <2>1. notified' \subseteq Blocked
    BY <1>1, Notifies DEF IInv, Basis, StateTypes
  <2>2. Blocked \subseteq Blocked'
    BY <1>1 DEF Blocked
  <2>3. slot' \in [Slots -> {Idle} \cup [id : Runners, left : 1 .. NDecode]]
    BY <1>1, <1>2
  <2> HIDE DEF Blocked
  <2> QED BY <1>1, <2>1, <2>2, <2>3 DEF IInv, Basis, StateTypes
<1>8. Control'
  BY <1>1 DEF IInv, Basis, Control
<1>9. ASSUME NEW c \in Clients
      PROVE  Copies(c)' = Copies(c) - One(c = x) - One(c \in results) + One(c \in results')
  <2> DEFINE q == InQueue(c)  d == InDeferred(c)  u == InUnhandled(c)  m == InMain(c)
             w == InWorker(c)  k == InSlots(c)  r == InResults(c)  h == One(c = x)
             q1 == InQueue(c)'  d1 == InDeferred(c)'  k1 == InSlots(c)'  r1 == InResults(c)'
             N == Copies(c)  N1 == Copies(c)'
  <2>1. N1 = q1 + d1 + u + m + w + k1 + r1
    BY <1>1, Places
  <2>2. N = q + d + u + m + w + k + r
    BY Places
  <2>3. q \in Nat /\ d \in Nat /\ u \in Nat /\ m \in Nat /\ w \in Nat /\ k \in Nat /\ r \in Nat
    BY Places
  <2>4. q1 \in Nat /\ d1 \in Nat /\ q1 + d1 = q + d
    BY <1>4
  <2>5. k1 \in Nat /\ k = k1 + h /\ h \in Nat /\ r1 \in Nat
    BY <1>5 DEF One, InResults
  <2> HIDE DEF q, d, u, m, w, k, r, h, q1, d1, k1, r1, N, N1
  <2>6. N1 = N - h - r + r1
    BY <2>1, <2>2, <2>3, <2>4, <2>5
  <2> QED BY <2>6 DEF N, N1, h, r, r1, InResults
<1>10. Copies(x) >= 1 + One(x \in results)
  <2>1. InMain(x) \in Nat /\ InWorker(x) \in Nat
    BY <1>3, Places
  <2> DEFINE k1 == InSlots(x)'
  <2>2. k1 \in Nat /\ InSlots(x) = k1 + 1
    BY <1>3, <1>5 DEF One
  <2> HIDE DEF k1
  <2>3. InMain(x) + InWorker(x) + InSlots(x) >= 1
    BY <2>1, <2>2
  <2> QED BY <1>3, <2>3, HandHolds
<1>11. results' = Sent(x)
  BY <1>1, <1>3
<1> QED BY <1>1, <1>3, <1>6, <1>7, <1>8, <1>9, <1>10, <1>11, SendStep

(* The other slots go on.                                                  *)
LEMMA SlotsGoOnStep ==
    ASSUME IInv, SlotsGoOn
    PROVE  IInv'
<1> USE DEF queues, worker, sleep, response, main, helper
<1>1. /\ mpc = "after" /\ (\A s \in Slots : slot[s].left # 1) /\ slot' = goneOn /\ mpc' = "wait"
      /\ UNCHANGED <<queue, deferred, unhandled, running, sleeping, req_stop_sleeping, sleeps>>
      /\ UNCHANGED <<stop, busy, yielding, waiting, results, mtask, wpc, wtask, cpc, notified>>
  BY DEF SlotsGoOn
<1>2. slot \in [Slots -> {Idle} \cup [id : Runners, left : 1 .. NDecode]]
  BY DEF IInv, Basis, StateTypes
<1>3. ASSUME NEW s \in Slots
      PROVE  /\ slot'[s] \in {Idle} \cup [id : Runners, left : 1 .. NDecode]
             /\ slot'[s].id = slot[s].id
  <2>1. slot'[s] = IF slot[s] = Idle THEN Idle ELSE [slot[s] EXCEPT !.left = @ - 1]
    BY <1>1 DEF goneOn
  <2>2. CASE slot[s] = Idle
    BY <2>1, <2>2
  <2>3. CASE slot[s] # Idle
    <3>1. slot[s] \in [id : Runners, left : 1 .. NDecode] /\ slot[s].left # 1
      BY <1>1, <1>2, <2>3
    <3>2. slot[s].left - 1 \in 1 .. NDecode
      BY <3>1, QueueAssumption
    <3> QED BY <2>1, <2>3, <3>1, <3>2
  <2> QED BY <2>2, <2>3
<1>4. slot' \in [Slots -> {Idle} \cup [id : Runners, left : 1 .. NDecode]]
  BY <1>1, <1>3 DEF goneOn
<1>5. QueueTypes' /\ Control'
  BY <1>1, KnownSame DEF IInv, Basis, QueueTypes, Control, Jobs
<1>6. StateTypes'
  <2>1. notified' \subseteq Blocked'
    BY <1>1 DEF IInv, Basis, StateTypes, Blocked
  <2> HIDE DEF Blocked
  <2> QED BY <1>1, <1>4, <2>1 DEF IInv, Basis, StateTypes, MainLabels
<1>7. ASSUME NEW c \in Clients PROVE Copies(c)' = Copies(c)
  <2>1. SlotsOf(c)' = SlotsOf(c)
    BY <1>3 DEF SlotsOf
  <2>2. InSlots(c)' = InSlots(c)
    BY <2>1 DEF InSlots
  <2> QED BY <1>1, <2>2, Places
<1> QED BY <1>1, <1>5, <1>6, <1>7, MoveStep

(* The worker answers a read-only task and declines any other.             *)
LEMMA WorkerHandleStep ==
    ASSUME IInv, WorkerHandle
    PROVE  IInv'
<1> USE DEF queues, worker, sleep, response, main, helper
<1>1. /\ wpc = "handle" /\ wpc' = "process" /\ wtask' = NoTask
      /\ UNCHANGED <<queue, deferred, running, sleeping, req_stop_sleeping, sleeps, stop, busy>>
      /\ UNCHANGED <<yielding, slot, waiting, mpc, mtask, cpc, notified>>
  BY DEF WorkerHandle
<1>2. wtask \in Known /\ unhandled \in Seq(Known)
  BY <1>1 DEF IInv, Basis, Control, QueueTypes
<1>3. StateTypes'
  BY <1>1 DEF IInv, Basis, StateTypes, WorkerLabels, Blocked
<1>4. Control'
  BY <1>1 DEF IInv, Basis, Control
<1>5. CASE wtask.kind = "info"
  <2>1. results' = Sent(wtask.id) /\ unhandled' = unhandled
    BY <1>5 DEF WorkerHandle
  <2>2. PICK x \in Clients : wtask = Own(x) /\ results' = Sent(x)
    BY <1>2, <1>5, <2>1, KnownKinds DEF Clients
  <2>3. QueueTypes'
    BY <1>1, <2>1, KnownSame DEF IInv, Basis, QueueTypes, Jobs
  <2>4. ASSUME NEW c \in Clients
        PROVE  Copies(c)' = Copies(c) - One(c = x) - One(c \in results) + One(c \in results')
    <3> DEFINE q == InQueue(c)  d == InDeferred(c)  u == InUnhandled(c)  m == InMain(c)
               w == InWorker(c)  k == InSlots(c)  r == InResults(c)  h == One(c = x)
               w1 == InWorker(c)'  r1 == InResults(c)'  N == Copies(c)  N1 == Copies(c)'
    <3>1. N1 = q + d + u + m + w1 + k + r1
      BY <1>1, <2>1, Places
    <3>2. N = q + d + u + m + w + k + r
      BY Places
    <3>3. /\ q \in Nat /\ d \in Nat /\ u \in Nat /\ m \in Nat /\ w \in Nat /\ k \in Nat
          /\ r \in Nat
      BY Places
    <3>4. w1 = 0 /\ w = h /\ r1 \in Nat
      BY <1>1, <2>2, HandCounts DEF InWorker, InResults, One
    <3> HIDE DEF q, d, u, m, w, k, r, h, w1, r1, N, N1
    <3>5. N1 = N - h - r + r1
      BY <3>1, <3>2, <3>3, <3>4
    <3> QED BY <3>5 DEF N, N1, h, r, r1, InResults
  <2>5. Copies(x) >= 1 + One(x \in results)
    <3>1. InWorker(x) = 1 /\ InMain(x) \in Nat /\ InSlots(x) \in Nat
      BY <2>2, Places DEF InWorker, One
    <3>2. InMain(x) + InWorker(x) + InSlots(x) >= 1
      BY <3>1
    <3> QED BY <3>2, HandHolds
  <2> QED BY <1>1, <1>3, <1>4, <2>2, <2>3, <2>4, <2>5, SendStep
<1>6. CASE wtask.kind # "info"
  <2>1. results' = results /\ unhandled' = Append(unhandled, wtask)
    BY <1>6 DEF WorkerHandle
  <2> DEFINE K == Known
             e == wtask
             f == unhandled
  <2>2. f \in Seq(K) /\ e \in K /\ unhandled' = Append(f, e)
    BY <1>2, <2>1
  <2> HIDE DEF K, e, f
  <2>3. ASSUME NEW t
        PROVE  /\ <<e>> \o f \in Seq(K) /\ Times(<<e>> \o f, t) = Times(f, t) + One(e = t)
               /\ Append(f, e) \in Seq(K) /\ Times(Append(f, e), t) = Times(f, t) + One(e = t)
    BY <2>2, TimesPush
  <2>4. QueueTypes'
    <3>1. unhandled' \in Seq(Known)
      BY <2>2, <2>3 DEF K
    <3> QED BY <1>1, <3>1, KnownSame DEF IInv, Basis, QueueTypes, Jobs
  <2>5. ASSUME NEW c \in Clients PROVE Copies(c)' = Copies(c)
    <3> DEFINE q == InQueue(c)  d == InDeferred(c)  u == InUnhandled(c)  m == InMain(c)
               w == InWorker(c)  k == InSlots(c)  r == InResults(c)
               w1 == InWorker(c)'  u1 == InUnhandled(c)'  N == Copies(c)  N1 == Copies(c)'
    <3>1. N1 = q + d + u1 + m + w1 + k + r
      BY <1>1, <2>1, Places
    <3>2. N = q + d + u + m + w + k + r
      BY Places
    <3>3. /\ q \in Nat /\ d \in Nat /\ u \in Nat /\ m \in Nat /\ w \in Nat /\ k \in Nat
          /\ r \in Nat
      BY Places
    <3>4. w1 = 0
      BY <1>1, HandCounts DEF InWorker
    <3>5. u1 = u + w
      BY <2>2, <2>3 DEF InUnhandled, InWorker, e, f
    <3> HIDE DEF q, d, u, m, w, k, r, w1, u1, N, N1
    <3>6. N1 = N
      BY <3>1, <3>2, <3>3, <3>4, <3>5
    <3> QED BY <3>6 DEF N, N1
  <2> QED BY <1>1, <1>3, <1>4, <2>1, <2>4, <2>5, MoveStep
<1> QED BY <1>5, <1>6

-----------------------------------------------------------------------------
(* The invariant and what follows from it.                                 *)

(* The server starts with empty queues and idle slots.                     *)
LEMMA InitInv == Init => IInv
<1> SUFFICES ASSUME Init PROVE IInv
  OBVIOUS
<1> USE DEF Init
<1>1. QueueTypes
  BY DEF QueueTypes
<1>2. StateTypes
  <2>1. slot \in [Slots -> {Idle} \cup [id : Runners, left : 1 .. NDecode]]
    OBVIOUS
  <2>2. sleeps \in 0 .. MaxSleeps
    BY QueueAssumption
  <2>3. cpc \in [Clients -> ClientLabels]
    BY DEF ClientLabels
  <2> QED BY <2>1, <2>2, <2>3 DEF StateTypes, MainLabels, WorkerLabels
<1>3. Control
  BY DEF Control
<1>4. Registered
  BY DEF Registered, ResultsHaveReader
<1>5. ASSUME NEW c \in Clients PROVE Copies(c) = 0 /\ cpc[c] = "start"
  <2>1. Times(queue, Own(c)) = 0 /\ Times(deferred, Own(c)) = 0 /\ Times(unhandled, Own(c)) = 0
    BY TimesSmall
  <2>2. One(mtask = Own(c)) = 0 /\ One(wtask = Own(c)) = 0 /\ One(c \in results) = 0
    BY HandCounts DEF One
  <2>3. SlotsOf(c) = {}
    BY QueueAssumption DEF SlotsOf, Idle
  <2>4. Cardinality(SlotsOf(c)) = 0
    BY <2>3, FS_EmptySet
  <2>5. Copies(c) = 0
    BY <2>1, <2>2, <2>4 DEF Copies
  <2> QED BY <2>5
<1>6. Accounted
  BY <1>5 DEF Accounted
<1> QED BY <1>1, <1>2, <1>3, <1>4, <1>6 DEF IInv, Basis

(* Every step of every thread keeps it.                                    *)
LEMMA InvStep == IInv /\ [Next]_vars => IInv'
<1> SUFFICES ASSUME IInv, [Next]_vars PROVE IInv'
  OBVIOUS
<1>1. ASSUME NEW c \in Clients, Client(c) \/ Leave(c) PROVE IInv'
  BY <1>1, ClientStep, PostStep, PostCancelStep DEF Client
<1>2. CASE Main
  <2>1. CASE MainPop
    BY <2>1, PopStep, MainPlainStep
  <2>2. CASE HandleRun
    BY <2>2, HandleRunStep
  <2>3. CASE HandleRead \/ LaunchFails
    BY <2>3, HandleReadStep
  <2>4. CASE HandleCancel
    BY <2>4, HandleCancelStep
  <2>5. CASE UpdateBusy
    BY <2>5, UpdateBusyStep
  <2>6. CASE WorkDone \/ Join
    BY <2>6, EndYieldStep, MainPlainStep
  <2>7. CASE \E s \in Slots : SlotDone(s)
    BY <2>7, SlotDoneStep
  <2>8. CASE SlotsGoOn
    BY <2>8, SlotsGoOnStep
  <2>9. CASE UpdateIdle \/ YieldToQueue \/ WaitOver \/ WakeUp \/ MainStop \/ MainExit
    BY <2>9, MainPlainStep
  <2> QED BY <1>2, <2>1, <2>2, <2>3, <2>4, <2>5, <2>6, <2>7, <2>8, <2>9 DEF Main
<1>3. CASE Worker
  <2>1. CASE WorkerPop /\ running /\ queue # <<>>
    BY <2>1, PopStep
  <2>2. CASE WorkerHandle
    BY <2>2, WorkerHandleStep
  <2>3. CASE \/ WorkerUnparks \/ (WorkerPop /\ (~running \/ queue = <<>>))
             \/ WorkerCheck \/ WorkerWakes \/ WorkerFinish
    BY <2>3, WorkerPlainStep
  <2> QED BY <1>3, <2>1, <2>2, <2>3 DEF Worker
<1>4. CASE GoToSleep \/ Terminate
  BY <1>4, MainPlainStep
<1>5. CASE UNCHANGED vars
  <2>1. StateTypes' /\ Control'
    BY <1>5 DEF vars, IInv, Basis, StateTypes, Control, Blocked
  <2> QED BY <1>5, <2>1, PlainStep DEF vars
<1> QED BY <1>1, <1>2, <1>3, <1>4, <1>5 DEF Next

(* The inductive invariant holds in every reachable state, whatever the    *)
(* threads' interleaving and whichever wake-ups are lost.                  *)
THEOREM QueueInvariant == Spec => []IInv
<1> QED BY InitInv, InvStep, PTL DEF Spec

(* Only LaunchFails refuses a completion.                                  *)
LEMMA RefusedStep ==
    ASSUME refused \subseteq Refusable, [Next]_vars
    PROVE  refused' \subseteq Refusable
<1>1. ASSUME NEW c \in Clients, Client(c) \/ Leave(c) PROVE UNCHANGED refused
  BY <1>1 DEF Client, Leave, WaitUntilNoSleep, NoSleepWakes, Poll, AddWaiting, Post, Recv, GiveUp,
              Stop, remove_waiting_task_id, PostCancel
<1>2. CASE Main
  BY <1>2 DEF Main, MainPop, HandleRun, LaunchFails, HandleRead, HandleCancel, UpdateIdle,
              UpdateBusy, YieldToQueue, WorkDone, Join, SlotDone, SlotsGoOn, WaitOver, WakeUp,
              MainStop, MainExit
<1>3. CASE Worker
  BY <1>3 DEF Worker, WorkerUnparks, WorkerPop, WorkerHandle, WorkerCheck, WorkerWakes,
              WorkerFinish
<1>4. CASE GoToSleep \/ Terminate \/ UNCHANGED vars
  BY <1>4 DEF GoToSleep, Terminate, vars
<1> QED BY <1>1, <1>2, <1>3, <1>4 DEF Next

(* Type correctness: the queues hold only tasks of known clients, a slot   *)
(* never counts below zero, and a wake-up is pending only for a thread     *)
(* that is blocked on condition_tasks.                                     *)
THEOREM QueueTypeCorrect == Spec => []TypeOK
<1> DEFINE R == refused \subseteq Refusable
<1>1. IInv /\ R => TypeOK
  <2> SUFFICES ASSUME IInv, R PROVE TypeOK
    OBVIOUS
  <2>1. Known \subseteq Tasks /\ Jobs \subseteq Tasks
    <3>1. Known \subseteq Tasks
      BY KnownKinds
    <3> QED BY <3>1 DEF Jobs, Known, Clients
  <2>2. {queue, deferred, unhandled} \subseteq Seq(Tasks)
    <3>1. Seq(Known) \subseteq Seq(Tasks) /\ Seq(Jobs) \subseteq Seq(Tasks)
      BY <2>1, SeqMonotonic
    <3> QED BY <3>1 DEF IInv, Basis, QueueTypes
  <2>3. InHand \subseteq Tasks
    BY <2>1 DEF IInv, Basis, QueueTypes, InHand
  <2>4. slot \in [Slots -> [id : Clients \cup {NoTask}, left : 0 .. NDecode]]
    <3>1. Idle \in [id : Clients \cup {NoTask}, left : 0 .. NDecode]
      BY QueueAssumption DEF Idle
    <3>2. [id : Runners, left : 1 .. NDecode] \subseteq
              [id : Clients \cup {NoTask}, left : 0 .. NDecode]
      BY QueueAssumption DEF Clients
    <3>3. slot \in [Slots -> {Idle} \cup [id : Runners, left : 1 .. NDecode]]
      BY DEF IInv, Basis, StateTypes
    <3> QED BY <3>1, <3>2, <3>3
  <2> QED BY <2>2, <2>3, <2>4
          DEF IInv, Basis, StateTypes, Registered, TypeOK, MainLabels, WorkerLabels, ClientLabels
<1>2. Init => R
  BY DEF Init
<1>3. R /\ [Next]_vars => R'
  BY RefusedStep
<1> HIDE DEF R
<1> QED BY <1>1, <1>2, <1>3, QueueInvariant, PTL DEF Spec

(* No task of a waiting client is lost or duplicated on its way through    *)
(* the queues, the threads' hands, the slots and the results, for any      *)
(* number of clients and slots.                                            *)
THEOREM QueueNothingLost == Spec => []NothingLost
<1>1. IInv => NothingLost
  BY DEF IInv, Accounted, NothingLost
<1> QED BY <1>1, QueueInvariant, PTL

(* Outside yield_to_queue the worker holds no task and none is set aside.  *)
THEOREM QueueWorkerOnlyInYield == Spec => []WorkerOnlyInYield
<1>1. IInv => WorkerOnlyInYield
  BY DEF IInv, Basis, Control, StateTypes, WorkerLabels, WorkerOnlyInYield
<1> QED BY <1>1, QueueInvariant, PTL

(* server_response never keeps a result that nobody will take.             *)
THEOREM QueueResultsHaveReader == Spec => []ResultsHaveReader
<1>1. IInv => ResultsHaveReader
  BY DEF IInv, Basis, Registered
<1> QED BY <1>1, QueueInvariant, PTL

=============================================================================
