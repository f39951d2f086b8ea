----------------------------- MODULE StreamLog -----------------------------
(***************************************************************************)
(* What a resumable stream promises: the output of one generation is a log *)
(* that only grows and is closed once, and a reader that attaches to it at *)
(* an offset receives the bytes from there on, in order, none twice, none  *)
(* left out and none that was not written.  Bytes are named by their       *)
(* place in the log (1, 2, ...), so len says all about its contents.       *)
(***************************************************************************)
EXTENDS Integers, Sequences

CONSTANTS Logs, Readers, MaxBytes, NoLog

VARIABLES len,     (* bytes ever written, per log                          *)
          closed,  (* the logs that take no more                           *)
          at,      (* the log a reader is attached to, or NoLog            *)
          from,    (* the offset it asked for                              *)
          got      (* the bytes it has received                            *)

vars == <<len, closed, at, from, got>>

Init ==
    /\ len = [l \in Logs |-> 0]
    /\ closed = {}
    /\ at   = [g \in Readers |-> NoLog]
    /\ from = [g \in Readers |-> 0]
    /\ got  = [g \in Readers |-> <<>>]

Grow(l) ==
    /\ l \notin closed
    /\ \E n \in len[l] + 1 .. MaxBytes : len' = [len EXCEPT ![l] = n]
    /\ UNCHANGED <<closed, at, from, got>>

Close(l) ==
    /\ l \notin closed
    /\ closed' = closed \cup {l}
    /\ UNCHANGED <<len, at, from, got>>

Attach(g, l) ==
    /\ at[g] = NoLog
    /\ at' = [at EXCEPT ![g] = l]
    /\ \E f \in 0 .. MaxBytes : from' = [from EXCEPT ![g] = f]
    /\ UNCHANGED <<len, closed, got>>

(* The next n bytes, n at least 1 and no more than were written.           *)
Deliver(g) ==
    /\ at[g] # NoLog
    /\ LET next == from[g] + Len(got[g])
       IN  \E n \in 1 .. len[at[g]] - next :
             got' = [got EXCEPT ![g] = @ \o [k \in 1 .. n |-> next + k]]
    /\ UNCHANGED <<len, closed, at, from>>

Next ==
    \/ \E l \in Logs : Grow(l) \/ Close(l)
    \/ \E g \in Readers : Deliver(g) \/ \E l \in Logs : Attach(g, l)

Spec == Init /\ [][Next]_vars

=============================================================================
