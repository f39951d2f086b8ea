--------------------------- MODULE MCServerQueue ---------------------------
(***************************************************************************)
(* ServerQueue for TLC: one slot or two, completions that ask for a slot   *)
(* and ones that do not, and a metrics poller.                             *)
(***************************************************************************)
EXTENDS ServerQueue

CONSTANTS r1, r2, r3, p1, s1, s2

WantAny == [c \in Runners |-> NoSlot]
WantOne == [c \in Runners |-> IF c = r1 THEN s1 ELSE NoSlot]
=============================================================================
