-------------------------- MODULE MCStreamSession --------------------------
(* Two POSTs, a replay and a DELETE of one conversation.                   *)
EXTENDS StreamSession, TLC

CONSTANTS r1, r2, g1, d1, c1

MCConvOf == [x \in Requests \cup Readers \cup Deleters |-> c1]

MCOutput == r1 :> 3 @@ r2 :> 1

=============================================================================
