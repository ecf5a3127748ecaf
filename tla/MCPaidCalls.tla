----------------------------- MODULE MCPaidCalls -----------------------------
(* Three paid calls, two of them strict and of one user, and one that pays   *)
(* nothing.                                                                  *)
EXTENDS PaidCalls

CONSTANTS c1, c2, c3, c4, u1, u2

MCUserOf == [c \in Call |-> IF c \in {c2, c3} THEN u2 ELSE u1]
=============================================================================
