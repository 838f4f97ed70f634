----------------------------- MODULE MCPairing -----------------------------
(***************************************************************************)
(* Two users with two key pairs each, so that either may initiate and a    *)
(* call may be repeated.                                                   *)
(***************************************************************************)
EXTENDS Pairing, TLC

CONSTANTS u1, u2, e1, e2, p1, p2

MCHolder == [k \in Keys |-> IF k <= 2 THEN u1 ELSE u2]
=============================================================================
