----------------------------- MODULE MCExchange -----------------------------
(***************************************************************************)
(* Two users, of whom u2 has two keys: enough for two answers to meet.     *)
(***************************************************************************)
EXTENDS Exchange, TLC

CONSTANTS u1, u2, a, b, c, e1, p1, p2

MCHolder == (a :> u1) @@ (b :> u2) @@ (c :> u2)
=============================================================================
