--------------------------- MODULE MCRegistration ---------------------------
(***************************************************************************)
(* Half = 4 stands for 2^63: clock values and lifetimes below 4 are usual  *)
(* ones; with lifetime 7 the expiry wraps around, once or twice.           *)
(***************************************************************************)
EXTENDS Registration, TLC

CONSTANTS t1, t2, u1, u2, u3, p1, p2

\* A max_uses of zero or less is accepted and makes a useless token.
MCLimits == {-1, 2}

\* Tokens, users and slots are interchangeable.
Symmetry == Permutations(TokenIds) \cup Permutations(UserIds)
              \cup Permutations(Procs)
=============================================================================
