------------------------------ MODULE MCAccess ------------------------------
(***************************************************************************)
(* Instances of Access for TLC.  register() creates one device per user,   *)
(* so d1 is u1's and d2 is u2's; where only u1 is registered, u2 is a      *)
(* peer_id that names no user, which create() accepts.                     *)
(***************************************************************************)
EXTENDS Access, TLC

CONSTANTS u1, u2, d1, d2, t1, n1, n2, r1, r2, p1, p2

MCOwner == [d \in Devices |-> IF d = d1 THEN u1 ELSE u2]
MCNotify == [u \in Users |-> IF u = u1 THEN n1 ELSE n2]

\* u1 grants itself t1 in a relationship with u2.
MCGrants == {[user_id |-> u1, peer_id |-> u2, subscribe_topics |-> {t1}]}

\* Request slots are interchangeable.
SlotSymmetry == Permutations(Procs)
=============================================================================
