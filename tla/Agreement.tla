----------------------------- MODULE Agreement -----------------------------
(***************************************************************************)
(* What a key exchange promises the two ends of it, whatever is stored or  *)
(* sent in between: the first end to settle fixes the value, and the       *)
(* other end settles with the same one or not at all.                      *)
(***************************************************************************)
CONSTANTS Ids, Roles, Values

VARIABLE settled  \* per exchange, the ends that have settled and their value

Init == settled = [id \in Ids |-> {}]

Settle(id, role, s) ==
  /\ \A x \in settled[id] : x[2] = s
  /\ settled' = [settled EXCEPT ![id] = @ \cup {<<role, s>>}]

Next ==
  \E id \in Ids :
    /\ settled'[id] # settled[id]
    /\ \E role \in Roles, s \in Values : Settle(id, role, s)

Spec == Init /\ [][Next]_settled
=============================================================================
