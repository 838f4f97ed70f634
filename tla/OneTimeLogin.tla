---------------------------- MODULE OneTimeLogin ----------------------------
(***************************************************************************)
(* What a challenge-response login promises, whatever the server keeps in  *)
(* memory: a nonce is offered to one user; it is good for at most one      *)
(* token; the token goes to a device of that user, and only if the key of  *)
(* that very device signed the nonce.                                      *)
(***************************************************************************)
CONSTANTS Users, Devices, Owner, Nonces, Attempts, None

VARIABLES
  offered,  \* the user each nonce was made for, or None
  signed,   \* pairs of a nonce and a device whose key signed it
  granted   \* each token: its nonce, its device, the attempt that asked for it

vars == <<offered, signed, granted>>

Init == offered = [n \in Nonces |-> None] /\ signed = {} /\ granted = {}

\* A nonce is made for u, and the key of k signs it, or a key of no device.
Offer(n, u, k) ==
  /\ offered[n] = None
  /\ offered' = [offered EXCEPT ![n] = u]
  /\ signed' = signed \cup {<<n, k>>}
  /\ granted' = granted

\* A device of the user gets its token, in answer to attempt a.
Grant(n, d, a) ==
  /\ offered[n] = Owner[d]
  /\ <<n, d>> \in signed
  /\ \A g \in granted : g[1] # n
  /\ granted' = granted \cup {<<n, d, a>>}
  /\ UNCHANGED <<offered, signed>>

Next ==
  \E n \in Nonces :
    \/ \E u \in Users, k \in Devices \cup {None} : Offer(n, u, k)
    \/ \E d \in Devices, a \in Attempts : Grant(n, d, a)

Spec == Init /\ [][Next]_vars
=============================================================================
