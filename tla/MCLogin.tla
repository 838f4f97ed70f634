------------------------------- MODULE MCLogin -------------------------------
(***************************************************************************)
(* A user with a device, a user without, and settings that come from the   *)
(* file, from the environment, or are incomplete.                          *)
(***************************************************************************)
EXTENDS Login, TLC

CONSTANTS u1, u2, d1, n1, n2, a1, a2, key, admin, padded

MCOwner == [d \in Devices |-> u1]

\* padded is admin with a leading zero.
MCParsed == [v \in Values |-> IF v = padded THEN admin ELSE v]

Source(k, a) == [s \in Setting |-> IF s = "signing_key" THEN k ELSE a]

\* Complete in the file; overridden by the environment with an empty signing
\* key and a number; no admin key; no signing key; one that does not decode.
MCSources ==
  { [file |-> Source(key, admin), env |-> Source(None, None)],
    [file |-> Source(key, Empty), env |-> Source(Empty, padded)],
    [file |-> Source(key, None), env |-> Source(None, None)],
    [file |-> Source(None, admin), env |-> Source(None, None)],
    [file |-> Source(Bad, admin), env |-> Source(None, None)] }
=============================================================================
