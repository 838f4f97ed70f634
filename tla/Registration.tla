---------------------------- MODULE Registration ----------------------------
(***************************************************************************)
(* POST /register under each registration mode, and the registration       *)
(* tokens an administrator hands out (POST /admin/registration-tokens).    *)
(*                                                                         *)
(* register() spends the token first, then looks at the public key, then   *)
(* inserts the user and, in a second statement, the device; it runs in no  *)
(* transaction, so a fault or a bad key leaves what was done before it.    *)
(***************************************************************************)
EXTENDS Integers, FiniteSets

CONSTANTS
  Modes,      \* registration modes to consider
  TokenIds,   \* registration tokens, each with its own hash
  Lifetimes,  \* values of expires_in an administrator may send (u64)
  Limits,     \* values of max_uses an administrator may send (i64)
  Half,       \* 2^63: i64 ranges over -Half .. Half - 1
  UserIds,    \* fresh UUIDs for users
  Procs,      \* request slots
  None,       \* model value: no value
  MaxNow,     \* bound on the clock
  MaxFaults   \* bound on crashes, dropped requests and database errors

\* asked is history: when the administrator meant the token to end.
Token == [expires_at : Int, max_uses : Int, uses : Nat, asked : Nat]

ASSUME RegistrationAssumption ==
  /\ Modes \subseteq {"open", "closed", "push", "hook"}
  /\ Half \in Nat \ {0}
  /\ Lifetimes \subseteq 0 .. 2 * Half - 1
  /\ Limits \subseteq -Half .. Half - 1
  /\ MaxNow \in Nat /\ MaxNow < Half /\ MaxFaults \in Nat
  /\ IsFiniteSet(Procs)
  /\ None \notin TokenIds \cup UserIds /\ None \notin Token

VARIABLES
  now,      \* unix_now()
  mode,     \* config.registration, fixed for the life of the process
  tokens,   \* the registration_tokens table
  users,    \* user_ids of the users table
  devices,  \* devices table: how many rows each user_id has
  task,     \* the register() in flight in each slot
  faults,   \* faults so far
  payer,    \* history: the token whose use a user was created with, or None
  wasted,   \* history: uses of each token that created no user
  orphans   \* history: users whose register() stopped before the device

vars == <<now, mode, tokens, users, devices, task, faults, payer, wasted,
          orphans>>

-----------------------------------------------------------------------------
\* (unix_now() + expires_in) as i64, in a build that wraps on overflow.
AsI64(n) == LET m == n % (2 * Half) IN IF m < Half THEN m ELSE m - 2 * Half

Stage == {"idle", "consume", "hook", "key", "user", "device"}

\* key tells whether the public key sent is a valid Ed25519 key; at is the
\* clock consume_registration_token has read.
Task == [pc : Stage, tok : TokenIds \cup {None}, key : {"good", "bad"},
         user : UserIds \cup {None}, at : Nat]

Idle == [pc |-> "idle", tok |-> None, key |-> "bad", user |-> None, at |-> 0]

Go(p, t) == task' = [task EXCEPT ![p] = t]

\* register() in slot p has spent a use of token t and created no user yet.
Spent(p, t) == task[p].tok = t /\ task[p].pc \in {"key", "user"}

\* The slots in S give up, and with them the uses they have spent.
Waste(S) ==
  wasted' = [t \in TokenIds |->
               wasted[t] + Cardinality({p \in S : Spent(p, t)})]

-----------------------------------------------------------------------------
Insert(t, e, m, uses) ==
  /\ tokens[t] = None
  /\ tokens' = [tokens EXCEPT ![t] =
                  [expires_at |-> AsI64(now + e), max_uses |-> m,
                   uses |-> uses, asked |-> now + e]]
  /\ UNCHANGED <<now, mode, users, devices, task, faults, payer, wasted,
                 orphans>>

\* Mutant of CreateToken: the uses that are left are counted, not those made.
CreateTokenCountdown(t, e, m) == Insert(t, e, m, -m)

\* POST /admin/registration-tokens with the admin key.
CreateToken(t, e, m) == Insert(t, e, m, 0)

\* register() looks at the policy; a closed server refuses, and in push mode a
\* token must be sent (one nobody created is refused by the next step).
RegisterBegin(p, t, k) ==
  LET new == [Idle EXCEPT !.key = k, !.at = now] IN
  /\ task[p].pc = "idle"
  /\ \/ mode = "open" /\ t = None /\ Go(p, [new EXCEPT !.pc = "key"])
     \/ mode = "hook" /\ t = None /\ Go(p, [new EXCEPT !.pc = "hook"])
     \/ mode = "push" /\ t # None
        /\ Go(p, [new EXCEPT !.pc = "consume", !.tok = t])
  /\ UNCHANGED <<now, mode, tokens, users, devices, faults, payer, wasted,
                 orphans>>

\* Mutants of Valid: one use too many; a token is still good in the second in
\* which it expires.
ValidOnceMore(t, at) ==
  /\ tokens[t] # None
  /\ tokens[t].uses <= tokens[t].max_uses
  /\ tokens[t].expires_at > at
ValidAtExpiry(t, at) ==
  /\ tokens[t] # None
  /\ tokens[t].uses < tokens[t].max_uses
  /\ tokens[t].expires_at >= at

\* The WHERE clause of consume_registration_token.
Valid(t, at) ==
  /\ tokens[t] # None
  /\ tokens[t].uses < tokens[t].max_uses
  /\ tokens[t].expires_at > at

\* The UPDATE either counts a use or matches no row.
Consume(p) ==
  LET t == task[p].tok IN
  /\ task[p].pc = "consume"
  /\ IF Valid(t, task[p].at)
     THEN /\ tokens' = [tokens EXCEPT ![t].uses = @ + 1]
          /\ Go(p, [task[p] EXCEPT !.pc = "key"])
     ELSE /\ tokens' = tokens
          /\ Go(p, Idle)
  /\ UNCHANGED <<now, mode, users, devices, faults, payer, wasted, orphans>>

\* validate_via_hook: the answer of the configured URL decides.
HookAnswers(p, allowed) ==
  /\ task[p].pc = "hook"
  /\ Go(p, IF allowed THEN [task[p] EXCEPT !.pc = "key"] ELSE Idle)
  /\ UNCHANGED <<now, mode, tokens, users, devices, faults, payer, wasted,
                 orphans>>

\* The public key is decoded and checked.
CheckKey(p) ==
  /\ task[p].pc = "key"
  /\ IF task[p].key = "good"
     THEN Go(p, [task[p] EXCEPT !.pc = "user"]) /\ wasted' = wasted
     ELSE Go(p, Idle) /\ Waste({p})
  /\ UNCHANGED <<now, mode, tokens, users, devices, faults, payer, orphans>>

\* Mutant of CreateUser: the device row is forgotten.
CreateUserOnly(p, u) ==
  /\ task[p].pc = "user"
  /\ u \notin users
  /\ users' = users \cup {u}
  /\ payer' = [payer EXCEPT ![u] = task[p].tok]
  /\ Go(p, Idle)
  /\ UNCHANGED <<now, mode, tokens, devices, faults, wasted, orphans>>

\* db::create_user ...
CreateUser(p, u) ==
  /\ task[p].pc = "user"
  /\ u \notin users
  /\ users' = users \cup {u}
  /\ payer' = [payer EXCEPT ![u] = task[p].tok]
  /\ Go(p, [task[p] EXCEPT !.pc = "device", !.user = u])
  /\ UNCHANGED <<now, mode, tokens, devices, faults, wasted, orphans>>

\* ... and db::create_device.
CreateDevice(p) ==
  /\ task[p].pc = "device"
  /\ devices' = [devices EXCEPT ![task[p].user] = @ + 1]
  /\ Go(p, Idle)
  /\ UNCHANGED <<now, mode, tokens, users, faults, payer, wasted, orphans>>

-----------------------------------------------------------------------------
Fault == faults < MaxFaults /\ faults' = faults + 1

Orphaned(S) == {task[p].user : p \in {q \in S : task[q].pc = "device"}}

\* The request is dropped, or the next database or hook call fails.
Cancel(p) ==
  /\ task[p].pc # "idle"
  /\ Fault
  /\ Go(p, Idle)
  /\ Waste({p})
  /\ orphans' = orphans \cup Orphaned({p})
  /\ UNCHANGED <<now, mode, tokens, users, devices, payer>>

\* The process stops and starts again.
Crash ==
  /\ Fault
  /\ task' = [p \in Procs |-> Idle]
  /\ Waste(Procs)
  /\ orphans' = orphans \cup Orphaned(Procs)
  /\ UNCHANGED <<now, mode, tokens, users, devices, payer>>

Tick ==
  /\ now < MaxNow
  /\ now' = now + 1
  /\ UNCHANGED <<mode, tokens, users, devices, task, faults, payer, wasted,
                 orphans>>

Init ==
  /\ now = 0
  /\ mode \in Modes
  /\ tokens = [t \in TokenIds |-> None]
  /\ users = {}
  /\ devices = [u \in UserIds |-> 0]
  /\ task = [p \in Procs |-> Idle]
  /\ faults = 0
  /\ payer = [u \in UserIds |-> None]
  /\ wasted = [t \in TokenIds |-> 0]
  /\ orphans = {}

Next ==
  \/ \E t \in TokenIds, e \in Lifetimes, m \in Limits : CreateToken(t, e, m)
  \/ \E p \in Procs :
       \/ \E t \in TokenIds \cup {None}, k \in {"good", "bad"} :
            RegisterBegin(p, t, k)
       \/ Consume(p)
       \/ \E allowed \in BOOLEAN : HookAnswers(p, allowed)
       \/ CheckKey(p)
       \/ \E u \in UserIds : CreateUser(p, u)
       \/ CreateDevice(p)
       \/ Cancel(p)
  \/ Crash
  \/ Tick

Spec == Init /\ [][Next]_vars

-----------------------------------------------------------------------------
\* Every variable has the type its table or handler gives it.
TypeOK ==
  /\ now \in Nat
  /\ mode \in Modes
  /\ tokens \in [TokenIds -> Token \cup {None}]
  /\ users \subseteq UserIds
  /\ devices \in [UserIds -> Nat]
  /\ task \in [Procs -> Task]
  /\ faults \in 0 .. MaxFaults
  /\ payer \in [UserIds -> TokenIds \cup {None}]
  /\ wasted \in [TokenIds -> Nat]
  /\ orphans \subseteq UserIds

\* What the administrator has handed out: a limit of zero or less is no use.
Limit(t) == IF tokens[t] # None /\ tokens[t].max_uses > 0
            THEN tokens[t].max_uses ELSE 0

\* Where the uses of token t have gone.
Paid(t) == Cardinality({u \in users : payer[u] = t})
Held(t) == Cardinality({p \in Procs : Spent(p, t)})

\* In push mode every account is paid for by a use of a token, and however many
\* register() calls race for the last use, no token pays for more than it was
\* made for: the users it paid for, the register() calls that have spent a use
\* and the uses that came to nothing fit into max_uses.
UsersPaidFor ==
  /\ mode = "push" => \A u \in users : payer[u] # None
  /\ \A t \in TokenIds : Paid(t) + Held(t) + wasted[t] <= Limit(t)

\* The step of slot p counts a use of its token, or turns it away.
Counts(p) == task[p].pc = "consume" /\ task'[p].pc = "key"
TurnsAway(p) ==
  task[p].pc = "consume" /\ task'[p].pc = "idle" /\ faults' = faults

\* A token lasts exactly as long as the administrator asked, though register()
\* compares a clock it read earlier with a sum that may wrap around.  Every use
\* counted belongs to a register() that read the clock before the end asked
\* for; and one that is turned away had no such token, came when its uses were
\* spent or its end had passed, or met a token whose end does not fit an i64,
\* the only kind that is dead before its time.
TokensLastAsAsked ==
  [][/\ \A t \in TokenIds :
          tokens[t] # None /\ tokens'[t] # tokens[t] =>
            \E p \in Procs : Counts(p) /\ task[p].tok = t
                               /\ task[p].at < tokens[t].asked
     /\ \A p \in Procs :
          LET t == task[p].tok IN
          TurnsAway(p) => \/ tokens[t] = None
                          \/ tokens[t].uses >= tokens[t].max_uses
                          \/ tokens[t].asked <= task[p].at
                          \/ tokens[t].asked >= Half]_vars

\* kick_user finds connections through the devices table, and no request adds
\* a device later: a user has exactly one device, unless its register() is
\* still running or was cut short between the two INSERTs.
OneDevicePerUser ==
  \A u \in UserIds :
    /\ devices[u] <= 1
    /\ u \in users /\ devices[u] = 0 =>
         u \in orphans \/ \E p \in Procs : task[p].user = u
    /\ devices[u] > 0 => u \in users
=============================================================================
