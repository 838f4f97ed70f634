------------------------------- MODULE Access -------------------------------
(***************************************************************************)
(* Who may be connected to the SMQTT broker, and with which topics.        *)
(*                                                                         *)
(* The REST handlers that change permissions (verify, create, revoke,      *)
(* suspend, unsuspend), the broker's auth hook and kick_user all run as    *)
(* tokio tasks over one SQLite database and one in-memory session table.   *)
(* Every .await on the database or on rmqtt lets another task run, so a    *)
(* handler is a sequence of actions of one request slot p \in Procs.  An   *)
(* action ends at an await whose result the handler still has to use;      *)
(* awaits that only read tables this module never changes (devices) are    *)
(* folded into the neighbouring step.                                      *)
(*                                                                         *)
(* A refused request changes nothing and is a stuttering step: the guard   *)
(* of an action is the code's condition for going on.  The pop of the      *)
(* challenge that precedes a verify is not modelled here; any device may   *)
(* start a verify at any time, since challenge() serves any known user.    *)
(***************************************************************************)
EXTENDS Integers, FiniteSets

CONSTANTS
  Users,      \* registered users
  Names,      \* strings a client may send as a peer_id; create() checks none
  Devices,    \* registered devices; a device_id is also an MQTT client_id
  Owner,      \* the devices table: device |-> user
  Topics,     \* MQTT topic names
  Notify,     \* notification topic of each user
  Grants,     \* contents of the relationship rows that clients may create
  Rels,       \* relationship ids (fresh UUIDs)
  Procs,      \* request slots: how many handlers can be in flight at once
  Ttl,        \* jwt.ttl_seconds
  Leeway,     \* grace jsonwebtoken grants after exp
  None, Gone, \* model values: no value, a deleted row
  MaxNow,     \* bound on the clock
  MaxTokens,  \* bound on the JWTs issued
  MaxClosing, \* bound on disconnect hooks that have not run yet
  MaxFaults   \* bound on crashes, dropped requests and database errors

ASSUME AccessAssumption ==
  /\ Users \subseteq Names
  /\ Owner \in [Devices -> Users]
  /\ Notify \in [Users -> Topics]
  /\ Grants \subseteq [user_id : Users, peer_id : Names,
                       subscribe_topics : SUBSET Topics]
  /\ None \notin Names /\ None \notin Grants /\ Gone \notin Grants
  /\ None # Gone
  /\ Ttl \in Nat /\ Leeway \in Nat
  /\ MaxNow \in Nat /\ MaxFaults \in Nat

VARIABLES
  now,                \* unix_now(), whole seconds
  suspended,          \* users.suspended
  tokens_valid_from,  \* users.tokens_valid_from
  rels,               \* the relationships table
  tokens,             \* every JWT issued; clients may present any of them
  sessions,           \* AppState.sessions: client_id |-> claims
  conn,               \* rmqtt: the token that admitted the live connection
  subs,               \* rmqtt: topics that connection is subscribed to
  closing,            \* rmqtt: ended connections whose hook has not run
  task,               \* the handler in flight in each slot
  faults,             \* faults so far
  missed,             \* history: admissions in flight when a kick passed by
  raced,              \* history: devices connected by such an admission
  abandoned,          \* history: users whose last kick was cut short
  overtaken           \* history: kicks that hold a clock while another kick of
                      \* the same user has stored its own

db == <<suspended, tokens_valid_from, rels>>
broker == <<sessions, conn, subs, closing>>
history == <<missed, raced, abandoned, overtaken>>
vars == <<now, db, tokens, broker, task, faults, history>>

-----------------------------------------------------------------------------
(* Data.  pub_topics is left out of Claims: nothing in the code reads it.  *)

Claims == [sub : Users, dev : Devices, iat : Nat, exp : Nat,
           sub_topics : SUBSET Topics]

\* Where a handler stands: v_ verify, a_ authenticate, r_ revoke, k_ kick_user.
Stage == {"idle", "v_topics", "v_issue", "a_insert", "a_register",
          "r_delete", "k_clock", "k_update", "k_kick"}

Task == [pc : Stage,
         user : Names \cup {None},     \* the user the step is about
         peer : Names \cup {None},     \* the user kick_user is called for next
         dev : Devices \cup {None},
         rel : Rels \cup {None},
         token : Claims \cup {None},
         topics : SUBSET Topics,       \* read by user_topics
         at : Nat,                     \* the clock invalidate_tokens read
         left : SUBSET Devices]        \* devices kick_user has still to kick

Idle == [pc |-> "idle", user |-> None, peer |-> None, dev |-> None,
         rel |-> None, token |-> None, topics |-> {}, at |-> 0, left |-> {}]

DevicesOf(u) == {d \in Devices : Owner[d] = u}

\* db::list_relationships.
Rows(u) == {r \in Rels : rels[r] \in Grants /\ rels[r].user_id = u}

\* db::get_relationship finds a row, if it is the user's.
GetRelationship(u, r) == r \in Rows(u)

\* db::user_topics, the subscribe half.
UserTopics(u) == UNION {rels[r].subscribe_topics : r \in Rows(u)}

\* What verify() would put in a token of u now.
Permitted(u) == UserTopics(u) \cup {Notify[u]}

\* db::get_user finds the user (users are never deleted) and it may log in.
Active(u) == ~suspended[u]

\* JwtKeys::verify: the signature holds for every issued token, exp may not be
\* further back than the leeway of the jsonwebtoken library.
Unexpired(c) == now <= c.exp + Leeway

\* The extractor of the REST API is content with that: neither the suspended
\* flag nor tokens_valid_from is asked.
AuthUser(c) == Unexpired(c)

Set(p, t) == task' = [task EXCEPT ![p] = t]

\* The auth hook has accepted p's token and rmqtt has not yet registered it.
Admitting(p) == task[p].pc \in {"a_insert", "a_register"}

\* p is somewhere in kick_user.
Kicking(p) == task[p].pc \in {"k_clock", "k_update", "k_kick"}

-----------------------------------------------------------------------------
(* POST /auth/verify, after the challenge has been popped. *)

\* The user is not suspended and the device is one of the user's.
VerifyBegin(p, u, d) ==
  /\ task[p].pc = "idle"
  /\ Cardinality(tokens) < MaxTokens
  /\ Active(u)
  /\ d \in DevicesOf(u)
  /\ Set(p, [Idle EXCEPT !.pc = "v_topics", !.user = u, !.dev = d])
  /\ UNCHANGED <<now, db, tokens, broker, faults, history>>

\* The relationship rows are read ...
VerifyTopics(p) ==
  /\ task[p].pc = "v_topics"
  /\ Set(p, [task[p] EXCEPT !.pc = "v_issue",
                            !.topics = Permitted(task[p].user)])
  /\ UNCHANGED <<now, db, tokens, broker, faults, history>>

\* The token the handler in slot p signs if it dates it back by s seconds.
TokenOf(p, s) == [sub |-> task[p].user, dev |-> task[p].dev, iat |-> now - s,
                  exp |-> now + Ttl, sub_topics |-> task[p].topics]

Issue(p, c) ==
  /\ task[p].pc = "v_issue"
  /\ tokens' = tokens \cup {c}
  /\ Set(p, Idle)
  /\ UNCHANGED <<now, db, broker, faults, history>>

\* Mutant: iat is dated back for clients whose clock is behind.
VerifyIssueBackdated(p) == Issue(p, TokenOf(p, 2))

\* ... and the token is signed, with the clock of this later moment.
VerifyIssue(p) == Issue(p, TokenOf(p, 0))

-----------------------------------------------------------------------------
(* The broker's hooks and, between them, rmqtt's own steps. *)

\* The auth hook lets a client in that presents token c under client id x.
Accept(p, x, c) ==
  /\ task[p].pc = "idle"
  /\ closing[x] < MaxClosing
  /\ Unexpired(c)
  /\ Set(p, [Idle EXCEPT !.pc = "a_insert", !.dev = x, !.token = c])
  /\ missed' = missed \ {p}
  /\ UNCHANGED <<now, db, tokens, broker, faults, raced, abandoned, overtaken>>

\* Mutants of ConnectRead: a check of authenticate() is forgotten.
ConnectReadAnyClientId(p, x, c) ==
  Accept(p, x, c) /\ Active(c.sub) /\ c.iat >= tokens_valid_from[c.sub]
ConnectReadSuspended(p, x, c) ==
  Accept(p, x, c) /\ x = c.dev /\ c.iat >= tokens_valid_from[c.sub]
ConnectReadAnyAge(p, x, c) ==
  Accept(p, x, c) /\ x = c.dev /\ Active(c.sub)

\* SmqttAuthHandler::authenticate up to the comparison with the user row.
ConnectRead(p, x, c) ==
  /\ Accept(p, x, c)
  /\ x = c.dev
  /\ Active(c.sub)
  /\ c.iat >= tokens_valid_from[c.sub]

\* The hook resumes after get_user and records the claims.
ConnectInsert(p) ==
  /\ task[p].pc = "a_insert"
  /\ sessions' = [sessions EXCEPT ![task[p].dev] = task[p].token]
  /\ Set(p, [task[p] EXCEPT !.pc = "a_register"])
  /\ UNCHANGED <<now, db, tokens, conn, subs, closing, faults, history>>

\* rmqtt registers the connection under its client id, ending the one that
\* held the id; from here on kick_user can find it.
ConnectRegister(p) ==
  LET d == task[p].dev IN
  /\ task[p].pc = "a_register"
  /\ conn' = [conn EXCEPT ![d] = task[p].token]
  /\ closing' = [closing EXCEPT ![d] = IF conn[d] = None THEN @ ELSE @ + 1]
  /\ subs' = [subs EXCEPT ![d] = {}]
  /\ raced' = IF p \in missed THEN raced \cup {d} ELSE raced \ {d}
  /\ Set(p, Idle)
  /\ missed' = missed \ {p}
  /\ UNCHANGED <<now, db, tokens, sessions, faults, abandoned, overtaken>>

\* check_subscribe_acl asks the session table, not the connection.
Subscribe(d, t) ==
  /\ conn[d] # None
  /\ sessions[d] # None
  /\ t \in sessions[d].sub_topics
  /\ subs' = [subs EXCEPT ![d] = @ \cup {t}]
  /\ UNCHANGED <<now, db, tokens, sessions, conn, closing, task, faults,
                 history>>

\* A connection of d ends; its ClientDisconnected hook is still to run.
EndConnection(d) ==
  /\ conn' = [conn EXCEPT ![d] = None]
  /\ subs' = [subs EXCEPT ![d] = {}]
  /\ closing' = [closing EXCEPT ![d] = IF conn[d] = None THEN @ ELSE @ + 1]

\* The client leaves or loses its network.
Disconnect(d) ==
  /\ conn[d] # None
  /\ EndConnection(d)
  /\ UNCHANGED <<now, db, tokens, sessions, task, faults, history>>

\* ClientDisconnected drops whatever the table holds for the client id.
DisconnectedHook(d) ==
  /\ closing[d] > 0
  /\ closing' = [closing EXCEPT ![d] = @ - 1]
  /\ sessions' = [sessions EXCEPT ![d] = None]
  /\ UNCHANGED <<now, db, tokens, conn, subs, task, faults, history>>

-----------------------------------------------------------------------------
(* broker::kick_user(user), called by suspend_user once and by revoke twice. *)

\* Mutant: revoke() forgets the second kick_user.
AfterKickCallerOnly(t) == Idle

\* The caller goes on with the next kick_user, or returns.
AfterKick(t) ==
  IF t.peer = None THEN Idle
  ELSE [Idle EXCEPT !.pc = "k_clock", !.user = t.peer]

\* The loop over the devices in left.
KickLoop(t, left) ==
  IF left = {} THEN AfterKick(t)
  ELSE [t EXCEPT !.pc = "k_kick", !.left = left]

Clock(p, at) ==
  /\ task[p].pc = "k_clock"
  /\ Set(p, [task[p] EXCEPT !.pc = "k_update", !.at = at])
  /\ UNCHANGED <<now, db, tokens, broker, faults, history>>

\* Mutant: tokens of the second of the kick are to be invalid too.
KickClockNextSecond(p) == Clock(p, now + 1)

\* invalidate_tokens reads the clock before it asks for a connection ...
KickClock(p) == Clock(p, now)

\* UPDATE users SET tokens_valid_from = at WHERE user_id = u; no row may match.
Floors(u, at) == [v \in Users |-> IF v = u THEN at ELSE tokens_valid_from[v]]

\* Mutant: without step 1 of the comment on kick_user, the connections stay.
KickInvalidateOnly(p) ==
  LET t == task[p] IN
  /\ t.pc = "k_update"
  /\ tokens_valid_from' = Floors(t.user, t.at)
  /\ Set(p, AfterKick(t))
  /\ UNCHANGED <<now, suspended, rels, tokens, broker, faults, history>>

\* The other kicks of the same user that have read their clock already.
Rivals(p) == {q \in Procs \ {p} : /\ task[q].pc = "k_update"
                                  /\ task[q].user = task[p].user}

\* ... and its UPDATE is applied later.
KickInvalidate(p) ==
  LET t == task[p] IN
  /\ t.pc = "k_update"
  /\ tokens_valid_from' = Floors(t.user, t.at)
  /\ Set(p, KickLoop(t, DevicesOf(t.user)))
  /\ abandoned' = abandoned \ {t.user}
  /\ overtaken' = (overtaken \ {p}) \cup Rivals(p)
  /\ UNCHANGED <<now, suspended, rels, tokens, broker, faults, missed, raced>>

\* shared.entry(id).kick(false, false, true) for one device.
KickDevice(p, d) ==
  LET t == task[p] IN
  /\ t.pc = "k_kick"
  /\ d \in t.left
  /\ EndConnection(d)
  /\ Set(p, KickLoop(t, t.left \ {d}))
  /\ missed' = missed \cup {q \in Procs : Admitting(q) /\ task[q].dev = d}
  /\ raced' = raced \ {d}
  /\ UNCHANGED <<now, db, tokens, sessions, faults, abandoned, overtaken>>

-----------------------------------------------------------------------------
(* Handlers that change the permissions. *)

\* db::create_relationship: an INSERT under a fresh id.
InsertRelationship(r, g) == rels[r] = None /\ rels' = [rels EXCEPT ![r] = g]

\* POST /relationships: the caller is the user of the row, the rest is the
\* caller's choice.
CreateRelationship(c, r, g) ==
  /\ AuthUser(c)
  /\ g.user_id = c.sub
  /\ InsertRelationship(r, g)
  /\ UNCHANGED <<now, suspended, tokens_valid_from, tokens, broker, task,
                 faults, history>>

\* DELETE /relationships/:id finds the row and remembers its peer ...
RevokeBegin(p, c, r) ==
  /\ task[p].pc = "idle"
  /\ AuthUser(c)
  /\ GetRelationship(c.sub, r)
  /\ Set(p, [Idle EXCEPT !.pc = "r_delete", !.user = c.sub, !.rel = r,
                         !.peer = rels[r].peer_id])
  /\ UNCHANGED <<now, db, tokens, broker, faults, history>>

\* db::delete_relationship, once it has found the row.
DeleteRelationship(r) == rels' = [rels EXCEPT ![r] = Gone]

\* ... deletes it, and kicks the caller and then the peer; a row somebody else
\* deleted meanwhile is a NotFound and nobody is kicked.
RevokeDelete(p) ==
  LET t == task[p] IN
  /\ t.pc = "r_delete"
  /\ IF GetRelationship(t.user, t.rel)
     THEN /\ DeleteRelationship(t.rel)
          /\ Set(p, [t EXCEPT !.pc = "k_clock", !.rel = None])
     ELSE /\ rels' = rels
          /\ Set(p, Idle)
  /\ UNCHANGED <<now, suspended, tokens_valid_from, tokens, broker, faults,
                 history>>

\* db::set_suspended.
SetSuspended(u, b) == suspended' = [suspended EXCEPT ![u] = b]

\* Mutant: suspend_user only sets the flag.
SuspendUserNoKick(p, u) ==
  /\ task[p].pc = "idle"
  /\ SetSuspended(u, TRUE)
  /\ UNCHANGED <<now, tokens_valid_from, rels, tokens, broker, task, faults,
                 history>>

\* POST /admin/users/:id/suspend: the flag first, then kick_user.
SuspendUser(p, u) ==
  /\ task[p].pc = "idle"
  /\ SetSuspended(u, TRUE)
  /\ Set(p, [Idle EXCEPT !.pc = "k_clock", !.user = u])
  /\ UNCHANGED <<now, tokens_valid_from, rels, tokens, broker, faults,
                 history>>

\* Mutant: an unsuspended user starts afresh, with the column's default.
UnsuspendUserAfresh(u) ==
  /\ suspended[u]
  /\ SetSuspended(u, FALSE)
  /\ tokens_valid_from' = Floors(u, 0)
  /\ UNCHANGED <<now, rels, tokens, broker, task, faults, history>>

\* POST /admin/users/:id/unsuspend: one UPDATE.
UnsuspendUser(u) ==
  /\ suspended[u]
  /\ SetSuspended(u, FALSE)
  /\ UNCHANGED <<now, tokens_valid_from, rels, tokens, broker, task, faults,
                 history>>

-----------------------------------------------------------------------------
(* Faults, each of which the code survives in its own way. *)

Fault == faults < MaxFaults /\ faults' = faults + 1

\* invalidate_tokens fails: kick_user warns and goes on to the devices.
InvalidateFails(p) ==
  LET t == task[p] IN
  /\ t.pc = "k_update"
  /\ Fault
  /\ Set(p, KickLoop(t, DevicesOf(t.user)))
  /\ abandoned' = abandoned \ {t.user}
  /\ overtaken' = overtaken \ {p}
  /\ UNCHANGED <<now, db, tokens, broker, missed, raced>>

\* get_device_by_user fails: kick_user returns without kicking anybody.
DeviceLookupFails(p) ==
  LET t == task[p] IN
  /\ t.pc = "k_update"
  /\ Fault
  /\ tokens_valid_from' = Floors(t.user, t.at)
  /\ Set(p, AfterKick(t))
  /\ abandoned' = abandoned \cup {t.user}
  /\ overtaken' = (overtaken \ {p}) \cup Rivals(p)
  /\ UNCHANGED <<now, suspended, rels, tokens, broker, missed, raced>>

\* The caller hangs up and the handler's future is dropped, or another of its
\* database calls fails and it returns the error.
Cancel(p) ==
  LET t == task[p] IN
  /\ t.pc # "idle"
  /\ Fault
  /\ Set(p, Idle)
  /\ abandoned' = IF Kicking(p) THEN abandoned \cup {t.user} ELSE abandoned
  /\ missed' = missed \ {p}
  /\ overtaken' = overtaken \ {p}
  /\ UNCHANGED <<now, db, tokens, broker, raced>>

\* The process stops and starts again: the database and the tokens that
\* clients hold survive, everything in memory is lost.
Crash ==
  /\ Fault
  /\ sessions' = [d \in Devices |-> None]
  /\ conn' = [d \in Devices |-> None]
  /\ subs' = [d \in Devices |-> {}]
  /\ closing' = [d \in Devices |-> 0]
  /\ task' = [p \in Procs |-> Idle]
  /\ missed' = {} /\ raced' = {} /\ abandoned' = {} /\ overtaken' = {}
  /\ UNCHANGED <<now, db, tokens>>

Tick ==
  /\ now < MaxNow
  /\ now' = now + 1
  /\ UNCHANGED <<db, tokens, broker, task, faults, history>>

-----------------------------------------------------------------------------
Init ==
  /\ now = 1
  /\ suspended = [u \in Users |-> FALSE]
  /\ tokens_valid_from = [u \in Users |-> 0]
  /\ rels = [r \in Rels |-> None]
  /\ tokens = {}
  /\ sessions = [d \in Devices |-> None]
  /\ conn = [d \in Devices |-> None]
  /\ subs = [d \in Devices |-> {}]
  /\ closing = [d \in Devices |-> 0]
  /\ task = [p \in Procs |-> Idle]
  /\ faults = 0
  /\ missed = {}
  /\ raced = {}
  /\ abandoned = {}
  /\ overtaken = {}

\* A new request or connection takes slot p.
Begin(p) ==
  \/ \E u \in Users, d \in Devices : VerifyBegin(p, u, d)
  \/ \E x \in Devices, c \in tokens : ConnectRead(p, x, c)
  \/ \E c \in tokens, r \in Rels : RevokeBegin(p, c, r)
  \/ \E u \in Users : SuspendUser(p, u)

\* The handler in slot p is resumed.
Resume(p) ==
  \/ VerifyTopics(p)
  \/ VerifyIssue(p)
  \/ ConnectInsert(p)
  \/ ConnectRegister(p)
  \/ RevokeDelete(p)
  \/ KickClock(p)
  \/ KickInvalidate(p)
  \/ \E d \in Devices : KickDevice(p, d)

Fail(p) == InvalidateFails(p) \/ DeviceLookupFails(p) \/ Cancel(p)

Next ==
  \/ \E p \in Procs : Begin(p) \/ Resume(p) \/ Fail(p)
  \/ \E c \in tokens, r \in Rels, g \in Grants : CreateRelationship(c, r, g)
  \/ \E u \in Users : UnsuspendUser(u)
  \/ \E d \in Devices, t \in Topics : Subscribe(d, t)
  \/ \E d \in Devices : Disconnect(d) \/ DisconnectedHook(d)
  \/ Crash
  \/ Tick

Spec == Init /\ [][Next]_vars

\* tokio resumes a task whose await is done, and rmqtt runs the hook of an
\* ended connection; nobody is obliged to send a request.
FairSpec ==
  /\ Spec
  /\ \A p \in Procs : WF_vars(Resume(p))
  /\ \A d \in Devices : WF_vars(DisconnectedHook(d))

-----------------------------------------------------------------------------
(* Properties that hold with any number of handlers in flight. *)

\* Every variable has the type its table, map or handler gives it.
TypeOK ==
  /\ now \in Nat
  /\ suspended \in [Users -> BOOLEAN]
  /\ tokens_valid_from \in [Users -> Nat]
  /\ rels \in [Rels -> Grants \cup {None, Gone}]
  /\ tokens \subseteq Claims
  /\ sessions \in [Devices -> Claims \cup {None}]
  /\ conn \in [Devices -> Claims \cup {None}]
  /\ subs \in [Devices -> SUBSET Topics]
  /\ closing \in [Devices -> Nat]
  /\ task \in [Procs -> Task]
  /\ faults \in 0 .. MaxFaults
  /\ missed \subseteq Procs
  /\ raced \subseteq Devices
  /\ abandoned \subseteq Names
  /\ overtaken \subseteq Procs

\* authenticate() binds the MQTT client id to the device of the token "which
\* lets kick_user reliably disconnect sessions by device_id": whatever order
\* verifies, connects and takeovers happen in, a live connection is found by a
\* kick_user for the very user whose token admitted it.
ConnectionsKickable ==
  \A d \in Devices : conn[d] # None => d \in DevicesOf(conn[d].sub)

\* Some kick_user will still reach device d.
KickComing(d) ==
  \E p \in Procs : \/ task[p].pc \in {"k_clock", "k_update"}
                      /\ task[p].user = Owner[d]
                   \/ task[p].pc = "k_kick" /\ d \in task[p].left

\* The only ways a kick of d's owner can leave d connected.
Escaped(d) == d \in raced \/ Owner[d] \in abandoned

\* kick_user invalidates, then kicks device by device, while clients connect
\* and other kicks of the same user run: a connection whose token lies below
\* the floor has a kick on its way, or slipped through the auth hook while a
\* kick passed by, or the kick was cut short by a fault.  There is no fourth
\* way to keep a connection that kick_user should have closed.
StaleConnectionsExplained ==
  \A d \in Devices :
    conn[d] # None /\ conn[d].iat < tokens_valid_from[Owner[d]]
      => KickComing(d) \/ Escaped(d)

\* suspend_user sets the flag before it kicks: no connection of a suspended
\* user is left without a kick on its way, with the same two exceptions.
SuspendedConnectionsExplained ==
  \A d \in Devices :
    conn[d] # None /\ suspended[Owner[d]] => KickComing(d) \/ Escaped(d)

\* kick_user is not to lock out for good whom it kicks: verify() and
\* invalidate_tokens read the clock at moments of their own and other kicks
\* come in between, but a token is never below the floor of its user when it is
\* issued, so a client that logs in again is let in again.
TokensBornValid ==
  [][\A c \in tokens' \ tokens : c.iat >= tokens_valid_from[c.sub]]_vars

\* invalidate_tokens overwrites the column without comparing.  The floor of a
\* user falls, and tokens that were rejected are accepted again, only when a
\* kick stores a clock it read before another kick of the same user stored its
\* own: no fault, no other handler and no kick that ran by itself lowers it.
FloorFallsExplained ==
  [][\A u \in Users : tokens_valid_from'[u] < tokens_valid_from[u] =>
       \E p \in overtaken : /\ task[p].pc = "k_update" /\ task[p].user = u
                            /\ task'[p].pc # "k_update"]_vars

-----------------------------------------------------------------------------
(* Properties that need requests not to overlap (Procs a singleton, no      *)
(* faults); the runs on overlapping requests show which of them fail there. *)

Quiet == \A p \in Procs : task[p].pc = "idle"

\* A revoked topic survives on a connection only if its token was issued in
\* the very second of the kick, which the comparison iat < tokens_valid_from
\* lets through; every older token is gone once revoke() has returned.
StaleTopicsWithinSecond ==
  Quiet => \A d \in Devices :
    conn[d] # None =>
      \/ subs[d] \subseteq Permitted(Owner[d])
      \/ conn[d].iat = tokens_valid_from[Owner[d]]

\* suspend_user() takes effect: a suspended user's device is disconnected, or
\* the suspension is lifted first.
SuspendedUsersLeave ==
  \A d \in Devices :
    (suspended[Owner[d]] /\ conn[d] # None)
      ~> (conn[d] = None \/ ~suspended[Owner[d]])

\* revoke() also kicks the peer of the revoked row, after its own devices.
PeerIsKicked ==
  \A d \in Devices :
    (\E p \in Procs : Kicking(p) /\ task[p].peer = Owner[d])
      ~> (conn[d] = None)

-----------------------------------------------------------------------------
(* What comments in the code say, and TLC refutes. *)

\* broker/mod.rs on kick_user: after it, a stale JWT cannot "retain access to
\* topics that should have been revoked".
NoRevokedTopics ==
  Quiet => \A d \in Devices : subs[d] \subseteq Permitted(Owner[d])

\* migration 002 on tokens_valid_from: a token that is accepted after a kick
\* is "a fresh JWT that reflects the current relationship state".
AcceptedTokensReflectRows ==
  Quiet => \A d \in Devices :
    conn[d] # None /\ conn[d].iat > tokens_valid_from[Owner[d]]
      => conn[d].sub_topics \subseteq Permitted(Owner[d])

\* broker/mod.rs on kick_user: "Force-disconnect all sessions for a user and
\* invalidate their outstanding JWTs."
KickDisconnectsAll ==
  Quiet => \A d \in Devices :
    conn[d] # None => conn[d].iat >= tokens_valid_from[Owner[d]]

\* migration 002 on tokens_valid_from: set to now "on every kick", so that "any
\* JWT issued before the kick timestamp is rejected": what a kick has rejected
\* a later one does not let in again.
FloorNeverLowered ==
  [][\A u \in Users : tokens_valid_from'[u] >= tokens_valid_from[u]]_vars

\* state.rs on Sessions: the table maps the client id of an active session to
\* its claims, which is where check_subscribe_acl looks for the topics.
LiveConnectionsHaveSessions ==
  Quiet => \A d \in Devices :
    conn[d] # None /\ closing[d] = 0 => sessions[d] # None
=============================================================================
