# A verification project for SMQTT

SMQTT is an MQTT broker (rmqtt, embedded) with a REST control plane (axum) in
one tokio process over one SQLite database. The control plane decides who may
connect and to which topics; the broker enforces it through an auth hook. The
code that decides is small and sequential in each handler, but every `.await`
lets other handlers run, no handler uses a transaction, and permissions live in
four places at once: database rows, signed tokens in the hands of clients, the
in-memory session table and rmqtt's connections. This project models how these
four can drift apart, and what the two protocols around them, login and key
exchange, promise their clients.

Paths below are relative to `src/`, so `src/broker/mod.rs` is the broker of the
repository.

## 1. Inventory

| Component | State | Operations | Modelled in |
|---|---|---|---|
| Login, `src/api/auth.rs` | challenge map, JWTs handed out | `challenge`, `verify` | `Login`; what `verify` reads and signs in `Access` |
| Auth hook, `src/broker/auth_hook.rs` | `AppState.sessions` | `authenticate`, `check_subscribe_acl`, `ClientDisconnected` | `Access` |
| `kick_user`, `src/broker/mod.rs` | `users.tokens_valid_from`, rmqtt connections | invalidate, look up devices, kick each | `Access` |
| Relationships, `src/api/relationships.rs` | `relationships` | `create`, `revoke`, `list` | `Access` |
| Suspension, `src/api/admin.rs` | `users.suspended` | `suspend_user`, `unsuspend_user` | `Access` |
| REST extractor, `src/api/extractors.rs` | none | `AuthUser` | `Access` (a guard) |
| JWTs, `src/crypto.rs` | none | `issue`, `verify`, `unix_now` | `Access` |
| Key exchange, `src/api/exchange.rs` | `pending_exchanges` | `initiate`, `respond`, `get` | `Exchange` |
| Purge task, `src/main.rs` | `pending_exchanges` | hourly `DELETE` | `Exchange` |
| Notifications, `publish_system` | none of its own | hand a message to rmqtt | `Exchange` |
| Registration tokens, `src/api/admin.rs` | `registration_tokens` | `create_registration_token` | `Registration` |
| Registration, `src/api/register.rs` | `users`, `devices` | `register` in four modes | `Registration` |
| rmqtt | connections, subscriptions | register, take over, kick, run hooks | external: modelled in `Access` from how the hook and `kick_user` use it |
| Configuration and start-up, `src/config.rs`, `src/main.rs` | settings, signing key | load, validate, start, stop, restart; the admin key check | `Server` |
| Example client, `example/smqtt_client.py` | keys, secrets, a call under way | `authenticate`; `initiate_exchange`, `respond_to_exchange`, `complete_exchange` | `Login`; `Pairing` |
| Errors, router | none | | not modelled |

How they interact. `verify` derives topics from the rows and signs them into a
JWT. The client presents the JWT to the hook, which compares it with the user
row, copies the claims into the session table and lets rmqtt register the
connection. A subscribe is judged by the session table alone. `revoke` and
`suspend_user` change a row and then call `kick_user`, which raises
`tokens_valid_from` and disconnects the devices. Rows, tokens, table and
connection are each updated in a step of its own.

What is hard, and what would make each part correct:

* *Access.* After a permission is withdrawn, no connection keeps using it.
  Verify, connect, kick, take-over and late disconnect hooks interleave; a kick
  may be cut short; time has a resolution of a second.
* *Exchange.* Two users and a purge task work on one row in several statements.
  The keys must stay with the parties they came from, an announced answer must
  reach the initiator, a discarded record must not come back.
* *Login.* The challenge map has one entry per user, anybody may replace it, it
  is popped before anything is checked, and it is gone after a restart. A nonce
  must be good for one token at most, and an honest client should fail only
  because of somebody else.
* *Pairing.* Each end derives its secret and registers its relationship in
  requests of its own, and neither learns what became of the other. Both ends
  must agree, and a pairing that stays one-sided needs a reason.
* *Start-up.* Two sources of settings, defaults, and an API that reads an absent
  header and an absent key alike.
* *Registration.* A token must not pay for more accounts than it allows,
  however many requests race for it; a user needs the device row that login and
  `kick_user` look for.

The hazards at their lines, with the properties that would catch each, are in
`PROJECT.json`.

## 2. How the modules are written

A handler is the sequence of its awaits. Each request in flight occupies a slot
`p \in Procs`; `task[p]` holds the stage (`pc`) and what the handler carries in
local variables. An action runs from one await to the next. Awaits that only
read data the module never changes (the `devices` table) are folded into a
neighbouring step. A single SQL statement is atomic: SQLite serialises them. A
refused request changes nothing and is a stuttering step, so an action's guard
is the code's condition for carrying on.

Three kinds of fault are modelled where the code meets them, and counted
against `MaxFaults`: `Crash` (the process restarts; the database and the tokens
clients hold survive, memory does not), `Cancel` (the client hangs up and axum
drops the future, or a database call returns an error) and failures the code
swallows (`InvalidateFails`, `DeviceLookupFails`, `DeleteFails`, `PurgeFails`).

Operators whose comment starts with *Mutant* are not part of the model. Each
one is a plausible mistake in the definition below it; checking a property
again with the mistake in place must refute it. `PROJECT.json` pairs them.

### Access

| Variable | Code |
|---|---|
| `suspended`, `tokens_valid_from` | columns of `users` |
| `rels` | `relationships`; `Gone` is a deleted row, ids are never reused |
| `tokens` | every JWT ever issued (`Claims`); a client may present any of them |
| `sessions` | `AppState.sessions` |
| `conn`, `subs` | rmqtt: the token that admitted the live connection of a client id, and its subscriptions |
| `closing` | rmqtt: ended connections whose `ClientDisconnected` hook has not run |
| `task` | handlers in flight |
| `missed`, `raced`, `abandoned`, `overtaken` | history, read by no guard: admissions a kick passed by, devices they connected, users whose kick was cut short, kicks that hold a clock while another kick of their user has stored its own |

| Actions | Code |
|---|---|
| `VerifyBegin`, `VerifyTopics`, `VerifyIssue` | `verify`: suspended check and device; `user_topics`; `JwtKeys::issue` |
| `ConnectRead`, `ConnectInsert`, `ConnectRegister` | `authenticate` up to the row comparison; the insert; rmqtt registers and ends the previous holder of the id |
| `Subscribe`, `Disconnect`, `DisconnectedHook` | `check_subscribe_acl`; the client leaves; the hook's `ClientDisconnected` arm |
| `KickClock`, `KickInvalidate`, `KickDevice` | `kick_user`: the clock is read, the `UPDATE` and the device lookup, one device |
| `CreateRelationship`, `RevokeBegin`, `RevokeDelete` | `create`; `revoke`, which continues with two kicks through `AfterKick` |
| `SuspendUser`, `UnsuspendUser` | the admin handlers |

Abstractions: signatures are ideal, so only issued tokens verify; the challenge
is left to `Login`, so any device may start a verify at any time, which allows
more than the code does; `pub_topics` is left out because nothing reads it (the
hook has no publish check); MQTT sessions are clean, so subscriptions end with
the connection. Persistent MQTT sessions, which rmqtt also offers, are not
modelled.

### Server and Login

`Server` is the life of the process: `sources` is what the file and the
environment say, `config` the settings of the running process or `None`. `Load`
merges (`Merged`: the environment wins, and text that looks like a number is
parsed and written out again), fills in the default (`Deserialised`) and
validates; `Start` also needs the signing key to decode. Two settings stand for
all of them, one without a default (`signing_key`) and the one with
(`api_key`).

`Login` extends it. `challenges` is `AppState.challenges`; `attempt` holds the
calls of `authenticate` with the request handlers they wait for; `tokens` the
JWTs with the nonce they come from. `offered`, `admins` and `disturbed` are
history.

| Actions | Code |
|---|---|
| `RequestChallenge` | `challenge`, and the client's signature |
| `VerifyPop`, `VerifyUser`, `VerifyIssue` | `verify`: pop and expiry; user, device and signature; the token |
| `Resend` | the request arrives a second time (environment) |
| `Administer` | `suspend_user`, `unsuspend_user` behind `require_admin_key` |
| `Crash`, `Restart`, `EditSources`, `Unreachable`, `Cancel` | the process stops and forgets; starts; its settings change; a client finds nobody; a request is cut off |

Attempts are made for any user, with any device id and with the key of that
device, of another one or of none; so somebody who does not hold the key, and
who asks for a challenge in the middle of another's login, is among them.
`OneTimeLogin` is what login promises without a map, handlers or restarts;
`Login` implements it (`LoginIsOneTime`) under the mapping `OneTime`: `signed`
are the nonces that attempts have signed, `granted` the tokens.

### Exchange

`rows` is `pending_exchanges`; `published` holds what `publish_system` was
given; `replies` holds complete answers that reached a caller. `purged` and
`lost` are history. `initiate` is `InitiateInsert`, `InitiateNotify`; `respond`
is `RespondRead`, `RespondUpdate`, `RespondNotify`, `RespondReply`; the
initiator's `get` is `GetRead`, `GetDelete`, `GetReply`. A `get` by the
responder, or of an unanswered exchange, changes nothing.

The purge task of `main` is its interval: `purge_at` is the next tick, which
`Purge` and `PurgeFails` wait for and move on by `Period`, the code's hour (a
late tick does not shift the following ones, tokio's default). A restart
(`Crash`) skips the first tick, which is immediate, so the next is a whole
period away. `since` is history: the last restart or failed purge.

### Pairing

`Pairing` composes `Exchange` with the clients on either side. `call[u]` is the
client call user `u` has under way (a client is synchronous), `pending` what
`initiate_exchange` has returned, `relationships` what was registered. Each
request of a call is one of the handlers of `Exchange`: `CallInitiate` and
`Initiated` wrap `InitiateInsert` and `InitiateNotify`; `Fetch`, `Post`,
`PostUpdate`, `Posted` are `respond_to_exchange`; `Complete`, `Completed` are
`complete_exchange`; both go on with `Relate`. `PostRefused` is the conflict or
the missing record. Faults: a request is dropped (`CancelRequest`), an answer is
lost (`Unheard`), a client ends between two requests (`Abort`), the server
restarts (`CrashServer`).

A shared secret is named by its salt, the two public keys in order, since the
raw Diffie-Hellman secret is the same from both ends; a topic is sender,
receiver and secret, since the HMAC of `outbound_topic` is taken to be free of
collisions. The module takes up one user object per user and no pairing of a
user with itself. Two clients of one user that answer the same exchange at once
are the subject of `exchange_two_answers`: there the two ends need not agree.

`Agreement` is what a key exchange promises its two ends: the first to settle
fixes the value, the other settles with the same or not at all. `Pairing`
implements it (`PairsAgree`) with the pair of topics as the value.

### Registration

`tokens` is `registration_tokens`, `users` and `devices` the rows `register`
inserts. The expiry is `(unix_now() + expires_in) as i64`; `Half` stands for
2^63, so wrap-around is reached with small numbers (a release build wraps, a
debug build panics on the sum and inserts nothing). `payer`, `wasted` and
`orphans` are history: the token whose use a user was created with, the uses of
each token that created no user, and users left without a device.

## 3. What TLC checks

| Run | Instance | Distinct states | Properties |
|---|---|---|---|
| `access_sequential` | 2 users and devices, 1 slot, clock 1..2, 2 tokens, `FairSpec` | 196,922 | `ConnectionsKickable`, `StaleTopicsWithinSecond`, `SuspendedUsersLeave`, `PeerIsKicked` |
| `access_concurrent` | 1 user, 2 slots, 1 fault, clock 1..2 | 2,063,360 | `TypeOK`, `StaleConnectionsExplained`, `SuspendedConnectionsExplained`, `TokensBornValid`, `FloorFallsExplained` |
| `exchange` | 2 users, 3 keys, 1 exchange, 2 slots, 1 fault, clock 0..3 with a period of 2 | 160,682 | `TypeOK`, `KeysFromTheirParties`, `AnnouncedAnswersReachInitiator`, `ExpiredRowsExplained`, `DiscardedForGood` |
| `registration` | 4 modes, 2 tokens, 3 users, 2 slots, 1 fault | 582,054 | `TypeOK`, `UsersPaidFor`, `OneDevicePerUser`, `TokensLastAsAsked` |
| `login` | 2 users, 1 device, 2 attempts, 2 nonces, clock 0..2, 5 settings, 1 fault | 601,734 | `TypeOK`, `FailedLoginsExplained`, `AdminNeedsKey`, `LoginIsOneTime` |
| `pairing` | 2 users with 2 keys each, 2 exchanges, 2 slots, clock 0..1, 1 fault, `PairingFairSpec` | 797,843 | `PairingTypeOK`, `OneSidedExplained`, `PairsAgree`, `ResponderIsNotLeftAlone` |

* **`StaleTopicsWithinSecond`**: while requests do not overlap, a connection
  holds a revoked topic only with a token of the very second of the kick.
* **`StaleConnectionsExplained`, `SuspendedConnectionsExplained`**: with
  overlapping requests and faults, a connection that should be gone has a kick
  on its way, or raced one through the hook, or its kick was cut short.
* **`ConnectionsKickable`**: `kick_user` looks for connections under the devices
  of a user, and that is where they are.
* **`FloorFallsExplained`**: a rejected token is accepted again only when a kick
  stores a clock it read before another kick of the same user stored its own.
  `invalidate_tokens` does read the clock before it waits for a connection, and
  does not compare: `access_kick_race` shows the fall. Nothing else, no fault
  and no other handler, lowers a floor.
* **`SuspendedUsersLeave`, `PeerIsKicked`**: the kicks that follow a suspension
  and a revoke happen, the peer's after the caller's.
* **`TokensBornValid`**: no token is issued below the floor of its user, so
  who is kicked can log in again at once. The obvious repair of
  `access_same_second`, a floor one second ahead, breaks it (the mutant).
* **`LoginIsOneTime`**: the refinement; a nonce is good for one token at most,
  for a device of the user it was made for, whose key signed it.
* **`FailedLoginsExplained`**: a login with the right key fails only because
  another challenge or verify of the same user came in between, its request was
  doubled, its time ran out, the user was suspended, or a fault. That the first
  of these needs no authentication is how the code is, not a flaw of the model.
* **`AdminNeedsKey`**: without `Config::validate` a missing header would match a
  missing key. The other setting of `Server`, `signing_key`, has no default: the
  model, like the code, does not start without one, though comments at
  `src/config.rs:35` and `:91` say "Generated on first run if not set".
* **`ExpiredRowsExplained`**: only the purge enforces `expires_at`. A record that
  has been expired for an hour is there only while a purge is due, or if the
  server was started, or a purge failed, less than an hour ago. A server that is
  restarted more often than once an hour never purges.
* **`TokensLastAsAsked`**: a use of a registration token is counted for a
  `register` that read the clock before the end asked for, and a `register` that
  is turned away had a reason; the only token that dies before its time is one
  whose end does not fit an i64.
* **`PairsAgree`**: the refinement; the two ends of an exchange end up with one
  secret, and each publishes to what the other subscribes to.
* **`OneSidedExplained`, `ResponderIsNotLeftAlone`**: one end has a relationship
  and the other has not only while the answer waits to be fetched, after expiry,
  or after a fault; an initiator that keeps asking does get its end.
* **`UsersPaidFor`**: for each token, the users it paid for, the requests that
  have spent a use of it and the uses that came to nothing fit into `max_uses`.
* **The rest of exchange and registration**: as their names and comments say.

Six runs check what a comment or document of the repository says, and find
what the code does instead (`PROJECT.json`, "findings", quotes the lines):

| Run | Statement refuted | Why |
|---|---|---|
| `access_same_second` | `NoRevokedTopics` | `iat < tokens_valid_from` accepts a token of the second of the kick |
| `access_verify_race` | `AcceptedTokensReflectRows` | `verify` reads the rows before a revoke and dates the token after its kick |
| `access_connect_race` | `KickDisconnectsAll` | the hook has compared, rmqtt has not registered, and the kick finds nothing |
| `access_kick_race` | `FloorNeverLowered` | of two overlapping kicks of a user the one with the older clock stores it last |
| `access_takeover` | `LiveConnectionsHaveSessions` | the old connection's hook removes the new connection's entry |
| `exchange_two_answers` | `AnswerNeverReplaced` | two `respond` calls read the unanswered row; the `UPDATE` asks for nothing |

`AcceptedTokensReflectRows`, `KickDisconnectsAll` and `FloorNeverLowered` hold
in the instance of `access_sequential`: these three need overlapping requests.
`NoRevokedTopics` and `LiveConnectionsHaveSessions` fail with one request at a
time.

### Bounds

* Clock: two values in the runs of `Access`, so that a token may be older than a
  kick, of its second, or newer. What `access_sequential` finds of the first two
  is proved for any clock (`RevokedTopicsGo`). `Ttl = 1`, `Leeway = 0` lets
  tokens expire within them; the code's hour and the library's minute only move
  the same boundary.
* Slots: two handlers are enough for each of the races named above, since each
  is between a reader and a kick, or between two writers.
* Tokens: two, an old one and a fresh one. `MaxClosing = 1` guards admissions
  only: one hook may be outstanding when a connection is accepted.
* Relationships: one row; a peer that names no user occurs where `Users` is
  smaller than `Names`.
* Faults: one per behaviour. `registration` has three users, one more than a
  token of two uses pays for, so that an account too many can appear.
* `login`: two attempts are a login and whoever disturbs it, or a login and its
  duplicate. One user has the device, the other none, so the wrong user, the
  wrong key (no device's) and the wrong nonce all occur. `ChallengeTtl = 1`
  gives a second before, of and after expiry.
* `pairing`: two keys each let both users initiate towards each other, or one
  of them repeat a call; `Ttl = 0` with two clock values lets a row expire or
  not.
* `exchange`: `Ttl = 1`, a period of 2 and a clock of 0..3 give a record that
  expires just before a tick, one that is old enough to need a reason, and a
  restart or failed purge in between.
* `CHECK_DEADLOCK FALSE` in `exchange`, `pairing`, `registration` and `login`:
  ids, nonces and the clock are bounded, and a server nobody calls or restarts
  may stop. `Access` is checked for deadlock.
* Symmetry: of the slots in `access_concurrent`, and of tokens, users and slots
  in `registration`; never where a liveness property is checked.

### Fairness

`FairSpec` of `Access`: weak fairness of `Resume(p)` (tokio polls a task whose
await is done) and of `DisconnectedHook(d)` (rmqtt runs the hook of an ended
session). Nothing obliges anyone to send a request, and no fault is fair.
`PairingFairSpec`: weak fairness of `Continue(u)`, the straight-line code of a
client and the handler it waits for, and an initiator goes on calling
`complete_exchange` while an answer is there for it, as its `None` for "not yet"
asks it to. Nothing is assumed of the purge, and time need not pass. `Exchange`,
`Registration` and `Login` are checked without fairness. That `authenticate`
returns is not claimed: the client's requests have no timeout, so an answer that
is lost in silence blocks it. `access_sequential` uses one slot and no faults:
with a fault a kick may be cut short, and with a second slot a client in the
hook may slip past it. That is what the two `Explained` invariants state
precisely.

## 4. What TLAPS proves

Every invariant, action property and refinement that a passing run checks is
also a theorem. Unless a hypothesis is named, it holds for any number of users,
devices, keys, tokens, request slots and faults.

| Module | Theorem | Statement |
|---|---|---|
| `AccessProofs` | `TypeCorrect` | `Spec => []TypeOK` |
| | `KickFindsConnections` | `Spec => []ConnectionsKickable` |
| | `StaleExplained` | `Spec => []StaleConnectionsExplained` |
| | `SuspendedExplained` | `Spec => []SuspendedConnectionsExplained` |
| | `BornValid` | `Spec => TokensBornValid` |
| | `FallsExplained` | `Spec => FloorFallsExplained` |
| `SequentialProofs` | `RevokedTopicsGo` | `Spec => []StaleTopicsWithinSecond`, if `Alone` and `MaxFaults = 0` |
| | `PromisesKeptAlone` | `Spec => [](KickDisconnectsAll /\ AcceptedTokensReflectRows)`, likewise |
| `ExchangeProofs` | `TypeCorrect` | `Spec => []TypeOK` |
| | `KeysStayWithParties` | `Spec => []KeysFromTheirParties` |
| | `DiscardedStaysSo` | `Spec => DiscardedForGood` |
| | `AnnouncedAnswersSafe` | `Spec => []AnnouncedAnswersReachInitiator` |
| | `ExpiredExplained` | `Spec => []ExpiredRowsExplained` |
| `RegistrationProofs` | `TypeCorrect` | `Spec => []TypeOK` |
| | `LastAsAsked` | `Spec => TokensLastAsAsked` |
| | `DevicesAccountedFor` | `Spec => []OneDevicePerUser` |
| | `EveryUserPaidFor` | `Spec => []UsersPaidFor` |
| `LoginProofs` | `TypeCorrect` | `Spec => []TypeOK` |
| | `AdminKeyNeeded` | `Spec => []AdminNeedsKey` |
| | `FailuresExplained` | `Spec => []FailedLoginsExplained` |
| | `LoginImplementsOneTime` | `Spec => LoginIsOneTime` (refinement) |
| `PairingProofs` | `PairingTypeCorrect` | `PairingSpec => []PairingTypeOK` |
| | `OneSidedOnlyWhileOrSpoilt` | `PairingSpec => []OneSidedExplained` |
| | `LibraryAnswersOnce` | `PairingSpec => AnswerNeverReplaced` |
| | `PairingImplementsAgreement` | `PairingSpec => PairsAgree` (refinement) |

### Access

*First invariant.* `TypeOK` is not inductive: whether a signed token is well
typed, and whether a registered connection belongs to the right user, depends
on what the handler checked several awaits earlier. `TypeInv` adds what a task
carries at each stage (`TasksGood`), that every token names a device of its
user (`TokensOwned`) and that connections were admitted by such tokens
(`ConnsOwned`). `TypeStep` shows it preserved, one step per action;
`ConnectionsKickable` follows from it.

*Second invariant.* `EvictInv` says that a connection below the floor or of a
suspended user is explained, and says the same of admissions still on their way
through the hook: an accepted token that has since been invalidated either has
a kick coming for its device or its slot is in `missed`. The second half is
what makes the first inductive, because `ConnectRegister` turns an admission
into a connection. The lemmas follow the life of a kick: which devices it still
covers (`CoverStep`, `LoopCovers`), who becomes due (`DueStep`), how
connections (`ConnStep`) and admissions (`AdmitStep`) change.

*Third invariant.* `ClockInv`: no floor lies in the future, and no clock that a
kick has read and not yet stored does either. `BornStep` derives the action
property from it, since only `verify` adds a token and dates it with the clock.

*Fourth invariant.* `FloorInv`: a kick that is about to store its clock and that
no other has overtaken finds no later clock stored. It is inductive because
`overtaken` grows with exactly the kicks that have read theirs when another
stores its own.

*Requests that do not overlap.* `Alone` says that there is at most one slot.
`HonestInv` follows a topic on its way from the rows to a subscription: every
token reflects the rows, or lies at or below the floor, or a kick is about to
raise the floor to it (`TokensHonest`); what `verify` and the hook carry over
an await is still true after it (`TasksHonest`); session table and
subscriptions agree with the token of the connection, except while rmqtt
registers its successor (`ConnsHonest`); and no kick misses anything. Together
with `EvictInv` this gives `StaleTopicsWithinSecond` and, under the same
hypotheses, two of the promises that overlapping requests break: the findings
`access_connect_race` and `access_verify_race` are about overlap and nothing
else.

### Exchange

`TypeInv` needs, besides types, that each row has the keys of its parties
(`RowsGood`), what a handler has learnt at each stage (`TasksGood`) and that
the row it has read is the row that is still there, up to the answer, or was
(`TasksMatch`). `RowStep` lists the only ways a row changes: created without an
answer, answered, discarded; `DiscardedForGood` is a corollary.
`AnnouncedAnswersReachInitiator` is not inductive, because the announcement
follows the `UPDATE` in a step of its own, and the initiator may have fetched
and discarded the record in between. `AnnounceInv` says the same of an answer
from the moment it is stored. `ExpiredRowsExplained` rests on `TimerInv`: the
next tick is at most a period away, and it comes within a period of the expiry
of every record there is, or of the last restart or failed purge. A purge
re-establishes it, because what it leaves has not expired.

### Registration

`TokensLastAsAsked` rests on `expires_at` being the cast of the end that was
asked for (`TokensGood`), on the cast never moving a time forward
(`CastBackwards`) and on its being exact for a time that fits (`CastFits`).
`CountStep` ties each change of a row to the slot whose use it counts,
`RefusalStep` each refusal to what the `UPDATE` found. `DeviceInv` counts for each user the device rows and the
requests between the two `INSERT`s. `UseInv` is a balance for each token: users
paid for, uses held by requests in flight and uses wasted add up to exactly
`uses`, which the `UPDATE` keeps within the limit. The inequality alone is not
inductive: without the equation a step could not know that the use it counts is
the only one it adds. The counting is over finite sets, hence the assumption
that the slots are finite.

### Login

`ConfigInv`: a running process has what `Load` makes of its sources. `DisturbInv`: as long as nothing is recorded
against an attempt, the map holds its own nonce, in time, for a user who is not
suspended. `NonceInv`: a nonce in the map, in the hands of a handler or in a
token belongs to the user it was offered to, it is in one of these places at
most, and a handler about to issue has checked the signature. From it every
step of `Login` is a step or a stutter of `OneTimeLogin`.

### Pairing

`PairingProofs` extends `ExchangeProofs`: each step of the composition is a step
or a stutter of `Exchange` (`ServerStep`), so the server's invariant carries
over. The two exceptions change nothing but the fault counter beyond what
`Exchange` allows: `Abort`, and `Unheard`, which is `InitiateNotify` with its
answer lost. `Linked` ties each request to the one call that waits
for it. `FirstAnswer` is where one client per user matters: who is about to
store an answer is the first to do so. That is `LibraryAnswersOnce`, the
opposite of what `exchange_two_answers` shows for two clients of one user.
`BothSides` is `OneSidedExplained` said of everyone who knows the outcome,
handlers and calls included. `DealInv` says that from the first answer on there
are two parties and two keys that row, handlers, calls and relationships agree
on; the refinement follows because `Derive` sorts its keys (`DeriveSymmetric`).

### Assumptions

Constants are related to each other only where the database does so: devices
have owners, keys have holders, topics of rows are topics, peers may be any
string. `None` and `Gone` stand for the absence of a value and so differ from
every name, key, row, challenge and token; text that is not empty does not
become empty when it is parsed (`ServerAssumption`); keys can be ordered
(`Keys \subseteq Nat` in `Pairing`). TLC evaluates the assumptions in the runs.

### Only model-checked

The liveness properties, `SuspendedUsersLeave`, `PeerIsKicked` and
`ResponderIsNotLeftAlone`: they need fairness and `ENABLED`, which the prover
does not handle. And, of course, the six statements that fail, which are
counterexamples and not theorems.

## 5. Not modelled, and why

* Publishing and delivery inside rmqtt. The hook has no publish check. That a
  notification (`retain: false`) may go unheard is a behaviour of `Pairing`: the
  peer never calls.
* Persistent MQTT sessions, which keep subscriptions over a disconnect.
* A wall clock that steps back.
* The start of the broker task: if it fails, the HTTP API serves on
  (`src/main.rs:59`), and no state of this project tells the difference.
* Opening the database, migrations, command line, error mapping, base64, HMAC
  and JWT encoding: input and output; the table `recovery_codes`, which no code
  uses.
* `encrypt` and `decrypt` of the client, which keep no state, and the presence
  demo around it.

## 6. Plan

Done: `Access`, `Exchange`, `Registration`, `Server`, `Login` with
`OneTimeLogin`, `Pairing` with `Agreement`; the proofs of every safety property,
action property and refinement of these modules.

Left: the parts of section 5, of which a clock that steps back is the one the
code is most exposed to; `TokensBornValid` and `ClockInv` would be the first to
change.
