------------------------------ MODULE Exchange ------------------------------
(***************************************************************************)
(* The server-mediated Diffie-Hellman exchange: POST /exchange, GET        *)
(* /exchange/:id, POST /exchange/:id/respond and the hourly purge, all     *)
(* over the table pending_exchanges.                                       *)
(*                                                                         *)
(* As in Access, a handler is the sequence of its awaits, run by a request *)
(* slot p \in Procs.  Any user may call at any time: AuthUser asks for a   *)
(* token that has not expired and for nothing else.  A refused request     *)
(* (unknown peer, key of the wrong length, a stranger's exchange, an       *)
(* exchange that is already answered) changes nothing, nor does a get()    *)
(* that finds no key or is not the initiator's.                            *)
(***************************************************************************)
EXTENDS Integers, FiniteSets

CONSTANTS
  Users,     \* registered users
  Keys,      \* X25519 public keys
  Holder,    \* the user who generated each key
  Ids,       \* exchange ids (fresh UUIDs)
  Procs,     \* request slots
  Ttl,       \* EXCHANGE_TTL_SECS
  Period,    \* of the interval in main(): an hour
  None, Gone,\* model values: no value, a deleted row
  MaxNow,    \* bound on the clock
  MaxFaults  \* bound on crashes, dropped requests and database errors

Row == [initiator_id : Users, responder_id : Users,
        initiator_pubkey : Keys, responder_pubkey : Keys \cup {None},
        expires_at : Nat]

ASSUME ExchangeAssumption ==
  /\ Holder \in [Keys -> Users]
  /\ Ttl \in Nat /\ Period \in Nat \ {0}
  /\ MaxNow \in Nat /\ MaxFaults \in Nat
  /\ None \notin Keys /\ None \notin Ids /\ None # Gone
  /\ None \notin Row /\ Gone \notin Row

VARIABLES
  now,       \* unix_now()
  rows,      \* pending_exchanges: id |-> row
  published, \* notifications given to the broker
  replies,   \* answers that reached their callers
  task,      \* the handler in flight in each slot
  faults,    \* faults so far
  purge_at,  \* when the interval of the purge task ticks next
  since,     \* history: when the server last started, or a purge last failed
  purged,    \* history: ids deleted because they had expired
  lost       \* history: ids whose last answer was cut off

timer == <<purge_at, since>>
vars == <<now, rows, published, replies, task, faults, timer, purged, lost>>

-----------------------------------------------------------------------------
Notification == [to : Users, type : {"pending_exchange", "exchange_complete"},
                 exchange_id : Ids]

\* An ExchangeResponse that carries both keys, and who received it.
Reply == [to : Users, exchange_id : Ids, row : Row]

\* i_ initiate, x_ respond, g_ get.
Stage == {"idle", "i_notify", "x_update", "x_notify", "x_reply",
          "g_delete", "g_reply"}

\* user is the caller, row the row as the handler read it, key the key sent.
Task == [pc : Stage, user : Users \cup {None}, id : Ids \cup {None},
         key : Keys \cup {None}, row : Row \cup {None}]

Idle == [pc |-> "idle", user |-> None, id |-> None, key |-> None,
         row |-> None]

Exists(id) == rows[id] \notin {None, Gone}

Answered(id) == Exists(id) /\ rows[id].responder_pubkey # None

Goto(p, pc) == task' = [task EXCEPT ![p].pc = pc]
Start(p, pc, u, id, k, row) ==
  task' = [task EXCEPT ![p] = [pc |-> pc, user |-> u, id |-> id, key |-> k,
                               row |-> row]]
Return(p) == task' = [task EXCEPT ![p] = Idle]

\* broker::publish_system hands a notification to rmqtt; that it reaches a
\* subscriber is not promised.
Publish(to, type, id) ==
  published' = published \cup {[to |-> to, type |-> type, exchange_id |-> id]}

-----------------------------------------------------------------------------
(* POST /exchange *)

Create(p, id, row) ==
  /\ task[p].pc = "idle"
  /\ Holder[row.initiator_pubkey] = row.initiator_id
  /\ rows[id] = None
  /\ rows' = [rows EXCEPT ![id] = row]
  /\ Start(p, "i_notify", row.initiator_id, id, row.initiator_pubkey, row)
  /\ UNCHANGED <<now, published, replies, faults, timer, purged, lost>>

NewRow(u, v, k, expires_at) ==
  [initiator_id |-> u, responder_id |-> v, initiator_pubkey |-> k,
   responder_pubkey |-> None, expires_at |-> expires_at]

\* Mutant of InitiateInsert: the sign of the time to live is wrong.
InitiateInsertBackwards(p, u, v, k, id) ==
  Create(p, id, NewRow(u, v, k, now - Ttl))

\* create_exchange inserts the row ...
InitiateInsert(p, u, v, k, id) == Create(p, id, NewRow(u, v, k, now + Ttl))

\* ... and then the peer is notified.
InitiateNotify(p) ==
  /\ task[p].pc = "i_notify"
  /\ Publish(task[p].row.responder_id, "pending_exchange", task[p].id)
  /\ Return(p)
  /\ UNCHANGED <<now, rows, replies, faults, timer, purged, lost>>

-----------------------------------------------------------------------------
(* POST /exchange/:id/respond *)

\* The caller may answer an exchange that has no answer yet.
Respond(p, u, k, id) ==
  /\ task[p].pc = "idle"
  /\ Holder[k] = u
  /\ Exists(id)
  /\ Start(p, "x_update", u, id, k, rows[id])
  /\ UNCHANGED <<now, rows, published, replies, faults, timer, purged, lost>>

\* Mutant of RespondRead: either party may answer.
RespondReadAnyParty(p, u, k, id) ==
  /\ Respond(p, u, k, id)
  /\ u \in {rows[id].initiator_id, rows[id].responder_id}
  /\ rows[id].responder_pubkey = None

\* respond() up to its checks of the row it has read.
RespondRead(p, u, k, id) ==
  /\ Respond(p, u, k, id)
  /\ u = rows[id].responder_id
  /\ rows[id].responder_pubkey = None

\* Mutant of RespondUpdate: the row is written back whole.
RespondUpdateUpsert(p) ==
  LET id == task[p].id IN
  /\ task[p].pc = "x_update"
  /\ rows' = [rows EXCEPT ![id] =
                [task[p].row EXCEPT !.responder_pubkey = task[p].key]]
  /\ Goto(p, "x_notify")
  /\ UNCHANGED <<now, published, replies, faults, timer, purged, lost>>

\* set_responder_pubkey updates the row if it is still there, answered or not;
\* otherwise the caller gets NotFound.
RespondUpdate(p) ==
  LET id == task[p].id IN
  /\ task[p].pc = "x_update"
  /\ IF Exists(id)
     THEN /\ rows' = [rows EXCEPT ![id].responder_pubkey = task[p].key]
          /\ Goto(p, "x_notify")
     ELSE rows' = rows /\ Return(p)
  /\ UNCHANGED <<now, published, replies, faults, timer, purged, lost>>

\* The initiator is notified ...
RespondNotify(p) ==
  LET t == task[p] IN
  /\ t.pc = "x_notify"
  /\ Publish(t.row.initiator_id, "exchange_complete", t.id)
  /\ Goto(p, "x_reply")
  /\ UNCHANGED <<now, rows, replies, faults, timer, purged, lost>>

\* ... and the responder answered, with the key it has sent.
RespondReply(p) ==
  LET t == task[p] IN
  /\ t.pc = "x_reply"
  /\ replies' = replies \cup
       {[to |-> t.user, exchange_id |-> t.id,
         row |-> [t.row EXCEPT !.responder_pubkey = t.key]]}
  /\ Return(p)
  /\ UNCHANGED <<now, rows, published, faults, timer, purged, lost>>

-----------------------------------------------------------------------------
(* GET /exchange/:id by the initiator, once there is an answer *)

\* Mutant of GetRead: whoever fetches the answered exchange discards it.
GetReadAnyParty(p, u, id) ==
  /\ task[p].pc = "idle"
  /\ Answered(id)
  /\ u \in {rows[id].initiator_id, rows[id].responder_id}
  /\ Start(p, "g_delete", u, id, None, rows[id])
  /\ UNCHANGED <<now, rows, published, replies, faults, timer, purged, lost>>

GetRead(p, u, id) ==
  /\ task[p].pc = "idle"
  /\ Answered(id)
  /\ u = rows[id].initiator_id
  /\ Start(p, "g_delete", u, id, None, rows[id])
  /\ UNCHANGED <<now, rows, published, replies, faults, timer, purged, lost>>

\* The record is discarded before the answer is sent ...
GetDelete(p) ==
  LET id == task[p].id IN
  /\ task[p].pc = "g_delete"
  /\ rows' = [rows EXCEPT ![id] = Gone]
  /\ Goto(p, "g_reply")
  /\ UNCHANGED <<now, published, replies, faults, timer, purged, lost>>

\* ... with the row as it was read.
GetReply(p) ==
  LET t == task[p] IN
  /\ t.pc = "g_reply"
  /\ replies' = replies \cup
       {[to |-> t.user, exchange_id |-> t.id, row |-> t.row]}
  /\ Return(p)
  /\ UNCHANGED <<now, rows, published, faults, timer, purged, lost>>

-----------------------------------------------------------------------------
(* The purge task and the environment *)

Expired(id) == Exists(id) /\ rows[id].expires_at < now

\* interval.tick() returns.  A tick that comes late does not shift the next.
PurgeDue == now >= purge_at
NextTick == PurgeDue /\ purge_at' = purge_at + Period

PurgeOf(S) ==
  /\ NextTick
  /\ rows' = [id \in Ids |-> IF id \in S THEN Gone ELSE rows[id]]
  /\ purged' = purged \cup S
  /\ UNCHANGED <<now, published, replies, task, faults, since, lost>>

\* Mutant: an answered exchange is kept for its initiator.
PurgeUnanswered == PurgeOf({id \in Ids : Expired(id) /\ ~Answered(id)})

\* purge_expired_exchanges, once an hour.
Purge == PurgeOf({id \in Ids : Expired(id)})

Fault == faults < MaxFaults /\ faults' = faults + 1

\* The purge task warns and waits for the next hour.
PurgeFails ==
  /\ NextTick
  /\ Fault
  /\ since' = now
  /\ UNCHANGED <<now, rows, published, replies, task, purged, lost>>

\* get() ignores an error of delete_exchange.
DeleteFails(p) ==
  /\ task[p].pc = "g_delete"
  /\ Fault
  /\ Goto(p, "g_reply")
  /\ UNCHANGED <<now, rows, published, replies, timer, purged, lost>>

\* A slot that holds an answer which is stored nowhere else.
CutOff(S) == {task[p].id : p \in {q \in S : task[q].pc = "g_reply"}}

\* A request is dropped, or one of its database calls fails.
Cancel(p) ==
  /\ task[p].pc # "idle"
  /\ Fault
  /\ Return(p)
  /\ lost' = lost \cup CutOff({p})
  /\ UNCHANGED <<now, rows, published, replies, timer, purged>>

\* The process stops and starts again.  main() skips the first tick, which is
\* immediate, so that the hour begins anew.
Crash ==
  /\ Fault
  /\ task' = [p \in Procs |-> Idle]
  /\ lost' = lost \cup CutOff(Procs)
  /\ purge_at' = now + Period
  /\ since' = now
  /\ UNCHANGED <<now, rows, published, replies, purged>>

Tick ==
  /\ now < MaxNow
  /\ now' = now + 1
  /\ UNCHANGED <<rows, published, replies, task, faults, timer, purged, lost>>

-----------------------------------------------------------------------------
Init ==
  /\ now = 0
  /\ rows = [id \in Ids |-> None]
  /\ published = {}
  /\ replies = {}
  /\ task = [p \in Procs |-> Idle]
  /\ faults = 0
  /\ purge_at = Period
  /\ since = 0
  /\ purged = {}
  /\ lost = {}

Begin(p) ==
  \/ \E u, v \in Users, k \in Keys, id \in Ids : InitiateInsert(p, u, v, k, id)
  \/ \E u \in Users, k \in Keys, id \in Ids : RespondRead(p, u, k, id)
  \/ \E u \in Users, id \in Ids : GetRead(p, u, id)

Resume(p) ==
  \/ InitiateNotify(p)
  \/ RespondUpdate(p)
  \/ RespondNotify(p)
  \/ RespondReply(p)
  \/ GetDelete(p)
  \/ GetReply(p)

Fail(p) == DeleteFails(p) \/ Cancel(p)

Next ==
  \/ \E p \in Procs : Begin(p) \/ Resume(p) \/ Fail(p)
  \/ Purge
  \/ PurgeFails
  \/ Crash
  \/ Tick

Spec == Init /\ [][Next]_vars

-----------------------------------------------------------------------------
\* Every variable has the type its table or handler gives it.
TypeOK ==
  /\ now \in Nat
  /\ rows \in [Ids -> Row \cup {None, Gone}]
  /\ published \subseteq Notification
  /\ replies \subseteq Reply
  /\ task \in [Procs -> Task]
  /\ faults \in 0 .. MaxFaults
  /\ purge_at \in Nat
  /\ since \in Nat
  /\ purged \subseteq Ids
  /\ lost \subseteq Ids

\* The checks of initiator_id and responder_id hold across overlapping calls:
\* the keys in any answer come from the two parties of that exchange, each in
\* its own role.
KeysFromTheirParties ==
  \A r \in replies :
    /\ Holder[r.row.initiator_pubkey] = r.row.initiator_id
    /\ r.row.responder_pubkey # None
    /\ Holder[r.row.responder_pubkey] = r.row.responder_id

\* respond() announces an answer after it has stored it, and get() discards it
\* only for the initiator: an announced exchange is still answered, or its
\* answer went to the initiator or is on its way there, or the exchange
\* expired, or a fault cut the last answer off.
AnnouncedAnswersReachInitiator ==
  \A m \in published :
    LET id == m.exchange_id IN
    m.type = "exchange_complete" =>
      \/ Answered(id)
      \/ \E r \in replies : r.exchange_id = id /\ r.to = m.to
      \/ \E p \in Procs : /\ task[p].pc = "g_reply"
                          /\ task[p].id = id /\ task[p].user = m.to
      \/ id \in purged \cup lost

\* The UPDATE of a respond() that was overtaken by the purge or by the get()
\* of the initiator never brings a discarded record back.
DiscardedForGood ==
  [][\A id \in Ids : rows[id] = Gone => rows'[id] = Gone]_vars

\* Nothing but the purge enforces expires_at, and neither a restart nor a
\* failed purge is made up for before another hour has passed.  A record that
\* has been expired for an hour or more, answered or not, is still there only
\* if a purge is due right now, or if the server was started or a purge failed
\* less than an hour ago.
ExpiredRowsExplained ==
  \A id \in Ids :
    Exists(id) /\ now >= rows[id].expires_at + Period =>
      PurgeDue \/ now < since + Period

\* exchange.rs on respond(): "exchange already has a response" is a conflict,
\* that is, a stored answer is not replaced by a later one.
AnswerNeverReplaced ==
  [][\A id \in Ids : Answered(id) /\ Exists(id)' =>
       rows'[id].responder_pubkey = rows[id].responder_pubkey]_vars
=============================================================================
