--------------------------- MODULE PairingProofs ---------------------------
(***************************************************************************)
(* Proofs about Pairing: the clients, the handlers that serve them, the    *)
(* purge and the faults together, for any number of users, keys, exchanges *)
(* and request slots.                                                      *)
(***************************************************************************)
EXTENDS Pairing, ExchangeProofs

USE ExchangeAssumption, PairingAssumption

-----------------------------------------------------------------------------
(* Calls and requests.  A call waits for one request, and what the call     *)
(* knows of the exchange is what its request has read.                      *)

Responding == {"x_update", "x_notify", "x_reply"}
Getting == {"g_delete", "g_reply"}

\* What a client call of user u holds in its variables.
GoodCall(c) ==
  /\ c \in Call
  /\ c.pc # "idle" => c.id \in Ids /\ c.key \in Keys
  /\ c.pc \in {"initiate", "get"} => c.role = "initiator"
  /\ c.pc \in {"fetched", "respond"} => c.role = "responder"
  /\ c.pc \in {"fetched", "respond", "relate"} =>
       c.peer \in Users /\ c.peer_key \in Keys

CallsGood == \A u \in Users : GoodCall(call[u])

\* Call c waits for the request in task t.
Waiting(c, t) ==
  /\ c.id = t.id
  /\ t.pc = "i_notify" =>
       /\ c.pc = "initiate"
       /\ t.user = t.row.initiator_id /\ t.key = t.row.initiator_pubkey
  /\ t.pc \in Responding =>
       /\ c.pc = "respond" /\ c.key = t.key
       /\ c.peer = t.row.initiator_id /\ c.peer_key = t.row.initiator_pubkey
  /\ t.pc \in Getting => c.pc = "get" /\ c.key = t.row.initiator_pubkey

\* Every request has a call that waits for it, and no call has two requests.
Linked ==
  \A p \in Procs :
    task[p].pc # "idle" =>
      /\ Waiting(call[task[p].user], task[p])
      /\ \A q \in Procs :
           task[q].pc # "idle" /\ task[q].user = task[p].user => p = q

\* Exchange id was created by user i with key j.
Origin(id, i, j) ==
  /\ rows[id] # None
  /\ Exists(id) => rows[id].initiator_id = i /\ rows[id].initiator_pubkey = j

\* What clients remember of an exchange between two requests.
Sourced ==
  /\ \A u \in Users : call[u].pc = "fetched" =>
       Origin(call[u].id, call[u].peer, call[u].peer_key)
  /\ \A c \in pending : Origin(c.id, c.user, c.key)

\* The type invariant strengthened to an inductive one.
PairInv == TypeInv /\ PairingTypeOK /\ CallsGood /\ Linked /\ Sourced

-----------------------------------------------------------------------------
(* Steps *)

\* Every step of the composition is a step of the server, but for two faults
\* that the server does not notice.
LEMMA ServerStep ==
  ASSUME PairInv, [PairingNext]_pairingVars
  PROVE  \/ [Next]_vars
         \/ \E u \in Users : Abort(u)
         \/ \E p \in Procs : Unheard(p)
<1>1. ASSUME NEW u \in Users, NEW p \in Procs, NEW v \in Users \ {u},
             NEW k \in Keys, NEW id \in Ids, CallInitiate(p, u, v, k, id)
      PROVE  Next
  BY <1>1 DEF CallInitiate, Next, Begin
<1>2. ASSUME NEW u \in Users, NEW p \in Procs, Post(p, u) PROVE Next
  <2>1. call[u].key \in Keys /\ call[u].id \in Ids
    BY <1>2 DEF Post, PairInv, CallsGood, GoodCall
  <2>2. RespondRead(p, u, call[u].key, call[u].id)
    BY <1>2 DEF Post
  <2> QED
    BY <2>1, <2>2 DEF Next, Begin
<1>3. ASSUME NEW p \in Procs,
             Initiated(p) \/ PostUpdate(p) \/ Posted(p) \/ Completed(p)
               \/ Serve(p)
      PROVE  Next
  BY <1>3
  DEF Initiated, PostUpdate, Posted, Completed, Receive, Serve, Next, Resume
<1>4. ASSUME NEW p \in Procs, NEW c \in pending, Complete(p, c) PROVE Next
  <2>1. c.user \in Users /\ c.id \in Ids
    BY DEF PairInv, PairingTypeOK
  <2>2. GetRead(p, c.user, c.id)
    BY <1>4 DEF Complete, Ask
  <2> QED
    BY <2>1, <2>2 DEF Next, Begin
<1>5. ASSUME NEW p \in Procs, DeleteFails(p) \/ CancelRequest(p) PROVE Next
  BY <1>5 DEF CancelRequest, Next, Fail
<1>6. CASE CrashServer \/ Purge \/ PurgeFails \/ Tick
  BY <1>6 DEF CrashServer, Next
<1>7. ASSUME NEW u \in Users, NEW k \in Keys, NEW id \in Ids, Fetch(u, k, id)
      PROVE  UNCHANGED vars
  BY <1>7 DEF Fetch
<1>8. ASSUME NEW u \in Users, Relate(u) \/ PostRefused(u)
      PROVE  UNCHANGED vars
  BY <1>8 DEF Relate, PostRefused
<1>9. CASE UNCHANGED pairingVars
  BY <1>9 DEF pairingVars
<1> QED
  BY <1>1, <1>2, <1>3, <1>4, <1>5, <1>6, <1>7, <1>8, <1>9
  DEF PairingNext, Continue

\* The server's invariant is kept in the composition.
LEMMA ServerTypeStep ==
  ASSUME PairInv, [PairingNext]_pairingVars
  PROVE  TypeInv'
<1>1. CASE [Next]_vars
  BY <1>1, TypeStep DEF PairInv
<1>2. ASSUME NEW u \in Users, Abort(u) PROVE TypeInv'
  BY <1>2, FaultTyped
  DEF Abort, PairInv, TypeInv, TypeOK, RowsGood, TasksGood, RepliesGood,
      TasksMatch, Exists, timer
<1>3. ASSUME NEW p \in Procs, Unheard(p) PROVE TypeInv'
  <2> USE DEF PairInv, TypeInv
  <2>1. task[p].row \in Row /\ task[p].id \in Ids
    BY <1>3 DEF Unheard, TasksGood, GoodTask, GoodRow
  <2>2. published' \subseteq Notification
    BY <1>3, <2>1 DEF Unheard, Publish, Notification, TypeOK, Row
  <2>3. task' \in [Procs -> Task] /\ TasksGood'
    BY <1>3, IdleGood, SlotGood DEF Unheard, Return
  <2>4. TasksMatch'
    BY <1>3 DEF Unheard, Return, TasksMatch, Exists, Idle, TypeOK
  <2> QED
    BY <1>3, <2>2, <2>3, <2>4, FaultTyped
    DEF Unheard, TypeOK, RowsGood, RepliesGood, Exists, timer
<1> QED
  BY <1>1, <1>2, <1>3, ServerStep

\* A row is created, answered and discarded, and keeps its origin.
LEMMA OriginStep ==
  ASSUME PairInv, [PairingNext]_pairingVars, NEW id \in Ids, NEW i, NEW j,
         Origin(id, i, j)
  PROVE  Origin(id, i, j)'
<1>1. CASE rows'[id] = rows[id]
  BY <1>1 DEF Origin, Exists
<1>2. CASE rows'[id] = Gone
  BY <1>2 DEF Origin, Exists
<1>3. ASSUME Exists(id), NEW k \in Keys,
             rows'[id] = [rows[id] EXCEPT !.responder_pubkey = k]
      PROVE  Origin(id, i, j)'
  <2>1. rows[id] \in Row
    BY <1>3 DEF PairInv, TypeInv, RowsGood, GoodRow
  <2>2. /\ rows'[id] \in Row /\ rows'[id].initiator_id = rows[id].initiator_id
        /\ rows'[id].initiator_pubkey = rows[id].initiator_pubkey
    BY <1>3, <2>1 DEF Row
  <2> QED
    BY <1>3, <2>2 DEF Origin, Exists
<1>4. CASE [Next]_vars
  BY <1>1, <1>2, <1>3, <1>4, RowStep DEF PairInv, Origin
<1> QED
  BY <1>1, <1>4, ServerStep DEF Abort, Unheard

\* What clients remember stays true if what they newly learn is.
LEMMA SourcedStep ==
  ASSUME PairInv, [PairingNext]_pairingVars,
         \A u \in Users : call'[u].pc = "fetched" =>
           \/ call'[u] = call[u]
           \/ Origin(call[u].id, call[u].peer, call[u].peer_key)',
         \A c \in pending' : c \in pending \/ Origin(c.id, c.user, c.key)'
  PROVE  Sourced'
<1>1. ASSUME NEW u \in Users, call'[u].pc = "fetched", call'[u] = call[u]
      PROVE  Origin(call[u].id, call[u].peer, call[u].peer_key)'
  <2>1. /\ call[u].id \in Ids
        /\ Origin(call[u].id, call[u].peer, call[u].peer_key)
    BY <1>1 DEF PairInv, CallsGood, GoodCall, Sourced
  <2>2. PICK id, i, j : id = call[u].id /\ i = call[u].peer
                          /\ j = call[u].peer_key
    OBVIOUS
  <2>3. Origin(id, i, j)'
    BY <2>1, <2>2, OriginStep
  <2> QED
    BY <1>1, <2>2, <2>3 DEF Origin, Exists
<1>2. ASSUME NEW c \in pending PROVE Origin(c.id, c.user, c.key)'
  <2>1. c.id \in Ids /\ Origin(c.id, c.user, c.key)
    BY DEF PairInv, PairingTypeOK, Sourced
  <2> QED
    BY <2>1, OriginStep
<1> QED
  BY <1>1, <1>2 DEF Sourced

\* A user whose call waits for nothing has no request.
LEMMA NoRequest ==
  ASSUME PairInv, NEW u \in Users, call[u].pc \in {"idle", "fetched", "relate"},
         NEW q \in Procs, task[q].pc # "idle"
  PROVE  task[q].user \in Users \ {u}
<1>1. task[q].user \in Users /\ task[q].pc \in Stage
  BY DEF PairInv, TypeInv, TasksGood, GoodTask, Task
<1>2. Waiting(call[task[q].user], task[q])
  BY DEF PairInv, Linked
<1> QED
  BY <1>1, <1>2 DEF Waiting, Stage, Responding, Getting

\* Who has a request has no other.
LEMMA OneRequest ==
  ASSUME PairInv, NEW p \in Procs, task[p].pc # "idle", NEW q \in Procs \ {p},
         task[q].pc # "idle"
  PROVE  task[q].user \in Users \ {task[p].user}
BY DEF PairInv, TypeInv, TasksGood, GoodTask, Linked

\* A call of user u and the request in slot p move together.
LEMMA LinkSlot ==
  ASSUME PairInv, NEW p \in Procs, NEW u \in Users, NEW t,
         task' = [task EXCEPT ![p] = t],
         \A q \in Procs \ {p} : task[q].pc # "idle" =>
           task[q].user \in Users \ {u},
         \A v \in Users \ {u} : call'[v] = call[v],
         t.pc # "idle" => t.user = u /\ Waiting(call'[u], t)
  PROVE  Linked'
<1>1. task'[p] = t /\ \A q \in Procs \ {p} : task'[q] = task[q]
  BY DEF PairInv, TypeInv, TypeOK
<1>2. ASSUME NEW q \in Procs, task'[q].pc # "idle"
      PROVE  Waiting(call'[task'[q].user], task'[q])
  BY <1>1, <1>2 DEF PairInv, Linked
<1>3. ASSUME NEW q \in Procs, task'[q].pc # "idle",
             NEW r \in Procs, task'[r].pc # "idle", task'[r].user = task'[q].user
      PROVE  q = r
  BY <1>1, <1>3 DEF PairInv, Linked
<1> QED
  BY <1>2, <1>3 DEF Linked, Waiting

\* A call moves that has no request.
LEMMA LinkCall ==
  ASSUME PairInv, NEW u \in Users, call[u].pc \in {"idle", "fetched", "relate"},
         \A v \in Users \ {u} : call'[v] = call[v], task' = task
  PROVE  Linked'
<1>1. \A q \in Procs : task[q].pc # "idle" => task[q].user \in Users \ {u}
  BY NoRequest
<1> QED
  BY <1>1 DEF PairInv, Linked, Waiting

\* A call that is set leaves the others alone.
LEMMA CallSet ==
  ASSUME PairInv, NEW u \in Users, NEW c, SetCall(u, c)
  PROVE  /\ call'[u] = c /\ \A v \in Users \ {u} : call'[v] = call[v]
         /\ GoodCall(c) => call' \in [Users -> Call] /\ CallsGood'
BY DEF SetCall, PairInv, PairingTypeOK, CallsGood, GoodCall

\* The initial state satisfies the invariant.
LEMMA PairInit == PairingInit => PairInv
<1> SUFFICES ASSUME PairingInit PROVE PairInv
  OBVIOUS
<1>1. TypeInv
  BY TypeInit DEF PairingInit
<1>2. call \in [Users -> Call] /\ CallsGood
  BY DEF PairingInit, CallsGood, GoodCall, NoCall, Call, CallStage, Roles
<1> QED
  BY <1>1, <1>2
  DEF PairingInit, Init, PairInv, TypeInv, PairingTypeOK, Linked, Sourced,
      Idle, NoCall

\* Calls that are cut off leave the other calls alone.
LEMMA CutKept ==
  ASSUME PairInv, NEW S, S \subseteq Users, CutCalls(S),
         \A u \in S : call[u].id \in Ids
  PROVE  /\ call' \in [Users -> Call] /\ CallsGood' /\ cut' \subseteq Ids
         /\ \A u \in Users : call'[u] = IF u \in S THEN NoCall ELSE call[u]
         /\ UNCHANGED <<generated, pending, relationships>>
<1>1. \A u \in Users : call'[u] = IF u \in S THEN NoCall ELSE call[u]
  BY DEF CutCalls
<1>2. GoodCall(NoCall)
  BY DEF GoodCall, NoCall, Call, CallStage, Roles
<1>3. call' \in [Users -> Call] /\ CallsGood'
  <2>1. \A u \in Users : GoodCall(call'[u])
    BY <1>1, <1>2 DEF PairInv, CallsGood
  <2> QED
    BY <2>1 DEF CutCalls, CallsGood, GoodCall
<1>4. cut' \subseteq Ids
  BY DEF CutCalls, PairInv, PairingTypeOK
<1> QED
  BY <1>1, <1>3, <1>4 DEF CutCalls

\* What a request that is under way says of its call.
LEMMA CallOf ==
  ASSUME PairInv, NEW p \in Procs, task[p].pc # "idle"
  PROVE  /\ task[p].user \in Users /\ task[p].id \in Ids
         /\ GoodCall(call[task[p].user])
         /\ Waiting(call[task[p].user], task[p])
         /\ task[p].row \in Row /\ task[p].pc \in Stage
BY DEF PairInv, TypeInv, TasksGood, GoodTask, GoodRow, CallsGood, Linked, Task

\* A step of a client, of the handler that serves it, of the purge or of a
\* fault preserves the invariant.
LEMMA PairStep == PairInv /\ [PairingNext]_pairingVars => PairInv'
<1> SUFFICES ASSUME PairInv, [PairingNext]_pairingVars PROVE PairInv'
  OBVIOUS
<1>0. /\ TypeInv' /\ TypeOK' /\ task \in [Procs -> Task]
      /\ call \in [Users -> Call] /\ generated \subseteq Keys
      /\ pending \subseteq [user : Users, id : Ids, key : Keys]
      /\ relationships \subseteq Relationship /\ cut \subseteq Ids
  BY ServerTypeStep DEF PairInv, PairingTypeOK, TypeInv, TypeOK
<1>1. GoodCall(NoCall) /\ NoCall.pc = "idle"
  BY DEF GoodCall, NoCall, Call, CallStage, Roles
<1>2. \A p \in Procs : Idle.pc = "idle" /\ (Return(p) => task'[p].pc = "idle")
  BY <1>0 DEF Return, Idle
<1>3. ASSUME NEW u \in Users, NEW p \in Procs, NEW v \in Users \ {u},
             NEW k \in Keys, NEW id \in Ids, CallInitiate(p, u, v, k, id)
      PROVE  PairInv'
  <2> DEFINE c == [NoCall EXCEPT !.pc = "initiate", !.id = id, !.key = k]
             r == NewRow(u, v, k, now + Ttl)
             t == [pc |-> "i_notify", user |-> u, id |-> id, key |-> k,
                   row |-> r]
  <2>1. GoodCall(c) /\ c.pc = "initiate" /\ c.id = id
    BY DEF GoodCall, NoCall, Call, CallStage, Roles
  <2>2. Waiting(c, t)
    BY <2>1 DEF Waiting, NewRow, Responding, Getting
  <2>3. /\ SetCall(u, c) /\ UNCHANGED <<pending, relationships, cut>>
        /\ generated' \subseteq Keys /\ call[u].pc = "idle"
        /\ task' = [task EXCEPT ![p] = t]
    BY <1>0, <1>3
    DEF CallInitiate, Generate, InitiateInsert, Create, Start, NewRow
  <2>4. \A q \in Procs : task[q].pc # "idle" => task[q].user \in Users \ {u}
    BY <2>3, NoRequest
  <2> HIDE DEF c
  <2>5. Linked'
    <3>1. t.user = u /\ Waiting(call'[u], t)
      BY <2>2, <2>3, CallSet
    <3> HIDE DEF t
    <3> QED
      BY <2>3, <2>4, <3>1, CallSet, LinkSlot
  <2>6. Sourced'
    BY <2>1, <2>3, CallSet, SourcedStep
  <2> QED
    BY <1>0, <2>1, <2>3, <2>5, <2>6, CallSet DEF PairInv, PairingTypeOK
<1>4. ASSUME NEW p \in Procs, Initiated(p) PROVE PairInv'
  <2>1. PICK u \in Users : u = task[p].user
    BY <1>4, CallOf DEF Initiated, InitiateNotify
  <2>2. PICK r : r = [user |-> u, id |-> task[p].id, key |-> task[p].key]
    OBVIOUS
  <2>3. /\ SetCall(u, NoCall) /\ pending' = pending \cup {r}
        /\ UNCHANGED <<generated, relationships, cut, rows>>
        /\ task' = [task EXCEPT ![p] = Idle] /\ task[p].pc = "i_notify"
    BY <1>4, <2>1, <2>2 DEF Initiated, InitiateNotify, Return, EndCall
  <2>4. /\ task[p].id \in Ids /\ task[p].row \in Row
        /\ task[p].user = task[p].row.initiator_id
        /\ task[p].key = task[p].row.initiator_pubkey
    BY <2>3, CallOf DEF Waiting
  <2>5. /\ r \in [user : Users, id : Ids, key : Keys]
        /\ Origin(r.id, r.user, r.key)
    BY <2>1, <2>2, <2>3, <2>4
    DEF PairInv, TypeInv, TasksMatch, Same, Origin, Row
  <2>6. Origin(r.id, r.user, r.key)'
    BY <2>5, OriginStep
  <2>7. Linked'
    <3>1. \A q \in Procs \ {p} : task[q].pc # "idle" =>
            task[q].user \in Users \ {u}
      BY <2>1, <2>3, OneRequest
    <3>2. \A v \in Users \ {u} : call'[v] = call[v]
      BY <1>1, <2>3, CallSet
    <3> QED
      BY <1>2, <2>3, <3>1, <3>2, LinkSlot
  <2>8. Sourced'
    BY <1>1, <2>3, <2>6, CallSet, SourcedStep
  <2> QED
    BY <1>0, <1>1, <2>3, <2>5, <2>7, <2>8, CallSet DEF PairInv, PairingTypeOK
<1>5. ASSUME NEW u \in Users, NEW k \in Keys, NEW id \in Ids, Fetch(u, k, id)
      PROVE  PairInv'
  <2> DEFINE c == [pc |-> "fetched", role |-> "responder", id |-> id,
                   key |-> k, peer |-> rows[id].initiator_id,
                   peer_key |-> rows[id].initiator_pubkey]
  <2>1. rows[id] \in Row /\ Exists(id)
    BY <1>5 DEF Fetch, PairInv, TypeInv, RowsGood, GoodRow
  <2>2. GoodCall(c) /\ Origin(c.id, c.peer, c.peer_key)
    BY <2>1 DEF GoodCall, Call, CallStage, Roles, Row, Origin
  <2>3. /\ SetCall(u, c) /\ UNCHANGED <<task, pending, relationships, cut>>
        /\ generated' \subseteq Keys /\ call[u].pc = "idle" /\ rows' = rows
    BY <1>0, <1>5 DEF Fetch, Generate, vars
  <2> HIDE DEF c
  <2>4. Linked'
    BY <2>3, CallSet, LinkCall
  <2>5. Sourced'
    <3>1. call'[u] = c /\ \A w \in Users \ {u} : call'[w] = call[w]
      BY <2>3, CallSet
    <3>2. Origin(call[u].id, call[u].peer, call[u].peer_key)'
      BY <2>2, <2>3, <3>1 DEF Origin, Exists
    <3> QED
      BY <2>3, <3>1, <3>2, SourcedStep
  <2> QED
    BY <1>0, <2>2, <2>3, <2>4, <2>5, CallSet DEF PairInv, PairingTypeOK
<1>6. ASSUME NEW u \in Users, NEW p \in Procs, Post(p, u) PROVE PairInv'
  <2> DEFINE c == [call[u] EXCEPT !.pc = "respond"]
             t == [pc |-> "x_update", user |-> u, id |-> call[u].id,
                   key |-> call[u].key, row |-> rows[call[u].id]]
  <2>1. /\ call[u].pc = "fetched" /\ GoodCall(call[u]) /\ Exists(call[u].id)
        /\ Origin(call[u].id, call[u].peer, call[u].peer_key)
    BY <1>6 DEF Post, RespondRead, Respond, PairInv, CallsGood, Sourced
  <2>2. /\ GoodCall(c) /\ c.pc = "respond" /\ c.id = call[u].id
        /\ c.key = call[u].key /\ c.peer = call[u].peer
        /\ c.peer_key = call[u].peer_key
    BY <2>1 DEF GoodCall, Call, CallStage
  <2>3. Waiting(c, t) /\ t.user = u
    BY <2>1, <2>2 DEF Waiting, Origin, Responding, Getting
  <2>4. /\ SetCall(u, c)
        /\ UNCHANGED <<generated, pending, relationships, cut>>
        /\ task' = [task EXCEPT ![p] = t]
    BY <1>6 DEF Post, RespondRead, Respond, Start, CallGoto, SetCall
  <2> HIDE DEF c, t
  <2>5. call'[u] = c /\ \A v \in Users \ {u} : call'[v] = call[v]
    BY <2>4, CallSet
  <2>6. Linked'
    BY <2>1, <2>3, <2>4, <2>5, NoRequest, LinkSlot
  <2>7. Sourced'
    BY <2>2, <2>4, <2>5, SourcedStep
  <2> QED
    BY <1>0, <2>2, <2>4, <2>6, <2>7, CallSet DEF PairInv, PairingTypeOK
<1>7. ASSUME NEW u \in Users, PostRefused(u) PROVE PairInv'
  <2>1. /\ SetCall(u, NoCall) /\ call[u].pc = "fetched"
        /\ UNCHANGED <<task, generated, pending, relationships, cut>>
    BY <1>7 DEF PostRefused, EndCall, vars
  <2>2. Linked' /\ Sourced'
    BY <1>1, <2>1, CallSet, LinkCall, SourcedStep
  <2> QED
    BY <1>0, <1>1, <2>1, <2>2, CallSet DEF PairInv, PairingTypeOK
<1>8. ASSUME NEW p \in Procs, NEW pc \in Stage \ {"idle"}, NEW t, task[p].pc # "idle",
             t = [task[p] EXCEPT !.pc = pc]
      PROVE  /\ t.pc = pc /\ t.user = task[p].user /\ t.id = task[p].id
             /\ t.key = task[p].key /\ t.row = task[p].row
  BY <1>0, <1>8 DEF Task
\* The handler goes on and its client waits.
<1>9. ASSUME NEW p \in Procs, NEW pc, Goto(p, pc), UNCHANGED client,
             \/ task[p].pc = "x_update" /\ pc = "x_notify"
             \/ task[p].pc = "x_notify" /\ pc = "x_reply"
             \/ task[p].pc = "g_delete" /\ pc = "g_reply"
      PROVE  PairInv'
  <2>1. PICK t : t = [task[p] EXCEPT !.pc = pc]
    OBVIOUS
  <2>2. PICK u \in Users : u = task[p].user
    BY <1>9, CallOf
  <2>3. t.pc = pc /\ t.user = u /\ Waiting(call[u], t)
    BY <1>8, <1>9, <2>1, <2>2, CallOf
    DEF Waiting, Responding, Getting, Stage
  <2>4. task' = [task EXCEPT ![p] = t] /\ call' = call
    BY <1>9, <2>1 DEF Goto, client
  <2>5. Linked'
    <3>1. \A q \in Procs \ {p} : task[q].pc # "idle" =>
            task[q].user \in Users \ {u}
      BY <1>9, <2>2, OneRequest
    <3> QED
      BY <2>3, <2>4, <3>1, LinkSlot
  <2>6. Sourced'
    BY <1>9, SourcedStep DEF client
  <2> QED
    BY <1>0, <1>9, <2>5, <2>6 DEF client, PairInv, PairingTypeOK, CallsGood
\* The handler is done and its client goes on, or the call is over.
<1>10. ASSUME NEW p \in Procs, task[p].pc # "idle", Return(p), NEW c,
              GoodCall(c), c.pc # "fetched", SetCall(task[p].user, c),
              UNCHANGED <<generated, pending, relationships, cut>>
       PROVE  PairInv'
  <2>1. PICK u \in Users : u = task[p].user
    BY <1>10, CallOf
  <2>2. Linked'
    <3>1. \A q \in Procs \ {p} : task[q].pc # "idle" =>
            task[q].user \in Users \ {u}
      BY <1>10, <2>1, OneRequest
    <3>2. \A v \in Users \ {u} : call'[v] = call[v]
      BY <1>10, <2>1, CallSet
    <3> QED
      BY <1>2, <1>10, <3>1, <3>2, LinkSlot DEF Return
  <2>3. Sourced'
    BY <1>10, <2>1, CallSet, SourcedStep
  <2> QED
    BY <1>0, <1>10, <2>1, <2>2, <2>3, CallSet DEF PairInv, PairingTypeOK
<1>11. ASSUME NEW p \in Procs, PostUpdate(p) PROVE PairInv'
  <2>1. CASE Exists(task[p].id)
    BY <1>9, <1>11, <2>1 DEF PostUpdate, RespondUpdate, client
  <2>2. CASE ~Exists(task[p].id)
    BY <1>1, <1>10, <1>11, <2>2 DEF PostUpdate, RespondUpdate, EndCall
  <2> QED
    BY <2>1, <2>2
<1>12. ASSUME NEW p \in Procs, Serve(p) PROVE PairInv'
  BY <1>9, <1>12 DEF Serve, RespondNotify, GetDelete
<1>13. ASSUME NEW p \in Procs, DeleteFails(p), UNCHANGED client PROVE PairInv'
  BY <1>9, <1>13 DEF DeleteFails
<1>14. ASSUME NEW p \in Procs, Posted(p) PROVE PairInv'
  <2>1. PICK u \in Users : u = task[p].user
    BY <1>14, CallOf DEF Posted, RespondReply
  <2>2. PICK c : c = [call[u] EXCEPT !.pc = "relate"]
    OBVIOUS
  <2>3. GoodCall(call[u]) /\ call[u].pc = "respond"
    BY <1>14, <2>1, CallOf DEF Posted, RespondReply, Waiting, Responding
  <2>4. GoodCall(c) /\ c.pc = "relate"
    BY <2>2, <2>3 DEF GoodCall, Call, CallStage
  <2> QED
    BY <1>10, <1>14, <2>1, <2>2, <2>4
    DEF Posted, RespondReply, CallGoto, SetCall
<1>15. ASSUME NEW p \in Procs, Completed(p) PROVE PairInv'
  <2>1. PICK u \in Users : u = task[p].user
    BY <1>15, CallOf DEF Completed, Receive, GetReply
  <2>2. PICK c : c = [call[u] EXCEPT !.pc = "relate",
                        !.peer = task[p].row.responder_id,
                        !.peer_key = task[p].row.responder_pubkey]
    OBVIOUS
  <2>3. GoodCall(call[u]) /\ call[u].pc = "get"
    BY <1>15, <2>1, CallOf DEF Completed, Receive, GetReply, Waiting, Getting
  <2>4. task[p].row \in Row /\ task[p].row.responder_pubkey # None
    BY <1>15
    DEF Completed, Receive, GetReply, PairInv, TypeInv, TasksGood, GoodTask,
        GoodRow
  <2>5. GoodCall(c) /\ c.pc = "relate"
    BY <2>2, <2>3, <2>4 DEF GoodCall, Call, CallStage, Row
  <2> QED
    BY <1>10, <1>15, <2>1, <2>2, <2>5 DEF Completed, Receive, GetReply
<1>16. ASSUME NEW p \in Procs, NEW x \in pending, Complete(p, x) PROVE PairInv'
  <2>1. PICK u \in Users, id \in Ids : u = x.user /\ id = x.id /\ x.key \in Keys
    BY <1>0
  <2>2. PICK c : c = [NoCall EXCEPT !.pc = "get", !.id = id, !.key = x.key]
    OBVIOUS
  <2>3. GoodCall(c) /\ c.pc = "get" /\ c.id = id /\ c.key = x.key
    BY <2>1, <2>2 DEF GoodCall, NoCall, Call, CallStage, Roles
  <2>4. PICK t : t = [pc |-> "g_delete", user |-> u, id |-> id, key |-> None,
                      row |-> rows[id]]
    OBVIOUS
  <2>5. /\ SetCall(u, c) /\ call[u].pc = "idle"
        /\ task' = [task EXCEPT ![p] = t] /\ Exists(id)
        /\ UNCHANGED <<generated, pending, relationships, cut>>
    BY <1>16, <2>1, <2>2, <2>4
    DEF Complete, Ask, GetRead, Start, Answered
  <2>6. t.user = u /\ t.pc = "g_delete" /\ Waiting(c, t)
    BY <2>1, <2>3, <2>4, <2>5
    DEF PairInv, Sourced, Origin, Waiting, Responding, Getting
  <2>7. Linked'
    <3>1. \A q \in Procs \ {p} : task[q].pc # "idle" =>
            task[q].user \in Users \ {u}
      BY <2>5, NoRequest
    <3>2. call'[u] = c /\ \A v \in Users \ {u} : call'[v] = call[v]
      BY <2>5, CallSet
    <3> QED
      BY <2>5, <2>6, <3>1, <3>2, LinkSlot
  <2>8. Sourced'
    BY <2>3, <2>5, CallSet, SourcedStep
  <2> QED
    BY <1>0, <2>3, <2>5, <2>7, <2>8, CallSet DEF PairInv, PairingTypeOK
<1>17. ASSUME NEW u \in Users, Relate(u) PROVE PairInv'
  <2>1. PICK c, s : c = call[u] /\ s = Derive(c.key, c.peer_key)
    OBVIOUS
  <2>2. /\ c.pc = "relate" /\ GoodCall(c) /\ s \in Secret
    BY <1>17, <2>1 DEF Relate, PairInv, CallsGood, GoodCall, Derive, Secret
  <2>3. /\ c.peer \in Users /\ c.role \in Roles /\ c.id \in Ids
        /\ OutboundTopic(s, u, c.peer) \in Topic
        /\ InboundTopic(s, u, c.peer) \in Topic
    BY <2>2 DEF GoodCall, Call, Topic, OutboundTopic, InboundTopic
  <2>4. relationships' \subseteq Relationship
    BY <1>0, <1>17, <2>1, <2>3 DEF Relate, Relationship
  <2>5. SetCall(u, NoCall) /\ UNCHANGED <<task, generated, pending, cut>>
    BY <1>17 DEF Relate, EndCall, vars
  <2>6. Linked' /\ Sourced'
    BY <1>1, <2>1, <2>2, <2>5, CallSet, LinkCall, SourcedStep
  <2> QED
    BY <1>0, <1>1, <2>4, <2>5, <2>6, CallSet DEF PairInv, PairingTypeOK
\* A fault ends the calls of the users in S and the requests they wait for.
<1>18. ASSUME NEW S, S \subseteq Users, CutCalls(S),
              \A u \in S : call[u].id \in Ids, Linked'
       PROVE  PairInv'
  <2>1. Sourced'
    BY <1>1, <1>18, CutKept, SourcedStep
  <2> QED
    BY <1>0, <1>18, <2>1, CutKept DEF PairInv, PairingTypeOK
<1>19. ASSUME NEW u \in Users, Abort(u) PROVE PairInv'
  <2>1. /\ CutCalls({u}) /\ call[u].pc \in {"fetched", "relate"}
        /\ task' = task /\ {u} \subseteq Users /\ call[u].id \in Ids
    BY <1>19 DEF Abort, PairInv, CallsGood, GoodCall
  <2>2. Linked'
    BY <2>1, CutKept, LinkCall
  <2> QED
    BY <1>18, <2>1, <2>2
<1>20. ASSUME NEW p \in Procs, CancelRequest(p) \/ Unheard(p) PROVE PairInv'
  <2>1. task[p].pc # "idle" /\ Return(p) /\ CutCalls({task[p].user})
    BY <1>20 DEF CancelRequest, Cancel, Unheard
  <2>2. PICK u \in Users : u = task[p].user /\ call[u].id \in Ids
    BY <2>1, CallOf DEF Waiting
  <2>3. CutCalls({u}) /\ {u} \subseteq Users
    BY <2>1, <2>2
  <2>4. Linked'
    <3>1. \A q \in Procs \ {p} : task[q].pc # "idle" =>
            task[q].user \in Users \ {u}
      BY <2>1, <2>2, OneRequest
    <3>2. \A v \in Users \ {u} : call'[v] = call[v]
      BY <2>2, <2>3, CutKept
    <3> QED
      BY <1>2, <2>1, <3>1, <3>2, LinkSlot DEF Return
  <2> QED
    BY <1>18, <2>2, <2>3, <2>4
<1>21. CASE CrashServer
  <2>1. PICK S : S = {task[p].user : p \in {q \in Procs : task[q].pc # "idle"}}
    OBVIOUS
  <2>2. S \subseteq Users /\ \A u \in S : call[u].id \in Ids
    BY <2>1, CallOf DEF Waiting
  <2>3. Linked'
    BY <1>21 DEF CrashServer, Crash, Linked, Idle
  <2> QED
    BY <1>18, <1>21, <2>1, <2>2, <2>3 DEF CrashServer
<1>22. ASSUME UNCHANGED <<client, task>> PROVE PairInv'
  <2>1. Linked'
    BY <1>22 DEF client, PairInv, Linked, Waiting
  <2>2. Sourced'
    BY <1>22, SourcedStep DEF client
  <2> QED
    BY <1>0, <1>22, <2>1, <2>2 DEF client, PairInv, PairingTypeOK, CallsGood
<1>23. CASE (Purge \/ PurgeFails \/ Tick) /\ UNCHANGED client
  BY <1>22, <1>23 DEF Purge, PurgeOf, PurgeFails, Tick
<1>24. CASE UNCHANGED pairingVars
  BY <1>22, <1>24 DEF pairingVars, vars
<1> QED
  BY <1>3, <1>4, <1>5, <1>6, <1>7, <1>11, <1>12, <1>13, <1>14, <1>15, <1>16,
     <1>17, <1>19, <1>20, <1>21, <1>23, <1>24
  DEF PairingNext, Continue

\* The tables and the variables of the client library keep their types, for any
\* number of users, exchanges and overlapping calls.
THEOREM PairingTypeCorrect == PairingSpec => []PairingTypeOK
<1>1. PairInv => PairingTypeOK
  BY DEF PairInv
<1> QED
  BY <1>1, PairInit, PairStep, PTL DEF PairingSpec

-----------------------------------------------------------------------------
(* Who holds the outcome of exchange id: on the responder's side, on the    *)
(* initiator's side.                                                        *)

Replying(id, S) == \E p \in Procs : task[p].pc \in S /\ task[p].id = id

Relating(role, id) ==
  \E u \in Users :
    call[u].pc = "relate" /\ call[u].role = role /\ call[u].id = id

\* The initiator's get() has read the outcome.
Fetched(id) == Replying(id, Getting)

RespondersSide(id) ==
  \/ Replying(id, {"x_notify", "x_reply"})
  \/ Relating("responder", id)
  \/ Related("responder", id)

InitiatorsSide(id) ==
  \/ Replying(id, {"g_reply"})
  \/ Relating("initiator", id)
  \/ Related("initiator", id)

\* No outcome is known of an exchange that has not been answered, and who is
\* about to answer it is the first to do so.
FirstAnswer ==
  /\ \A id \in Ids : rows[id] # Gone /\ ~Answered(id) =>
       ~RespondersSide(id) /\ ~Fetched(id) /\ ~InitiatorsSide(id)
  /\ \A p \in Procs : task[p].pc = "x_update" => ~Answered(task[p].id)

\* What one side has, the other side has as well, or can get, or a fault or
\* the purge came between them.
BothSides ==
  \A id \in Ids :
    /\ RespondersSide(id) =>
         Answered(id) \/ InitiatorsSide(id) \/ Spoilt(id)
    /\ Answered(id) \/ Fetched(id) \/ InitiatorsSide(id) =>
         RespondersSide(id) \/ Spoilt(id)

\* Which steps touch slot p.
LEMMA SlotStep ==
  ASSUME PairInv, [PairingNext]_pairingVars, NEW p \in Procs
  PROVE  \/ task'[p] = task[p]
         \/ Initiated(p) \/ PostUpdate(p) \/ Posted(p) \/ Completed(p)
         \/ Serve(p) \/ DeleteFails(p) \/ CancelRequest(p) \/ Unheard(p)
         \/ CrashServer
         \/ /\ task[p].pc = "idle"
            /\ \/ \E u \in Users, v \in Users, k \in Keys, id \in Ids :
                    InitiateInsert(p, u, v, k, id)
               \/ \E u \in Users, k \in Keys, id \in Ids : RespondRead(p, u, k, id)
               \/ \E u \in Users, id \in Ids : GetRead(p, u, id)
<1>0. TypeInv /\ task \in [Procs -> Task]
  BY DEF PairInv, TypeInv, TypeOK
<1>1. ASSUME NEW q \in Procs, Begin(q)
      PROVE  \/ task'[p] = task[p]
             \/ /\ task[p].pc = "idle"
                /\ \/ \E u \in Users, v \in Users, k \in Keys, id \in Ids :
                        InitiateInsert(p, u, v, k, id)
                   \/ \E u \in Users, k \in Keys, id \in Ids :
                        RespondRead(p, u, k, id)
                   \/ \E u \in Users, id \in Ids : GetRead(p, u, id)
  <2>1. CASE q # p
    BY <1>0, <1>1, <2>1, OthersWait
  <2>2. CASE q = p
    <3>1. task[p].pc = "idle"
      BY <1>1, <2>2
      DEF Begin, InitiateInsert, Create, RespondRead, Respond, GetRead
    <3> QED
      BY <1>1, <2>2, <3>1 DEF Begin
  <2> QED
    BY <2>1, <2>2
<1>2. ASSUME NEW q \in Procs \ {p}, Resume(q) \/ Fail(q) \/ Unheard(q)
      PROVE  task'[p] = task[p]
  BY <1>0, <1>2, OthersWait DEF Unheard, Return
<1>3. ASSUME NEW u \in Users, NEW q \in Procs, NEW v \in Users \ {u},
             NEW k \in Keys, NEW id \in Ids, CallInitiate(q, u, v, k, id)
      PROVE  Begin(q)
  BY <1>3 DEF CallInitiate, Begin
<1>4. ASSUME NEW u \in Users, NEW q \in Procs, Post(q, u) PROVE Begin(q)
  <2>1. call[u].key \in Keys /\ call[u].id \in Ids
    BY <1>4 DEF Post, PairInv, CallsGood, GoodCall
  <2> QED
    BY <1>4, <2>1 DEF Post, Begin
<1>5. ASSUME NEW q \in Procs, NEW c \in pending, Complete(q, c) PROVE Begin(q)
  <2>1. c.user \in Users /\ c.id \in Ids
    BY DEF PairInv, PairingTypeOK
  <2> QED
    BY <1>5, <2>1 DEF Complete, Ask, Begin
<1>6. ASSUME NEW q \in Procs
      PROVE  /\ Initiated(q) \/ PostUpdate(q) \/ Posted(q) \/ Completed(q)
                  \/ Serve(q) => Resume(q)
             /\ DeleteFails(q) \/ CancelRequest(q) => Fail(q)
  BY DEF Initiated, PostUpdate, Posted, Completed, Receive, Serve, Resume,
         CancelRequest, Fail
<1>7. ASSUME NEW u \in Users, NEW k \in Keys, NEW id \in Ids, Fetch(u, k, id)
      PROVE  task' = task
  BY <1>7 DEF Fetch, vars
<1>8. ASSUME NEW u \in Users, Relate(u) \/ PostRefused(u) \/ Abort(u)
      PROVE  task' = task
  BY <1>8 DEF Relate, PostRefused, Abort, vars
<1>9. CASE Purge \/ PurgeFails \/ Tick \/ UNCHANGED pairingVars
  BY <1>9 DEF Purge, PurgeOf, PurgeFails, Tick, pairingVars, vars
<1>10. ASSUME NEW u \in Users, Continue(u)
       PROVE  \/ task'[p] = task[p]
              \/ \E q \in Procs : Begin(q)
              \/ \E q \in Procs : Initiated(q) \/ PostUpdate(q) \/ Posted(q)
                                    \/ Completed(q) \/ Serve(q)
  BY <1>4, <1>8, <1>10 DEF Continue
<1>11. ASSUME NEW q \in Procs, \/ Initiated(q) \/ PostUpdate(q) \/ Posted(q)
                               \/ Completed(q) \/ Serve(q)
                               \/ DeleteFails(q) \/ CancelRequest(q)
                               \/ Unheard(q)
       PROVE  \/ task'[p] = task[p]
              \/ Initiated(p) \/ PostUpdate(p) \/ Posted(p) \/ Completed(p)
              \/ Serve(p) \/ DeleteFails(p) \/ CancelRequest(p) \/ Unheard(p)
  BY <1>2, <1>6, <1>11
<1> QED
  BY <1>1, <1>3, <1>5, <1>7, <1>8, <1>9, <1>10, <1>11 DEF PairingNext

\* The call of user u, when it has an outcome, keeps it until it registers the
\* relationship or is cut off, and has it from its request.
LEMMA CallStep ==
  ASSUME PairInv, [PairingNext]_pairingVars, NEW u \in Users
  PROVE  /\ call'[u].pc = "relate" =>
              \/ call'[u] = call[u]
              \/ \E p \in Procs : task[p].user = u /\ (Posted(p) \/ Completed(p))
         /\ call[u].pc = "relate" =>
              call'[u] = call[u] \/ Relate(u) \/ call[u].id \in cut'
<1> DEFINE Kept ==
      /\ call'[u].pc = "relate" => call'[u] = call[u]
      /\ call[u].pc = "relate" => call'[u] = call[u]
<1>0. NoCall.pc = "idle" /\ call \in [Users -> Call]
  BY DEF NoCall, PairInv, PairingTypeOK
<1>1. ASSUME NEW v \in Users, NEW c, SetCall(v, c), c.pc # "relate",
             call[v].pc # "relate"
      PROVE  Kept
  BY <1>0, <1>1 DEF SetCall
<1>2. ASSUME NEW v \in Users, NEW p \in Procs, NEW w \in Users \ {v},
             NEW k \in Keys, NEW id \in Ids, CallInitiate(p, v, w, k, id)
      PROVE  Kept
  BY <1>1, <1>2 DEF CallInitiate, NoCall
<1>3. ASSUME NEW v \in Users, NEW k \in Keys, NEW id \in Ids, Fetch(v, k, id)
      PROVE  Kept
  BY <1>1, <1>3 DEF Fetch
<1>4. ASSUME NEW v \in Users, NEW p \in Procs, Post(p, v) PROVE Kept
  BY <1>0, <1>4 DEF Post, CallGoto, Call
<1>5. ASSUME NEW v \in Users, PostRefused(v) PROVE Kept
  BY <1>0, <1>1, <1>5 DEF PostRefused, EndCall
<1>6. ASSUME NEW v \in Users, Relate(v)
      PROVE  /\ call'[u].pc = "relate" => call'[u] = call[u]
             /\ call'[u] = call[u] \/ u = v
  BY <1>0, <1>6 DEF Relate, EndCall, SetCall
<1>7. ASSUME NEW p \in Procs, Initiated(p) \/ PostUpdate(p) PROVE Kept
  <2>1. task[p].user \in Users /\ call[task[p].user].pc # "relate"
    BY <1>7, CallOf
    DEF Initiated, InitiateNotify, PostUpdate, RespondUpdate, Waiting,
        Responding
  <2> QED
    BY <1>0, <1>1, <1>7, <2>1 DEF Initiated, PostUpdate, EndCall
<1>8. ASSUME NEW p \in Procs, Posted(p) \/ Completed(p)
      PROVE  /\ call'[u] = call[u] \/ task[p].user = u
             /\ call[u].pc = "relate" => call'[u] = call[u]
  <2>1. task[p].user \in Users /\ call[task[p].user].pc # "relate"
    BY <1>8, CallOf
    DEF Posted, RespondReply, Completed, Receive, GetReply, Waiting,
        Responding, Getting
  <2> QED
    BY <1>0, <1>8, <2>1 DEF Posted, Completed, Receive, CallGoto, SetCall
<1>9. ASSUME NEW p \in Procs, NEW c \in pending, Complete(p, c) PROVE Kept
  <2>1. c.user \in Users
    BY DEF PairInv, PairingTypeOK
  <2> QED
    <3>1. PICK x : x = [NoCall EXCEPT !.pc = "get", !.id = c.id, !.key = c.key]
      OBVIOUS
    <3>2. x.pc = "get"
      BY <3>1 DEF NoCall
    <3>3. SetCall(c.user, x) /\ call[c.user].pc = "idle"
      BY <1>9, <3>1 DEF Complete, Ask
    <3> HIDE DEF Kept
    <3> QED
      BY <1>1, <2>1, <3>2, <3>3
<1>10. ASSUME NEW S, CutCalls(S)
       PROVE  /\ call'[u].pc = "relate" => call'[u] = call[u]
              /\ call'[u] = call[u] \/ call[u].id \in cut'
  BY <1>0, <1>10 DEF CutCalls
<1>11. CASE UNCHANGED client \/ UNCHANGED pairingVars
  BY <1>11 DEF pairingVars, client
<1> QED
  BY <1>2, <1>3, <1>4, <1>5, <1>6, <1>7, <1>8, <1>9, <1>10, <1>11
  DEF PairingNext, Continue, Abort, CancelRequest, Unheard, CrashServer, Serve

\* A handler in task t goes on to stage pc and keeps the rest.
Onward(t, s, pc) ==
  /\ s.pc = pc /\ s.user = t.user /\ s.id = t.id /\ s.key = t.key
  /\ s.row = t.row

\* Where a request comes to, and what it has found on the way.
LEMMA TaskMove ==
  ASSUME PairInv, [PairingNext]_pairingVars, NEW p \in Procs
  PROVE  \/ task'[p] = task[p]
         \/ task'[p].pc \in {"idle", "i_notify"}
         \/ /\ task[p].pc = "idle" /\ task'[p].pc = "x_update"
            /\ ~Answered(task'[p].id) /\ rows' = rows
         \/ /\ task[p].pc = "idle" /\ task'[p].pc = "g_delete"
            /\ Answered(task'[p].id) /\ task'[p].row = rows[task'[p].id]
            /\ rows' = rows
         \/ /\ PostUpdate(p) /\ Exists(task[p].id)
            /\ Onward(task[p], task'[p], "x_notify")
         \/ task[p].pc = "x_notify" /\ Onward(task[p], task'[p], "x_reply")
         \/ task[p].pc = "g_delete" /\ Onward(task[p], task'[p], "g_reply")
<1>0. task \in [Procs -> Task]
  BY DEF PairInv, TypeInv, TypeOK
<1>1. ASSUME NEW pc, Goto(p, pc) PROVE Onward(task[p], task'[p], pc)
  BY <1>0, <1>1 DEF Goto, Onward, Task
<1>2. CASE Return(p) \/ CrashServer
  BY <1>0, <1>2 DEF Return, CrashServer, Crash, Idle
<1>3. ASSUME NEW u \in Users, NEW v \in Users, NEW k \in Keys, NEW id \in Ids,
             InitiateInsert(p, u, v, k, id)
      PROVE  task'[p].pc = "i_notify"
  BY <1>0, <1>3 DEF InitiateInsert, Create, Start
<1>4. ASSUME NEW u \in Users, NEW k \in Keys, NEW id \in Ids,
             RespondRead(p, u, k, id)
      PROVE  /\ task[p].pc = "idle" /\ task'[p].pc = "x_update"
             /\ ~Answered(task'[p].id) /\ rows' = rows
  BY <1>0, <1>4 DEF RespondRead, Respond, Start, Answered
<1>5. ASSUME NEW u \in Users, NEW id \in Ids, GetRead(p, u, id)
      PROVE  /\ task[p].pc = "idle" /\ task'[p].pc = "g_delete"
             /\ Answered(task'[p].id) /\ task'[p].row = rows[task'[p].id]
             /\ rows' = rows
  BY <1>0, <1>5 DEF GetRead, Start
<1>6. CASE PostUpdate(p)
  BY <1>1, <1>2, <1>6 DEF PostUpdate, RespondUpdate
<1>7. CASE Serve(p) \/ DeleteFails(p)
  BY <1>1, <1>7 DEF Serve, RespondNotify, GetDelete, DeleteFails
<1>8. Initiated(p) \/ Posted(p) \/ Completed(p) \/ CancelRequest(p)
        \/ Unheard(p) => Return(p)
  BY DEF Initiated, InitiateNotify, Posted, RespondReply, Completed, Receive,
         GetReply, CancelRequest, Cancel, Unheard
<1> QED
  BY <1>2, <1>3, <1>4, <1>5, <1>6, <1>7, <1>8, SlotStep

\* How a request that carries an outcome ends.
LEMMA TaskExit ==
  ASSUME PairInv, [PairingNext]_pairingVars, NEW p \in Procs,
         task[p].pc \in {"x_notify", "x_reply", "g_reply"}
  PROVE  \/ task'[p] = task[p]
         \/ task[p].pc = "x_notify" /\ Onward(task[p], task'[p], "x_reply")
         \/ task[p].pc = "x_reply" /\ Posted(p)
         \/ task[p].pc = "g_reply" /\ Completed(p)
         \/ task[p].id \in cut'
<1>0. task \in [Procs -> Task] /\ call[task[p].user].id = task[p].id
  BY CallOf DEF PairInv, TypeInv, TypeOK, Waiting
<1>1. CASE Serve(p) \/ DeleteFails(p)
  BY <1>0, <1>1
  DEF Serve, RespondNotify, GetDelete, DeleteFails, Goto, Onward, Task
<1>2. CASE CancelRequest(p) \/ CrashServer
  BY <1>0, <1>2 DEF CancelRequest, CrashServer, CutCalls
<1> QED
  BY <1>1, <1>2, SlotStep
  DEF Initiated, InitiateNotify, PostUpdate, RespondUpdate, Posted,
      RespondReply, Completed, Receive, GetReply, Unheard

\* What the two ends derive the secret from.
LEMMA PostedCall ==
  ASSUME PairInv, NEW p \in Procs, Posted(p), NEW c, c = call'[task[p].user]
  PROVE  /\ task[p].pc = "x_reply"
         /\ c.pc = "relate" /\ c.role = "responder" /\ c.id = task[p].id
         /\ c.key = task[p].key /\ c.peer = task[p].row.initiator_id
         /\ c.peer_key = task[p].row.initiator_pubkey
<1>1. PICK u \in Users : u = task[p].user /\ call[u].pc = "respond"
                           /\ GoodCall(call[u]) /\ Waiting(call[u], task[p])
  BY CallOf DEF Posted, RespondReply, Waiting, Responding
<1>2. c = [call[u] EXCEPT !.pc = "relate"] /\ task[p].pc = "x_reply"
  BY <1>1 DEF Posted, RespondReply, CallGoto, PairInv, PairingTypeOK
<1> QED
  BY <1>1, <1>2 DEF GoodCall, Call, Waiting, Responding

\* The same for the initiator.
LEMMA CompletedCall ==
  ASSUME PairInv, NEW p \in Procs, Completed(p), NEW c, c = call'[task[p].user]
  PROVE  /\ task[p].pc = "g_reply"
         /\ c.pc = "relate" /\ c.role = "initiator" /\ c.id = task[p].id
         /\ c.key = task[p].row.initiator_pubkey
         /\ c.peer = task[p].row.responder_id
         /\ c.peer_key = task[p].row.responder_pubkey
<1>1. PICK u \in Users : u = task[p].user /\ call[u].pc = "get"
                           /\ GoodCall(call[u]) /\ Waiting(call[u], task[p])
  BY CallOf DEF Completed, Receive, GetReply, Waiting, Getting
<1>2. /\ c = [call[u] EXCEPT !.pc = "relate", !.peer = task[p].row.responder_id,
                             !.peer_key = task[p].row.responder_pubkey]
      /\ task[p].pc = "g_reply"
  BY <1>1
  DEF Completed, Receive, GetReply, SetCall, PairInv, PairingTypeOK
<1> QED
  BY <1>1, <1>2 DEF GoodCall, Call, Waiting, Getting

\* Relationships are made from calls that have their outcome, and kept.
LEMMA RelationStep ==
  ASSUME PairInv, [PairingNext]_pairingVars
  PROVE  relationships' = relationships \/ \E u \in Users : Relate(u)
BY DEF PairingNext, Continue, CallInitiate, Fetch, PostRefused, Post, Initiated,
       PostUpdate, Posted, Completed, Receive, Serve, Complete, Ask,
       CancelRequest, Unheard, Abort, CrashServer, CutCalls, pairingVars, client

\* The relationship that user u registers.
LEMMA RelateMakes ==
  ASSUME PairInv, NEW u \in Users, Relate(u)
  PROVE  \E r :
    LET c == call[u]
        s == Derive(c.key, c.peer_key) IN
    /\ relationships' = relationships \cup {r}
    /\ r.role = c.role /\ r.id = c.id /\ c.pc = "relate"
    /\ c.role = "initiator" =>
         Channel(r) = <<OutboundTopic(s, u, c.peer), InboundTopic(s, u, c.peer)>>
    /\ c.role = "responder" =>
         Channel(r) = <<InboundTopic(s, u, c.peer), OutboundTopic(s, u, c.peer)>>
<1> DEFINE c == call[u]
           s == Derive(c.key, c.peer_key)
           r == [user |-> u, peer |-> c.peer, role |-> c.role, id |-> c.id,
                 publish_topic |-> OutboundTopic(s, u, c.peer),
                 subscribe_topic |-> InboundTopic(s, u, c.peer)]
<1>1. relationships' = relationships \cup {r} /\ c.pc = "relate"
  BY DEF Relate
<1>2. /\ r.role = c.role /\ r.id = c.id
      /\ r.publish_topic = OutboundTopic(s, u, c.peer)
      /\ r.subscribe_topic = InboundTopic(s, u, c.peer)
  OBVIOUS
<1> HIDE DEF r, s
<1>3. /\ c.role = "initiator" =>
           Channel(r) = <<OutboundTopic(s, u, c.peer), InboundTopic(s, u, c.peer)>>
      /\ c.role = "responder" =>
           Channel(r) = <<InboundTopic(s, u, c.peer), OutboundTopic(s, u, c.peer)>>
  BY <1>2 DEF Channel
<1> QED
  BY <1>1, <1>2, <1>3 DEF s

-----------------------------------------------------------------------------
(* How outcomes travel. *)

\* What the purge and the faults have spoilt stays spoilt.
LEMMA SpoiltKept ==
  ASSUME PairInv, [PairingNext]_pairingVars, NEW id \in Ids, Spoilt(id)
  PROVE  Spoilt(id)'
<1>1. purged \subseteq purged' /\ lost \subseteq lost'
  BY ServerStep, HistoryKept DEF Abort, Unheard
<1>2. cut \subseteq cut'
  BY DEF PairingNext, Continue, CallInitiate, Fetch, PostRefused, Post,
         Initiated, PostUpdate, Posted, Completed, Receive, Serve, Relate,
         Complete, Ask, CancelRequest, Unheard, Abort, CrashServer, CutCalls,
         pairingVars, client
<1> QED
  BY <1>1, <1>2 DEF Spoilt

\* Nobody is at an outcome who was not, or whose call had not.
LEMMA SidesFrom ==
  ASSUME PairInv, [PairingNext]_pairingVars, NEW id \in Ids
  PROVE  /\ RespondersSide(id)' => RespondersSide(id) \/ Answered(id)'
         /\ Fetched(id)' => Fetched(id) \/ (Answered(id) /\ rows' = rows)
         /\ InitiatorsSide(id)' => InitiatorsSide(id) \/ Fetched(id)
<1>1. ASSUME NEW p \in Procs, task'[p].pc \in {"x_notify", "x_reply"},
             task'[p].id = id
      PROVE  RespondersSide(id) \/ Answered(id)'
  <2>1. CASE PostUpdate(p) /\ Exists(task[p].id) /\ task[p].id = id
    <3>1. /\ rows'[id] = [rows[id] EXCEPT !.responder_pubkey = task[p].key]
          /\ rows[id] \in Row /\ task[p].key \in Keys
      BY <2>1
      DEF PostUpdate, RespondUpdate, PairInv, TypeInv, TypeOK, RowsGood,
          GoodRow, TasksGood, GoodTask
    <3>2. rows'[id] \in Row /\ rows'[id].responder_pubkey # None
      BY <3>1 DEF Row
    <3> QED
      BY <3>2 DEF Answered, Exists
  <2>2. CASE task[p].pc \in {"x_notify", "x_reply"} /\ task[p].id = id
    BY <2>2 DEF RespondersSide, Replying
  <2> QED
    BY <1>1, <2>1, <2>2, TaskMove DEF Onward
<1>2. ASSUME NEW p \in Procs, task'[p].pc \in Getting, task'[p].id = id
      PROVE  Fetched(id) \/ (Answered(id) /\ rows' = rows)
  BY <1>2, TaskMove DEF Onward, Fetched, Replying, Getting
<1>3. ASSUME NEW p \in Procs, task'[p].pc = "g_reply", task'[p].id = id
      PROVE  Fetched(id)
  BY <1>3, TaskMove DEF Onward, Fetched, Replying, Getting
<1>4. ASSUME NEW u \in Users, call'[u].pc = "relate", call'[u].id = id
      PROVE  /\ call'[u].role = "responder" => RespondersSide(id)
             /\ call'[u].role = "initiator" => InitiatorsSide(id)
  <2>1. CASE call'[u] = call[u]
    BY <1>4, <2>1 DEF RespondersSide, InitiatorsSide, Relating
  <2>2. ASSUME NEW p \in Procs, task[p].user = u, Posted(p)
        PROVE  call'[u].role = "responder" /\ RespondersSide(id)
    BY <1>4, <2>2, PostedCall DEF RespondersSide, Replying
  <2>3. ASSUME NEW p \in Procs, task[p].user = u, Completed(p)
        PROVE  call'[u].role = "initiator" /\ InitiatorsSide(id)
    BY <1>4, <2>3, CompletedCall DEF InitiatorsSide, Replying
  <2> QED
    BY <1>4, <2>1, <2>2, <2>3, CallStep
<1>5. ASSUME NEW r \in relationships', r.id = id
      PROVE  /\ r.role = "responder" => RespondersSide(id)
             /\ r.role = "initiator" => InitiatorsSide(id)
  <2>1. CASE r \in relationships
    BY <1>5, <2>1 DEF RespondersSide, InitiatorsSide, Related
  <2>2. ASSUME r \notin relationships, NEW u \in Users, Relate(u)
        PROVE  call[u].pc = "relate" /\ call[u].role = r.role /\ call[u].id = id
    BY <1>5, <2>2, RelateMakes
  <2> QED
    BY <1>5, <2>1, <2>2, RelationStep
    DEF RespondersSide, InitiatorsSide, Relating
<1>6. RespondersSide(id)' => RespondersSide(id) \/ Answered(id)'
  BY <1>1, <1>4, <1>5 DEF RespondersSide, Replying, Relating, Related
<1>7. Fetched(id)' => Fetched(id) \/ (Answered(id) /\ rows' = rows)
  BY <1>2 DEF Fetched, Replying
<1>8. InitiatorsSide(id)' => InitiatorsSide(id) \/ Fetched(id)
  BY <1>3, <1>4, <1>5 DEF InitiatorsSide, Replying, Relating, Related
<1> QED
  BY <1>6, <1>7, <1>8

\* An outcome is passed on to the end of its call, or a fault cuts it off.
LEMMA SidesKept ==
  ASSUME PairInv, [PairingNext]_pairingVars, NEW id \in Ids
  PROVE  /\ RespondersSide(id) => RespondersSide(id)' \/ Spoilt(id)'
         /\ InitiatorsSide(id) => InitiatorsSide(id)' \/ Spoilt(id)'
<1>1. ASSUME NEW p \in Procs, task[p].id = id,
             task[p].pc \in {"x_notify", "x_reply"}
      PROVE  RespondersSide(id)' \/ Spoilt(id)'
  <2>1. CASE Posted(p)
    <3>1. task[p].user \in Users
      BY <1>1, CallOf
    <3>2. Relating("responder", id)'
      BY <1>1, <2>1, <3>1, PostedCall DEF Relating
    <3> QED
      BY <3>2 DEF RespondersSide
  <2>2. CASE task'[p].pc \in {"x_notify", "x_reply"} /\ task'[p].id = id
    BY <2>2 DEF RespondersSide, Replying
  <2> QED
    BY <1>1, <2>1, <2>2, TaskExit DEF Onward, Spoilt
<1>2. ASSUME NEW p \in Procs, task[p].id = id, task[p].pc = "g_reply"
      PROVE  InitiatorsSide(id)' \/ Spoilt(id)'
  <2>1. CASE Completed(p)
    <3>1. task[p].user \in Users
      BY <1>2, CallOf
    <3>2. Relating("initiator", id)'
      BY <1>2, <2>1, <3>1, CompletedCall DEF Relating
    <3> QED
      BY <3>2 DEF InitiatorsSide
  <2>2. CASE task'[p] = task[p]
    BY <1>2, <2>2 DEF InitiatorsSide, Replying
  <2> QED
    BY <1>2, <2>1, <2>2, TaskExit DEF Spoilt
<1>3. ASSUME NEW role, Relating(role, id)
      PROVE  Relating(role, id)' \/ Related(role, id)' \/ Spoilt(id)'
  <2>1. PICK u \in Users : call[u].pc = "relate" /\ call[u].role = role
                             /\ call[u].id = id
    BY <1>3 DEF Relating
  <2>2. CASE call'[u] = call[u]
    BY <2>1, <2>2 DEF Relating
  <2>3. CASE Relate(u)
    BY <2>1, <2>3, RelateMakes DEF Related
  <2> QED
    BY <2>1, <2>2, <2>3, CallStep DEF Spoilt
<1>4. ASSUME NEW role, Related(role, id) PROVE Related(role, id)'
  BY <1>4, RelationStep DEF Relate, Related
<1>5. RespondersSide(id) => RespondersSide(id)' \/ Spoilt(id)'
  <2>1. ASSUME Relating("responder", id) \/ Related("responder", id)
        PROVE  \/ Relating("responder", id)' \/ Related("responder", id)'
               \/ Spoilt(id)'
    BY <1>3, <1>4, <2>1
  <2> QED
    BY <1>1, <2>1 DEF RespondersSide, Replying
<1>6. InitiatorsSide(id) => InitiatorsSide(id)' \/ Spoilt(id)'
  <2>1. ASSUME Relating("initiator", id) \/ Related("initiator", id)
        PROVE  \/ Relating("initiator", id)' \/ Related("initiator", id)'
               \/ Spoilt(id)'
    BY <1>3, <1>4, <2>1
  <2> QED
    BY <1>2, <2>1 DEF InitiatorsSide, Replying
<1> QED
  BY <1>5, <1>6

\* An exchange is answered because it was, or by a respond() in this step.
LEMMA AnsweredFrom ==
  ASSUME PairInv, [PairingNext]_pairingVars, NEW id \in Ids, Answered(id)'
  PROVE  \/ Answered(id) /\ rows'[id] = rows[id]
         \/ \E p \in Procs : RespondUpdate(p) /\ Exists(id) /\ task[p].id = id
<1>1. CASE rows'[id] = rows[id]
  BY <1>1 DEF Answered, Exists
<1>2. CASE [Next]_vars
  BY <1>1, <1>2, RowStep DEF PairInv, Answered, Exists
<1> QED
  BY <1>1, <1>2, ServerStep DEF Abort, Unheard

\* The respond() that stores an answer holds it.
LEMMA UpdateHolds ==
  ASSUME PairInv, NEW p \in Procs, RespondUpdate(p), Exists(task[p].id)
  PROVE  /\ task[p].pc = "x_update"
         /\ Onward(task[p], task'[p], "x_notify")
         /\ \A q \in Procs \ {p} : task'[q] = task[q]
BY DEF RespondUpdate, Goto, Onward, PairInv, TypeInv, TypeOK, Task

\* A stored answer stays, is read and discarded by the initiator's get(), or is
\* purged.
LEMMA AnsweredKept ==
  ASSUME PairInv, [PairingNext]_pairingVars, NEW id \in Ids, Answered(id)
  PROVE  Answered(id)' \/ InitiatorsSide(id)' \/ Spoilt(id)'
<1>1. CASE [Next]_vars
  BY <1>1, AnsweredStep
  DEF PairInv, InitiatorsSide, Replying, Spoilt
<1>2. CASE rows' = rows
  BY <1>2 DEF Answered, Exists
<1> QED
  BY <1>1, <1>2, ServerStep DEF Abort, Unheard

\* A user has one call at a time, so an exchange has one answer.
LEMMA FirstStep ==
  PairInv /\ FirstAnswer /\ [PairingNext]_pairingVars => FirstAnswer'
<1> SUFFICES ASSUME PairInv, FirstAnswer, [PairingNext]_pairingVars
             PROVE  FirstAnswer'
  OBVIOUS
<1>1. ASSUME NEW id \in Ids, rows'[id] # Gone, ~Answered(id)'
      PROVE  (~RespondersSide(id) /\ ~Fetched(id) /\ ~InitiatorsSide(id))'
  <2>1. rows[id] # Gone /\ ~Answered(id)
    <3>1. CASE rows'[id] = rows[id]
      BY <1>1, <3>1 DEF Answered, Exists
    <3>2. ASSUME Exists(id), NEW k \in Keys,
                 rows'[id] = [rows[id] EXCEPT !.responder_pubkey = k]
          PROVE  Answered(id)'
      <4>1. rows[id] \in Row
        BY <3>2 DEF PairInv, TypeInv, RowsGood, GoodRow
      <4>2. rows'[id] \in Row /\ rows'[id].responder_pubkey = k
        BY <3>2, <4>1 DEF Row
      <4> QED
        BY <4>2 DEF Answered, Exists
    <3>3. CASE [Next]_vars
      BY <1>1, <3>1, <3>2, <3>3, RowStep DEF PairInv, Answered, Exists
    <3> QED
      BY <3>1, <3>3, ServerStep DEF Abort, Unheard
  <2>2. ~RespondersSide(id) /\ ~Fetched(id) /\ ~InitiatorsSide(id)
    BY <2>1 DEF FirstAnswer
  <2> QED
    BY <1>1, <2>1, <2>2, SidesFrom
<1>2. ASSUME NEW q \in Procs, task'[q].pc = "x_update", NEW id, id = task'[q].id,
             Answered(id)'
      PROVE  FALSE
  <2>1. CASE rows' = rows /\ ~Answered(id)
    BY <1>2, <2>1 DEF Answered, Exists
  <2>2. CASE task'[q] = task[q]
    <3>1. task[q].pc = "x_update" /\ task[q].id = id /\ id \in Ids
      BY <1>2, <2>2, CallOf
    <3>2. ~Answered(id)
      BY <3>1 DEF FirstAnswer
    <3>3. PICK p \in Procs : RespondUpdate(p) /\ Exists(id) /\ task[p].id = id
      BY <1>2, <3>1, <3>2, AnsweredFrom
    <3>4. task[p].pc = "x_update" /\ task'[p].pc = "x_notify"
      BY <3>3, UpdateHolds DEF Onward
    <3>5. task[p].user = rows[id].responder_id
      BY <3>3, <3>4 DEF PairInv, TypeInv, TasksGood, GoodTask, TasksMatch, Same
    <3>6. task[q].user = rows[id].responder_id
      BY <3>1, <3>3 DEF PairInv, TypeInv, TasksGood, GoodTask, TasksMatch, Same
    <3>7. p = q
      BY <3>1, <3>4, <3>5, <3>6 DEF PairInv, Linked
    <3> QED
      BY <1>2, <3>4, <3>7
  <2> QED
    BY <1>2, <2>1, <2>2, TaskMove DEF Onward
<1> QED
  BY <1>1, <1>2 DEF FirstAnswer

\* What one side has, the other side keeps within reach.
LEMMA BothStep ==
  PairInv /\ BothSides /\ [PairingNext]_pairingVars => BothSides'
<1> SUFFICES ASSUME PairInv, BothSides, [PairingNext]_pairingVars,
                    NEW id \in Ids
             PROVE  /\ RespondersSide(id)' =>
                         Answered(id)' \/ InitiatorsSide(id)' \/ Spoilt(id)'
                    /\ Answered(id)' \/ Fetched(id)' \/ InitiatorsSide(id)' =>
                         RespondersSide(id)' \/ Spoilt(id)'
  BY DEF BothSides
<1>1. /\ RespondersSide(id) => Answered(id) \/ InitiatorsSide(id) \/ Spoilt(id)
      /\ Answered(id) \/ Fetched(id) \/ InitiatorsSide(id) =>
           RespondersSide(id) \/ Spoilt(id)
  BY DEF BothSides
<1>2. Answered(id)' => Answered(id) \/ RespondersSide(id)'
  <2>1. ASSUME NEW p \in Procs, RespondUpdate(p), Exists(id), task[p].id = id
        PROVE  RespondersSide(id)'
    BY <2>1, UpdateHolds DEF Onward, RespondersSide, Replying
  <2> QED
    BY <2>1, AnsweredFrom
<1> QED
  BY <1>1, <1>2, SidesFrom, SidesKept, AnsweredKept, SpoiltKept

\* Nothing is known of any exchange at the start.
LEMMA OutcomeInit == PairingInit => FirstAnswer /\ BothSides
BY DEF PairingInit, Init, FirstAnswer, BothSides, RespondersSide, InitiatorsSide,
       Fetched, Replying, Relating, Related, Answered, Exists, Idle, NoCall

\* One end of an exchange has a relationship and the other end has not: then
\* somebody is still at work, or the answer waits to be fetched, or the exchange
\* expired, or a fault ended a call.
THEOREM OneSidedOnlyWhileOrSpoilt == PairingSpec => []OneSidedExplained
<1>1. PairInv /\ BothSides => OneSidedExplained
  <2> SUFFICES ASSUME PairInv, BothSides, NEW id \in Ids,
                      Related("initiator", id) # Related("responder", id)
               PROVE  Busy(id) \/ Answered(id) \/ Spoilt(id)
    BY DEF OneSidedExplained
  <2>1. ASSUME NEW S, Replying(id, S), S \subseteq Stage \ {"idle"}
        PROVE  Busy(id)
    <3>1. PICK p \in Procs : task[p].pc \in S /\ task[p].id = id
      BY <2>1 DEF Replying
    <3>2. task[p].pc # "idle"
      BY <2>1, <3>1
    <3> QED
      BY <3>1, <3>2, CallOf DEF Busy, Waiting, Responding, Getting, Stage
  <2>2. ASSUME NEW role, Relating(role, id) PROVE Busy(id)
    BY <2>2 DEF Relating, Busy
  <2>3. /\ {"x_notify", "x_reply"} \subseteq Stage \ {"idle"}
        /\ {"g_reply"} \subseteq Stage \ {"idle"}
    BY DEF Stage
  <2>4. /\ RespondersSide(id) => Busy(id) \/ Related("responder", id)
        /\ InitiatorsSide(id) => Busy(id) \/ Related("initiator", id)
    BY <2>1, <2>2, <2>3 DEF RespondersSide, InitiatorsSide
  <2>5. /\ Related("responder", id) => RespondersSide(id)
        /\ Related("initiator", id) => InitiatorsSide(id)
    BY DEF RespondersSide, InitiatorsSide
  <2>6. /\ RespondersSide(id) =>
             Answered(id) \/ InitiatorsSide(id) \/ Spoilt(id)
        /\ InitiatorsSide(id) => RespondersSide(id) \/ Spoilt(id)
    BY DEF BothSides
  <2>7. /\ Related("responder", id) \in BOOLEAN
        /\ Related("initiator", id) \in BOOLEAN
    BY DEF Related
  <2> QED
    BY <2>4, <2>5, <2>6, <2>7
<1> QED
  BY <1>1, PairInit, PairStep, OutcomeInit, BothStep, PTL DEF PairingSpec

\* exchange.rs promises that an answer is not replaced, and a client that sends
\* two respond() at once can break that.  The client library does not: it makes
\* one request at a time for a user, and then no answer is ever replaced.
THEOREM LibraryAnswersOnce == PairingSpec => AnswerNeverReplaced
<1>1. ASSUME PairInv, FirstAnswer, [PairingNext]_pairingVars, NEW id \in Ids,
             Answered(id), Exists(id)'
      PROVE  rows'[id].responder_pubkey = rows[id].responder_pubkey
  <2>1. CASE rows'[id] = rows[id]
    BY <2>1
  <2>2. ASSUME NEW p \in Procs, RespondUpdate(p), task[p].id = id PROVE FALSE
    BY <1>1, <2>2 DEF RespondUpdate, FirstAnswer
  <2>3. CASE [Next]_vars
    BY <1>1, <2>1, <2>2, <2>3, RowStep DEF PairInv, Answered, Exists
  <2> QED
    BY <1>1, <2>1, <2>3, ServerStep DEF Abort, Unheard
<1>2. PairInv /\ FirstAnswer /\ [PairingNext]_pairingVars =>
        [\A id \in Ids : Answered(id) /\ Exists(id)' =>
           rows'[id].responder_pubkey = rows[id].responder_pubkey]_vars
  BY <1>1
<1> QED
  BY <1>2, PairInit, PairStep, OutcomeInit, FirstStep, PTL
  DEF PairingSpec, AnswerNeverReplaced

-----------------------------------------------------------------------------
(* Agreement.  An exchange is settled when its answer is stored: from then  *)
(* on the two parties and their keys are the same wherever they are held.   *)

\* The channel of initiator i with key j and responder r with key k.
ChannelOf(i, r, j, k) ==
  LET s == Derive(j, k) IN <<OutboundTopic(s, i, r), InboundTopic(s, i, r)>>

RowDeal(x, i, r, j, k) ==
  /\ x.initiator_id = i /\ x.responder_id = r
  /\ x.initiator_pubkey = j /\ x.responder_pubkey = k

TaskDeal(t, i, r, j, k) ==
  /\ t.pc \in {"x_notify", "x_reply"} =>
       /\ t.user = r /\ t.key = k
       /\ t.row.initiator_id = i /\ t.row.initiator_pubkey = j
  /\ t.pc \in Getting => t.user = i /\ RowDeal(t.row, i, r, j, k)

CallDeal(u, c, i, r, j, k) ==
  c.pc = "relate" =>
    \/ /\ c.role = "initiator"
       /\ u = i /\ c.peer = r /\ c.key = j /\ c.peer_key = k
    \/ /\ c.role = "responder"
       /\ u = r /\ c.peer = i /\ c.key = k /\ c.peer_key = j

\* All who hold the outcome of exchange id hold the same.
Deal(id, i, r, j, k) ==
  /\ Answered(id) => RowDeal(rows[id], i, r, j, k)
  /\ \A p \in Procs : task[p].id = id => TaskDeal(task[p], i, r, j, k)
  /\ \A u \in Users : call[u].id = id => CallDeal(u, call[u], i, r, j, k)
  /\ \A x \in relationships : x.id = id => Channel(x) = ChannelOf(i, r, j, k)

DealInv == \A id \in Ids : \E i, r, j, k : Deal(id, i, r, j, k)

\* sorted() makes the salt, and with it the secret, the same from both ends.
LEMMA DeriveSymmetric ==
  ASSUME NEW j \in Keys, NEW k \in Keys
  PROVE  Derive(j, k) = Derive(k, j)
<1>1. j \in Nat /\ k \in Nat
  OBVIOUS
<1> QED
  BY <1>1 DEF Derive

\* Who registers a relationship gives it the channel that was agreed on.
LEMMA RelateDeal ==
  ASSUME PairInv, NEW u \in Users, Relate(u), NEW i, NEW r, NEW j, NEW k,
         CallDeal(u, call[u], i, r, j, k)
  PROVE  \E x : /\ relationships' = relationships \cup {x}
                /\ x.id = call[u].id /\ x.role = call[u].role
                /\ Channel(x) = ChannelOf(i, r, j, k)
<1>1. /\ call[u].pc = "relate" /\ call[u].key \in Keys
      /\ call[u].peer_key \in Keys
  BY DEF Relate, PairInv, CallsGood, GoodCall
<1>2. PICK s : s = Derive(call[u].key, call[u].peer_key)
  OBVIOUS
<1>3. s = Derive(j, k)
  BY <1>1, <1>2, DeriveSymmetric DEF CallDeal
<1>4. PICK x : /\ relationships' = relationships \cup {x}
               /\ x.role = call[u].role /\ x.id = call[u].id
               /\ call[u].role = "initiator" =>
                    Channel(x) = <<OutboundTopic(s, u, call[u].peer),
                                   InboundTopic(s, u, call[u].peer)>>
               /\ call[u].role = "responder" =>
                    Channel(x) = <<InboundTopic(s, u, call[u].peer),
                                   OutboundTopic(s, u, call[u].peer)>>
  BY <1>2, RelateMakes
<1>5. Channel(x) = ChannelOf(i, r, j, k)
  BY <1>1, <1>3, <1>4 DEF CallDeal, ChannelOf, OutboundTopic, InboundTopic
<1> QED
  BY <1>4, <1>5

\* A step that stores no answer of exchange id passes on what was agreed.
LEMMA DealKept ==
  ASSUME PairInv, [PairingNext]_pairingVars, NEW id \in Ids,
         NEW i, NEW r, NEW j, NEW k, Deal(id, i, r, j, k),
         ~\E p \in Procs : RespondUpdate(p) /\ Exists(id) /\ task[p].id = id
  PROVE  Deal(id, i, r, j, k)'
<1>1. Answered(id)' => RowDeal(rows'[id], i, r, j, k)
  BY AnsweredFrom DEF Deal
<1>2. ASSUME NEW p \in Procs, task'[p].id = id
      PROVE  TaskDeal(task'[p], i, r, j, k)
  <2>1. CASE task'[p] = task[p]
    BY <1>2, <2>1 DEF Deal
  <2>2. CASE task'[p].pc \in {"idle", "i_notify", "x_update"}
    BY <2>2 DEF TaskDeal, Getting
  <2>3. CASE /\ task'[p].pc = "g_delete" /\ Answered(id)
             /\ task'[p].row = rows[id]
    <3>1. task'[p].user = task'[p].row.initiator_id
      BY <2>3, PairStep DEF PairInv, TypeInv, TasksGood, GoodTask
    <3> QED
      BY <2>3, <3>1 DEF Deal, TaskDeal, RowDeal, Getting
  <2>4. CASE \/ task[p].pc = "x_notify" /\ Onward(task[p], task'[p], "x_reply")
             \/ task[p].pc = "g_delete" /\ Onward(task[p], task'[p], "g_reply")
    BY <1>2, <2>4 DEF Deal, TaskDeal, RowDeal, Onward, Getting
  <2> QED
    BY <1>2, <2>1, <2>2, <2>3, <2>4, TaskMove DEF Onward, PostUpdate
<1>3. ASSUME NEW u \in Users, call'[u].id = id
      PROVE  CallDeal(u, call'[u], i, r, j, k)
  <2>1. CASE call'[u] = call[u] \/ call'[u].pc # "relate"
    BY <1>3, <2>1 DEF Deal, CallDeal
  <2>2. ASSUME NEW p \in Procs, task[p].user = u, Posted(p) \/ Completed(p)
        PROVE  CallDeal(u, call'[u], i, r, j, k)
    BY <1>3, <2>2, PostedCall, CompletedCall
    DEF Deal, TaskDeal, RowDeal, CallDeal, Getting
  <2> QED
    BY <2>1, <2>2, CallStep
<1>4. ASSUME NEW x \in relationships', x.id = id
      PROVE  Channel(x) = ChannelOf(i, r, j, k)
  <2>1. CASE x \in relationships
    BY <1>4, <2>1 DEF Deal
  <2>2. ASSUME x \notin relationships, NEW u \in Users, Relate(u)
        PROVE  Channel(x) = ChannelOf(i, r, j, k)
    <3>1. call[u].id = id
      BY <1>4, <2>2, RelateMakes
    <3>2. CallDeal(u, call[u], i, r, j, k)
      BY <3>1 DEF Deal
    <3> QED
      BY <2>2, <3>2, RelateDeal
  <2> QED
    BY <1>4, <2>1, <2>2, RelationStep
<1> QED
  BY <1>1, <1>2, <1>3, <1>4 DEF Deal, Answered, Exists

\* The step that stores the answer of exchange id settles it.
LEMMA DealMade ==
  ASSUME PairInv, FirstAnswer, [PairingNext]_pairingVars, NEW id \in Ids,
         NEW p \in Procs, RespondUpdate(p), Exists(id), task[p].id = id
  PROVE  \E i, r, j, k : Deal(id, i, r, j, k)'
<1>1. /\ task[p].pc = "x_update" /\ Onward(task[p], task'[p], "x_notify")
      /\ \A q \in Procs \ {p} : task'[q] = task[q]
  BY UpdateHolds
<1>2. PICK i, r, j, k : /\ i = task[p].row.initiator_id /\ r = task[p].user
                        /\ j = task[p].row.initiator_pubkey /\ k = task[p].key
  OBVIOUS
<1>3. rows[id] # Gone /\ ~Answered(id)
  BY <1>1 DEF FirstAnswer, Exists
<1>4. ~RespondersSide(id) /\ ~Fetched(id) /\ ~InitiatorsSide(id)
  BY <1>3 DEF FirstAnswer
<1>5. RowDeal(rows'[id], i, r, j, k)
  <2>1. /\ rows[id] \in Row /\ task[p].key \in Keys
        /\ rows[id].responder_id = r
        /\ rows[id].initiator_id = i /\ rows[id].initiator_pubkey = j
    BY <1>1, <1>2
    DEF PairInv, TypeInv, RowsGood, GoodRow, TasksGood, GoodTask, TasksMatch,
        Same
  <2>2. rows'[id] = [rows[id] EXCEPT !.responder_pubkey = k]
    BY <1>2 DEF RespondUpdate, PairInv, TypeInv, TypeOK
  <2> QED
    BY <1>2, <2>1, <2>2 DEF RowDeal, Row
<1>6. ASSUME NEW q \in Procs, task'[q].id = id
      PROVE  TaskDeal(task'[q], i, r, j, k)
  <2>1. CASE q = p
    BY <1>1, <1>2, <2>1 DEF TaskDeal, Onward, Getting
  <2>2. CASE q # p
    BY <1>1, <1>4, <1>6, <2>2
    DEF TaskDeal, RespondersSide, Fetched, Replying
  <2> QED
    BY <2>1, <2>2
<1>7. ASSUME NEW u \in Users, call'[u].id = id, call'[u].pc = "relate"
      PROVE  FALSE
  <2>1. \A q \in Procs : Posted(q) \/ Completed(q) => task[q].id # id
    BY <1>4, PostedCall, CompletedCall
    DEF RespondersSide, InitiatorsSide, Replying
  <2>2. \A q \in Procs : task[q].user = u /\ (Posted(q) \/ Completed(q)) =>
          task[q].id = id
    BY <1>7, PostedCall, CompletedCall
  <2>3. call[u].id = id /\ call[u].pc = "relate"
    BY <1>7, <2>1, <2>2, CallStep
  <2>4. call[u].role \in Roles
    BY DEF PairInv, PairingTypeOK, Call
  <2> QED
    BY <1>4, <2>3, <2>4 DEF Roles, RespondersSide, InitiatorsSide, Relating
<1>8. ASSUME NEW x \in relationships', x.id = id PROVE FALSE
  <2>1. x \notin relationships
    <3>1. ASSUME x \in relationships PROVE x.role \in Roles
      BY <3>1 DEF PairInv, PairingTypeOK, Relationship
    <3> QED
      BY <1>4, <1>8, <3>1
      DEF Roles, RespondersSide, InitiatorsSide, Related
  <2>2. PICK u \in Users : Relate(u)
    BY <1>8, <2>1, RelationStep
  <2>3. task' = task
    BY <2>2 DEF Relate, vars
  <2> QED
    BY <1>1, <2>3 DEF Onward
<1>9. Deal(id, i, r, j, k)'
  BY <1>5, <1>6, <1>7, <1>8 DEF Deal, CallDeal
<1> QED
  BY <1>9

\* One step preserves agreement.
LEMMA DealStep ==
  PairInv /\ FirstAnswer /\ DealInv /\ [PairingNext]_pairingVars => DealInv'
<1> SUFFICES ASSUME PairInv, FirstAnswer, DealInv, [PairingNext]_pairingVars,
                    NEW id \in Ids
             PROVE  \E i, r, j, k : Deal(id, i, r, j, k)'
  BY DEF DealInv
<1>1. PICK i, r, j, k : Deal(id, i, r, j, k)
  BY DEF DealInv
<1> QED
  BY <1>1, DealKept, DealMade

\* A step that registers a relationship settles its exchange in Agreement, and
\* no other step does.
LEMMA AgreementStep ==
  ASSUME PairInv, DealInv, [PairingNext]_pairingVars
  PROVE  [Agreed!Next]_Settled
<1>1. CASE relationships' = relationships
  BY <1>1 DEF Settled
<1>2. ASSUME NEW u \in Users, Relate(u)
      PROVE  [Agreed!Next]_Settled
  <2>1. PICK id \in Ids : id = call[u].id
    BY <1>2 DEF Relate, PairInv, CallsGood, GoodCall
  <2>2. PICK i, r, j, k : Deal(id, i, r, j, k)
    BY DEF DealInv
  <2>3. CallDeal(u, call[u], i, r, j, k)
    BY <2>1, <2>2 DEF Deal
  <2>4. PICK x : /\ relationships' = relationships \cup {x}
                 /\ x.id = id /\ x.role = call[u].role
                 /\ Channel(x) = ChannelOf(i, r, j, k)
    BY <1>2, <2>1, <2>3, RelateDeal
  <2>5. x.role \in Roles
    BY <2>4 DEF PairInv, PairingTypeOK, Call
  <2>6. Channel(x) \in Channels
    <3>1. i \in Users /\ r \in Users /\ j \in Keys /\ k \in Keys
      BY <1>2, <2>3 DEF Relate, CallDeal, PairInv, CallsGood, GoodCall
    <3> QED
      BY <2>4, <3>1 DEF Channels, ChannelOf
  <2>7. \A y \in Settled[id] : y[2] = Channel(x)
    BY <2>2, <2>4 DEF Deal, Settled
  <2>8. Settled' = [Settled EXCEPT ![id] = @ \cup {<<x.role, Channel(x)>>}]
    BY <2>4 DEF Settled
  <2>9. Agreed!Settle(id, x.role, Channel(x))
    BY <2>7, <2>8 DEF Agreed!Settle
  <2>10. Settled'[id] # Settled[id] \/ Settled' = Settled
    BY <2>8 DEF Settled
  <2> QED
    BY <2>5, <2>6, <2>9, <2>10 DEF Agreed!Next
<1> QED
  BY <1>1, <1>2, RelationStep

\* The end that settles an exchange first fixes the topics, and the other end
\* gets the same ones or none: the composition of clients, handlers, purge and
\* faults implements Agreement.
THEOREM PairingImplementsAgreement == PairingSpec => PairsAgree
<1>1. PairingInit => Agreed!Init
  BY DEF PairingInit, Agreed!Init, Settled
<1>2. PairInv /\ DealInv /\ [PairingNext]_pairingVars => [Agreed!Next]_Settled
  BY AgreementStep
<1>3. PairingInit => DealInv
  BY DEF PairingInit, Init, DealInv, Deal, Answered, Exists, TaskDeal, CallDeal,
         Idle, NoCall
<1> QED
  BY <1>1, <1>2, <1>3, PairInit, PairStep, OutcomeInit, FirstStep, DealStep, PTL
  DEF PairingSpec, PairsAgree, Agreed!Spec
=============================================================================
