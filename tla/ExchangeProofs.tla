--------------------------- MODULE ExchangeProofs ---------------------------
(***************************************************************************)
(* Proofs about Exchange for any number of users, keys, exchanges, request *)
(* slots and faults.                                                       *)
(***************************************************************************)
EXTENDS Exchange, TLAPS

USE ExchangeAssumption

-----------------------------------------------------------------------------
(* Types and keys.  A key that ends up in an answer was compared with its   *)
(* party several awaits earlier, and has been in the task, in the row and   *)
(* perhaps in another task since.  The invariant says of each of these      *)
(* places what TypeOK and KeysFromTheirParties say of the answers.          *)

\* Each key in the row belongs to the party in whose place it stands.
GoodRow(r) ==
  /\ r \in Row
  /\ Holder[r.initiator_pubkey] = r.initiator_id
  /\ r.responder_pubkey # None => Holder[r.responder_pubkey] = r.responder_id

\* What a handler carries from one step to the next.
GoodTask(t) ==
  /\ t \in Task
  /\ t.pc # "idle" => t.user \in Users /\ t.id \in Ids /\ GoodRow(t.row)
  /\ t.pc \in {"x_update", "x_notify", "x_reply"} =>
       /\ t.key \in Keys /\ Holder[t.key] = t.user
       /\ t.user = t.row.responder_id
  /\ t.pc \in {"g_delete", "g_reply"} =>
       /\ t.row.responder_pubkey # None
       /\ t.user = t.row.initiator_id

RowsGood == \A id \in Ids : Exists(id) => GoodRow(rows[id])

TasksGood == \A p \in Procs : GoodTask(task[p])

RepliesGood == \A r \in replies : GoodRow(r.row) /\ r.row.responder_pubkey # None

\* Two versions of the row of one exchange: only the answer may differ.
Same(r, s) ==
  /\ r.initiator_id = s.initiator_id /\ r.responder_id = s.responder_id
  /\ r.initiator_pubkey = s.initiator_pubkey

\* What a handler has read is the row that is still there, or was.
TasksMatch ==
  \A p \in Procs :
    task[p].pc # "idle" =>
      /\ rows[task[p].id] # None
      /\ Exists(task[p].id) => Same(rows[task[p].id], task[p].row)

\* The type invariant strengthened to an inductive one.
TypeInv == TypeOK /\ RowsGood /\ TasksGood /\ RepliesGood /\ TasksMatch

\* The empty slot is a good task.
LEMMA IdleGood == GoodTask(Idle)
BY DEF Idle, Task, Stage, GoodTask

\* A slot that receives a good task leaves all slots with good tasks.
LEMMA SlotGood ==
  ASSUME TypeInv, NEW p \in Procs, NEW t, GoodTask(t),
         task' = [task EXCEPT ![p] = t]
  PROVE  task' \in [Procs -> Task] /\ TasksGood'
BY DEF TypeInv, TypeOK, TasksGood, GoodTask

\* A row that an id receives, if it is good, leaves all rows good.
LEMMA RowGood ==
  ASSUME TypeInv, NEW id \in Ids, NEW r, GoodRow(r),
         rows' = [rows EXCEPT ![id] = r]
  PROVE  rows' \in [Ids -> Row \cup {None, Gone}] /\ RowsGood'
BY DEF TypeInv, TypeOK, RowsGood, Exists, GoodRow

\* An answer by the responder keeps a row good.
LEMMA AnswerGood ==
  ASSUME NEW r, GoodRow(r), NEW k \in Keys, Holder[k] = r.responder_id
  PROVE  /\ GoodRow([r EXCEPT !.responder_pubkey = k])
         /\ [r EXCEPT !.responder_pubkey = k].responder_pubkey = k
BY DEF GoodRow, Row

\* The count of faults stays within its bound.
LEMMA FaultTyped == TypeOK /\ Fault => faults' \in 0 .. MaxFaults
BY DEF TypeOK, Fault

\* The initial state satisfies the invariant.
LEMMA TypeInit == Init => TypeInv
<1> SUFFICES ASSUME Init PROVE TypeInv
  OBVIOUS
<1>1. TasksGood /\ task \in [Procs -> Task]
  BY IdleGood DEF Init, TasksGood, GoodTask
<1> QED
  BY <1>1
  DEF Init, TypeInv, TypeOK, RowsGood, RepliesGood, TasksMatch, Exists, Idle

\* How the row of an exchange may change: it is created, answered, discarded.
LEMMA RowStep ==
  ASSUME TypeInv, [Next]_vars, NEW id \in Ids
  PROVE  \/ rows'[id] = rows[id]
         \/ /\ rows[id] = None
            /\ rows'[id] \in Row /\ rows'[id].responder_pubkey = None
         \/ /\ rows[id] # None /\ rows'[id] = Gone
            /\ \/ id \in purged'
               \/ \E p \in Procs : GetDelete(p) /\ task[p].id = id
         \/ /\ Exists(id)
            /\ \E p \in Procs : /\ RespondUpdate(p) /\ task[p].id = id
                                /\ task[p].key \in Keys
                                /\ rows'[id] = [rows[id] EXCEPT
                                     !.responder_pubkey = task[p].key]
<1> USE DEF TypeInv
<1>1. ASSUME NEW p \in Procs, NEW u \in Users, NEW v \in Users, NEW k \in Keys,
             NEW i \in Ids, InitiateInsert(p, u, v, k, i)
      PROVE  \/ rows'[id] = rows[id]
             \/ /\ rows[id] = None
                /\ rows'[id] \in Row /\ rows'[id].responder_pubkey = None
  BY <1>1 DEF InitiateInsert, Create, NewRow, Row, TypeOK
<1>2. ASSUME NEW p \in Procs, RespondUpdate(p)
      PROVE  \/ rows'[id] = rows[id]
             \/ /\ Exists(id) /\ task[p].id = id
                /\ task[p].key \in Keys
                /\ rows'[id] = [rows[id] EXCEPT
                                  !.responder_pubkey = task[p].key]
  BY <1>2 DEF RespondUpdate, TypeOK, TasksGood, GoodTask
<1>3. ASSUME NEW p \in Procs, GetDelete(p)
      PROVE  \/ rows'[id] = rows[id]
             \/ rows[id] # None /\ rows'[id] = Gone /\ task[p].id = id
  BY <1>3 DEF GetDelete, TypeOK, TasksMatch
<1>4. CASE Purge
  BY <1>4 DEF Purge, PurgeOf, Expired, Exists
<1>5. CASE rows' = rows
  BY <1>5
<1> QED
  BY <1>1, <1>2, <1>3, <1>4, <1>5
  DEF Next, Begin, Resume, Fail, InitiateNotify, RespondRead, Respond,
      RespondNotify, RespondReply, GetRead, GetReply, DeleteFails, Cancel,
      PurgeFails, Crash, Tick, vars

\* A handler keeps what it has read, from the row as it then was, to its end.
LEMMA TaskStep ==
  ASSUME TypeInv, [Next]_vars, NEW p \in Procs
  PROVE  \/ task'[p] = Idle
         \/ task'[p] = task[p]
         \/ task[p].pc # "idle" /\ \E pc \in Stage \ {"idle"} :
              task'[p] = [task[p] EXCEPT !.pc = pc]
         \/ /\ task[p].pc = "idle"
            /\ task'[p].id \in Ids
            /\ rows'[task'[p].id] = task'[p].row
            /\ task'[p].row \in Row
<1> USE DEF TypeInv
<1>1. ASSUME NEW q \in Procs, NEW u \in Users, NEW v \in Users, NEW k \in Keys,
             NEW id \in Ids, InitiateInsert(q, u, v, k, id)
      PROVE  \/ task'[p] = task[p]
             \/ /\ task[p].pc = "idle" /\ task'[p].id \in Ids
                /\ rows'[task'[p].id] = task'[p].row
                /\ task'[p].row \in Row
  BY <1>1 DEF InitiateInsert, Create, Start, NewRow, Row, TypeOK
<1>2. ASSUME NEW q \in Procs, NEW u \in Users, NEW id \in Ids,
             \/ \E k \in Keys : RespondRead(q, u, k, id)
             \/ GetRead(q, u, id)
      PROVE  \/ task'[p] = task[p]
             \/ /\ task[p].pc = "idle" /\ task'[p].id \in Ids
                /\ rows'[task'[p].id] = task'[p].row
                /\ task'[p].row \in Row
  BY <1>2
  DEF RespondRead, Respond, GetRead, Answered, Exists, Start, TypeOK
<1>3. ASSUME NEW q \in Procs, Resume(q) \/ Fail(q)
      PROVE  \/ task'[p] = Idle
             \/ task'[p] = task[p]
             \/ task[p].pc # "idle" /\ \E pc \in Stage \ {"idle"} :
                  task'[p] = [task[p] EXCEPT !.pc = pc]
  <2>1. CASE Return(q)
    BY <2>1 DEF Return, TypeOK
  <2>2. ASSUME NEW pc \in Stage \ {"idle"}, Goto(q, pc), task[q].pc # "idle"
        PROVE  task'[p] = task[p] \/ (task[p].pc # "idle"
                 /\ task'[p] = [task[p] EXCEPT !.pc = pc])
    BY <2>2 DEF Goto, TypeOK
  <2>3. Return(q) \/ (task[q].pc # "idle"
          /\ (Goto(q, "x_notify") \/ Goto(q, "x_reply") \/ Goto(q, "g_reply")))
    BY <1>3
    DEF Resume, Fail, InitiateNotify, RespondUpdate, RespondNotify,
        RespondReply, GetDelete, GetReply, DeleteFails, Cancel
  <2> QED
    BY <2>1, <2>2, <2>3 DEF Stage
<1>4. CASE Purge \/ PurgeFails \/ Tick \/ UNCHANGED vars
  BY <1>4 DEF Purge, PurgeOf, PurgeFails, Tick, vars
<1>5. CASE Crash
  BY <1>5 DEF Crash
<1> QED
  BY <1>1, <1>2, <1>3, <1>4, <1>5 DEF Next, Begin

\* A row stays the row of the same exchange.
LEMMA MatchStep == TypeInv /\ [Next]_vars => TasksMatch'
<1> SUFFICES ASSUME TypeInv, [Next]_vars, NEW p \in Procs, task'[p].pc # "idle",
                    NEW x, x = task'[p].id, NEW r, r = task'[p].row
             PROVE  rows'[x] # None /\ (rows'[x] # Gone => Same(rows'[x], r))
  BY DEF TasksMatch, Exists, Same
<1> USE DEF TypeInv
<1>1. ASSUME task[p].pc # "idle", x = task[p].id, r = task[p].row
      PROVE  rows'[x] # None /\ (rows'[x] # Gone => Same(rows'[x], r))
  <2>1. /\ x \in Ids /\ rows[x] # None
        /\ rows[x] # Gone => Same(rows[x], r) /\ rows[x] \in Row
    BY <1>1 DEF TasksGood, GoodTask, TasksMatch, RowsGood, GoodRow, Exists
  <2>2. ASSUME rows[x] # Gone, NEW k \in Keys,
               rows'[x] = [rows[x] EXCEPT !.responder_pubkey = k]
        PROVE  rows'[x] # None /\ Same(rows'[x], r)
    BY <2>1, <2>2 DEF Same, Row
  <2>3. \/ rows'[x] = rows[x]
        \/ rows'[x] = Gone
        \/ rows[x] # Gone /\ \E k \in Keys :
             rows'[x] = [rows[x] EXCEPT !.responder_pubkey = k]
    <3>1. TypeInv /\ x \in Ids
      BY <2>1
    <3> QED
      BY <2>1, <3>1, RowStep DEF Exists
  <2> QED
    BY <2>1, <2>2, <2>3
<1>2. CASE task'[p] = task[p]
  BY <1>1, <1>2
<1>3. ASSUME task[p].pc # "idle", NEW pc \in Stage,
             task'[p] = [task[p] EXCEPT !.pc = pc]
      PROVE  task'[p].id = task[p].id /\ task'[p].row = task[p].row
  BY <1>3 DEF TypeOK, Task
<1>4. CASE x \in Ids /\ rows'[x] = r /\ r \in Row
  BY <1>4 DEF Same
<1>5. task'[p] # Idle
  BY DEF Idle
<1> QED
  BY <1>1, <1>2, <1>3, <1>4, <1>5, TaskStep

\* One step of any handler, of the purge or of a fault preserves the invariant.
LEMMA TypeStep == TypeInv /\ [Next]_vars => TypeInv'
<1> SUFFICES ASSUME TypeInv, [Next]_vars PROVE TypeInv'
  OBVIOUS
<1> USE DEF TypeInv, timer
<1>0. TasksMatch'
  BY MatchStep
<1>1. ASSUME NEW p \in Procs, NEW u \in Users, NEW v \in Users, NEW k \in Keys,
             NEW id \in Ids, InitiateInsert(p, u, v, k, id)
      PROVE  TypeInv'
  <2> DEFINE r == NewRow(u, v, k, now + Ttl)
  <2>1. r \in Row /\ r.initiator_id = u /\ r.initiator_pubkey = k
    BY DEF NewRow, Row, TypeOK
  <2>2. GoodRow(r)
    BY <1>1, <2>1 DEF InitiateInsert, Create, GoodRow, NewRow
  <2>3. GoodTask([pc |-> "i_notify", user |-> u, id |-> id, key |-> k,
                  row |-> r])
    BY <2>1, <2>2 DEF GoodTask, Task, Stage
  <2> HIDE DEF r
  <2>4. /\ task' = [task EXCEPT ![p] =
                      [pc |-> "i_notify", user |-> u, id |-> id, key |-> k,
                       row |-> r]]
        /\ rows' = [rows EXCEPT ![id] = r]
        /\ UNCHANGED <<now, published, replies, faults, timer, purged, lost>>
    BY <1>1, <2>1 DEF InitiateInsert, Create, Start, r
  <2> QED
    BY <1>0, <2>2, <2>3, <2>4, SlotGood, RowGood DEF TypeOK, RepliesGood
<1>2. ASSUME NEW p \in Procs, InitiateNotify(p) PROVE TypeInv'
  <2>1. task[p].row \in Row /\ task[p].id \in Ids
    BY <1>2 DEF InitiateNotify, TasksGood, GoodTask, GoodRow
  <2>2. published' \subseteq Notification
    BY <1>2, <2>1 DEF InitiateNotify, Publish, Notification, TypeOK, Row
  <2> QED
    BY <1>0, <1>2, <2>2, IdleGood, SlotGood
    DEF InitiateNotify, Return, TypeOK, RowsGood, RepliesGood, Exists
<1>3. ASSUME NEW p \in Procs, NEW u \in Users, NEW k \in Keys, NEW id \in Ids,
             RespondRead(p, u, k, id)
      PROVE  TypeInv'
  <2>1. GoodRow(rows[id])
    BY <1>3 DEF RespondRead, Respond, RowsGood
  <2>2. GoodTask([pc |-> "x_update", user |-> u, id |-> id, key |-> k,
                  row |-> rows[id]])
    BY <1>3, <2>1 DEF RespondRead, Respond, GoodTask, GoodRow, Task, Stage
  <2> QED
    BY <1>0, <1>3, <2>2, SlotGood
    DEF RespondRead, Respond, Start, TypeOK, RowsGood, RepliesGood, Exists
<1>4. ASSUME NEW p \in Procs, task[p].pc \in {"x_update", "x_notify"}
      PROVE  /\ GoodTask([task[p] EXCEPT !.pc = "x_notify"])
             /\ GoodTask([task[p] EXCEPT !.pc = "x_reply"])
  BY <1>4 DEF TasksGood, GoodTask, Task, Stage
<1>5. ASSUME NEW p \in Procs, RespondUpdate(p) PROVE TypeInv'
  <2> DEFINE id == task[p].id
             r == [rows[id] EXCEPT !.responder_pubkey = task[p].key]
  <2>1. CASE Exists(id)
    <3>1. /\ id \in Ids /\ GoodRow(rows[id])
          /\ task[p].key \in Keys /\ Holder[task[p].key] = rows[id].responder_id
      BY <1>5, <2>1
      DEF RespondUpdate, TasksGood, GoodTask, RowsGood, TasksMatch, Same
    <3>2. GoodRow(r)
      BY <3>1, AnswerGood
    <3>3. /\ rows' = [rows EXCEPT ![id] = r]
          /\ task' = [task EXCEPT ![p] = [task[p] EXCEPT !.pc = "x_notify"]]
      BY <1>5, <2>1 DEF RespondUpdate, Goto
    <3> HIDE DEF id, r
    <3> QED
      BY <1>0, <1>4, <1>5, <3>1, <3>2, <3>3, SlotGood, RowGood
      DEF RespondUpdate, TypeOK, RepliesGood, id
  <2>2. CASE ~Exists(id)
    BY <1>0, <1>5, <2>2, IdleGood, SlotGood
    DEF RespondUpdate, Return, TypeOK, RowsGood, RepliesGood, Exists
  <2> QED
    BY <2>1, <2>2
<1>6. ASSUME NEW p \in Procs, RespondNotify(p) PROVE TypeInv'
  <2>1. task[p].row \in Row /\ task[p].id \in Ids
    BY <1>6 DEF RespondNotify, TasksGood, GoodTask, GoodRow
  <2>2. published' \subseteq Notification
    BY <1>6, <2>1 DEF RespondNotify, Publish, Notification, TypeOK, Row
  <2> QED
    BY <1>0, <1>4, <1>6, <2>2, SlotGood
    DEF RespondNotify, Goto, TypeOK, RowsGood, RepliesGood, Exists
<1>7. ASSUME NEW p \in Procs, RespondReply(p) PROVE TypeInv'
  <2> DEFINE r == [task[p].row EXCEPT !.responder_pubkey = task[p].key]
  <2>1. /\ GoodRow(r) /\ r.responder_pubkey # None
        /\ task[p].user \in Users /\ task[p].id \in Ids
    BY <1>7, AnswerGood DEF RespondReply, TasksGood, GoodTask
  <2> HIDE DEF r
  <2>2. replies' = replies \cup {[to |-> task[p].user,
                                  exchange_id |-> task[p].id, row |-> r]}
    BY <1>7 DEF RespondReply, r
  <2>3. replies' \subseteq Reply /\ RepliesGood'
    BY <2>1, <2>2 DEF Reply, TypeOK, RepliesGood, GoodRow
  <2> QED
    BY <1>0, <1>7, <2>3, IdleGood, SlotGood
    DEF RespondReply, Return, TypeOK, RowsGood, Exists
<1>8. ASSUME NEW p \in Procs, NEW u \in Users, NEW id \in Ids, GetRead(p, u, id)
      PROVE  TypeInv'
  <2>1. GoodRow(rows[id])
    BY <1>8 DEF GetRead, Answered, RowsGood
  <2>2. GoodTask([pc |-> "g_delete", user |-> u, id |-> id, key |-> None,
                  row |-> rows[id]])
    BY <1>8, <2>1 DEF GetRead, Answered, GoodTask, GoodRow, Task, Stage
  <2> QED
    BY <1>0, <1>8, <2>2, SlotGood
    DEF GetRead, Start, TypeOK, RowsGood, RepliesGood, Exists
<1>9. ASSUME NEW p \in Procs, task[p].pc = "g_delete"
      PROVE  GoodTask([task[p] EXCEPT !.pc = "g_reply"])
  BY <1>9 DEF TasksGood, GoodTask, Task, Stage
<1>10. ASSUME NEW p \in Procs, GetDelete(p) PROVE TypeInv'
  BY <1>0, <1>9, <1>10, SlotGood
  DEF GetDelete, Goto, TypeOK, RowsGood, RepliesGood, Exists
<1>11. ASSUME NEW p \in Procs, GetReply(p) PROVE TypeInv'
  <2>1. replies' \subseteq Reply /\ RepliesGood'
    BY <1>11
    DEF GetReply, TasksGood, GoodTask, GoodRow, TypeOK, Reply, RepliesGood
  <2> QED
    BY <1>0, <1>11, <2>1, IdleGood, SlotGood
    DEF GetReply, Return, TypeOK, RowsGood, Exists
<1>12. ASSUME NEW p \in Procs, DeleteFails(p) PROVE TypeInv'
  BY <1>0, <1>9, <1>12, SlotGood, FaultTyped
  DEF DeleteFails, Goto, TypeOK, RowsGood, RepliesGood, Exists
<1>13. ASSUME NEW p \in Procs, Cancel(p) PROVE TypeInv'
  <2>1. lost' \subseteq Ids
    BY <1>13 DEF Cancel, CutOff, TypeOK, TasksGood, GoodTask
  <2> QED
    BY <1>0, <1>13, <2>1, IdleGood, SlotGood, FaultTyped
    DEF Cancel, Return, TypeOK, RowsGood, RepliesGood, Exists
<1>14. CASE Purge \/ PurgeFails
  BY <1>0, <1>14, FaultTyped
  DEF Purge, PurgeOf, PurgeFails, NextTick, TypeOK, RowsGood, TasksGood,
      RepliesGood, Exists
<1>15. CASE Crash
  <2>1. lost' \subseteq Ids
    BY <1>15 DEF Crash, CutOff, TypeOK, TasksGood, GoodTask
  <2>2. task' \in [Procs -> Task] /\ TasksGood'
    BY <1>15, IdleGood DEF Crash, TasksGood, GoodTask
  <2> QED
    BY <1>0, <1>15, <2>1, <2>2, FaultTyped
    DEF Crash, TypeOK, RowsGood, RepliesGood, Exists
<1>16. CASE Tick
  BY <1>0, <1>16 DEF Tick, TypeOK, RowsGood, TasksGood, RepliesGood, Exists
<1>17. CASE UNCHANGED vars
  BY <1>0, <1>17 DEF vars, TypeOK, RowsGood, TasksGood, RepliesGood, Exists
<1> QED
  BY <1>1, <1>2, <1>3, <1>5, <1>6, <1>7, <1>8, <1>10, <1>11, <1>12, <1>13,
     <1>14, <1>15, <1>16, <1>17
  DEF Next, Begin, Resume, Fail

\* Every variable keeps its type, for any number of users, keys, exchanges,
\* slots and faults.
THEOREM TypeCorrect == Spec => []TypeOK
<1>1. TypeInv => TypeOK
  BY DEF TypeInv
<1> QED
  BY <1>1, TypeInit, TypeStep, PTL DEF Spec

\* respond() compares the caller with the row it has read and updates whatever
\* row is there later; get() answers with a row it has read before it discards
\* it.  Even so, each key in an answer comes from the party in whose place it
\* stands, in every interleaving.
THEOREM KeysStayWithParties == Spec => []KeysFromTheirParties
<1>1. TypeInv => KeysFromTheirParties
  BY DEF TypeInv, RepliesGood, GoodRow, KeysFromTheirParties
<1> QED
  BY <1>1, TypeInit, TypeStep, PTL DEF Spec

\* A record that get() or the purge has discarded stays discarded: no UPDATE of
\* an overtaken respond() and no new exchange brings it back.
THEOREM DiscardedStaysSo == Spec => DiscardedForGood
<1>1. ASSUME TypeInv, [Next]_vars, NEW id \in Ids, rows[id] = Gone
      PROVE  rows'[id] = Gone
  BY <1>1, RowStep DEF Exists
<1>2. TypeInv /\ [Next]_vars =>
        [\A id \in Ids : rows[id] = Gone => rows'[id] = Gone]_vars
  BY <1>1
<1> QED
  BY <1>2, TypeInit, TypeStep, PTL DEF Spec, DiscardedForGood

-----------------------------------------------------------------------------
(* Expired records.  The purge task's next tick is at most a period ahead,  *)
(* and by then no record has been expired for longer than a period, unless  *)
(* the period was begun anew by a restart or wasted by a failure.           *)

\* The tick that discards the record id comes in time, or is explained.
TickInTime(id) ==
  \/ purge_at <= rows[id].expires_at + Period
  \/ purge_at <= since + Period

TimerInv ==
  /\ purge_at <= now + Period
  /\ since <= now
  /\ \A id \in Ids : Exists(id) => TickInTime(id)

\* The row of an exchange keeps the expiry it was created with.
LEMMA ExpiryStep ==
  ASSUME TypeInv, [Next]_vars, NEW id \in Ids, Exists(id), Exists(id)'
  PROVE  rows'[id].expires_at = rows[id].expires_at
<1>1. ASSUME NEW k \in Keys, rows'[id] = [rows[id] EXCEPT !.responder_pubkey = k]
      PROVE  rows'[id].expires_at = rows[id].expires_at
  BY <1>1 DEF TypeInv, RowsGood, GoodRow, Row
<1> QED
  BY <1>1, RowStep DEF Exists

\* The timer is set by the purge task and by a restart, to at most a period
\* from now, and only a restart and a failed purge begin the period anew.
LEMMA TimerStep ==
  ASSUME TypeInv, TimerInv, [Next]_vars
  PROVE  /\ purge_at' <= now' + Period
         /\ since' <= now'
         /\ \/ UNCHANGED timer
            \/ Purge
            \/ since' = now /\ purge_at' <= now + Period
<1>0. /\ now \in Nat /\ purge_at \in Nat /\ since \in Nat
      /\ purge_at <= now + Period /\ since <= now
  BY DEF TypeInv, TypeOK, TimerInv
<1>1. CASE Purge \/ PurgeFails
  BY <1>0, <1>1 DEF Purge, PurgeOf, PurgeFails, NextTick, PurgeDue
<1>2. CASE Crash
  BY <1>0, <1>2 DEF Crash
<1>3. CASE UNCHANGED timer /\ now' \in {now, now + 1}
  <2>1. purge_at' = purge_at /\ since' = since
    BY <1>3 DEF timer
  <2>2. now' = now \/ now' = now + 1
    BY <1>3
  <2>3. purge_at' <= now' + Period /\ since' <= now'
    BY <1>0, <2>1, <2>2
  <2> QED
    BY <1>3, <2>3
<1>4. ASSUME NEW p \in Procs, Begin(p) \/ Resume(p) \/ Fail(p)
      PROVE  UNCHANGED <<timer, now>>
  BY <1>4
  DEF Begin, InitiateInsert, Create, RespondRead, Respond, GetRead, Resume,
      InitiateNotify, RespondUpdate, RespondNotify, RespondReply, GetDelete,
      GetReply, Fail, DeleteFails, Cancel
<1> QED
  BY <1>1, <1>2, <1>3, <1>4 DEF Next, Tick, vars

\* A new record expires no earlier than now.
LEMMA NewRowStep ==
  ASSUME TypeInv, [Next]_vars, NEW id \in Ids, ~Exists(id), Exists(id)'
  PROVE  UNCHANGED <<timer, now>> /\ rows'[id].expires_at >= now
<1> USE DEF TypeInv
<1>1. ASSUME NEW p \in Procs, NEW u \in Users, NEW v \in Users, NEW k \in Keys,
             NEW i \in Ids, InitiateInsert(p, u, v, k, i)
      PROVE  UNCHANGED <<timer, now>> /\ rows'[id].expires_at >= now
  BY <1>1 DEF InitiateInsert, Create, NewRow, TypeOK, Exists
<1>2. ASSUME NEW p \in Procs, RespondUpdate(p) \/ GetDelete(p)
      PROVE  ~Exists(id)'
  BY <1>2 DEF RespondUpdate, GetDelete, TypeOK, Exists
<1>3. CASE Purge \/ rows' = rows
  BY <1>3 DEF Purge, PurgeOf, Exists
<1> QED
  BY <1>1, <1>2, <1>3
  DEF Next, Begin, Resume, Fail, InitiateNotify, RespondRead, Respond,
      RespondNotify, RespondReply, GetRead, GetReply, DeleteFails, Cancel,
      PurgeFails, Crash, Tick, vars

\* A record that has been expired for a period or longer is still there only
\* while a purge is due, or within a period of a restart or of a purge that
\* failed, for any period, time to live and number of exchanges and faults.
THEOREM ExpiredExplained == Spec => []ExpiredRowsExplained
<1>1. Init => TimerInv
  BY DEF Init, TimerInv, Exists
<1>2. TypeInv /\ TimerInv /\ [Next]_vars => TimerInv'
  <2> SUFFICES ASSUME TypeInv, TimerInv, [Next]_vars PROVE TimerInv'
    OBVIOUS
  <2>1. ASSUME NEW id \in Ids, Exists(id)' PROVE TickInTime(id)'
    <3>0. /\ now \in Nat /\ purge_at \in Nat /\ since \in Nat
          /\ purge_at' \in Nat /\ rows'[id].expires_at \in Nat
      BY <2>1, TypeStep DEF TypeInv, TypeOK, RowsGood, GoodRow, Row
    <3>1. CASE ~Exists(id)
      BY <2>1, <3>0, <3>1, NewRowStep DEF timer, TimerInv, TickInTime
    <3>2. CASE Exists(id) /\ UNCHANGED timer
      BY <2>1, <3>2, ExpiryStep DEF timer, TimerInv, TickInTime
    <3>3. CASE Exists(id) /\ Purge
      <4>1. rows[id].expires_at >= now /\ rows[id].expires_at \in Nat
        BY <2>1, <3>0, <3>3, ExpiryStep
        DEF Purge, PurgeOf, Expired, Exists
      <4> QED
        BY <2>1, <3>0, <3>3, <4>1, ExpiryStep
        DEF Purge, PurgeOf, NextTick, PurgeDue, TickInTime
    <3>4. CASE since' = now /\ purge_at' <= now + Period
      BY <3>0, <3>4 DEF TickInTime
    <3> QED
      BY <3>1, <3>2, <3>3, <3>4, TimerStep
  <2> QED
    BY <2>1, TimerStep DEF TimerInv
<1>3. TypeInv /\ TimerInv => ExpiredRowsExplained
  BY DEF TypeInv, TypeOK, TimerInv, TickInTime, RowsGood, GoodRow, Row,
         ExpiredRowsExplained, PurgeDue
<1> QED
  BY <1>1, <1>2, <1>3, TypeInit, TypeStep, PTL DEF Spec

-----------------------------------------------------------------------------
(* Announced answers.  respond() stores the answer in one step and          *)
(* announces it in a later one, and the initiator may fetch and discard the *)
(* record in between: the invariant is about an answer from the moment it   *)
(* is stored.                                                               *)

\* The answer of exchange id is there for its initiator u, or on its way to
\* it, or has reached it, or is gone for a reason.
AnswerSafe(id, u) ==
  \/ Answered(id)
  \/ \E r \in replies : r.exchange_id = id /\ r.to = u
  \/ \E p \in Procs :
       task[p].pc = "g_reply" /\ task[p].id = id /\ task[p].user = u
  \/ id \in purged \cup lost

\* The exchange id of initiator u has been created, and its answer is safe.
Safe(id, u) ==
  /\ rows[id] # None
  /\ Exists(id) => rows[id].initiator_id = u
  /\ AnswerSafe(id, u)

\* The answer has been announced to u, or is about to be.
Announcing(id, u) ==
  \/ \E m \in published :
       m.type = "exchange_complete" /\ m.exchange_id = id /\ m.to = u
  \/ \E p \in Procs : /\ task[p].pc = "x_notify" /\ task[p].id = id
                      /\ task[p].row.initiator_id = u

AnnounceInv == \A id \in Ids, u \in Users : Announcing(id, u) => Safe(id, u)

\* A handler touches no slot but its own.
LEMMA OthersWait ==
  ASSUME TypeInv, NEW p \in Procs, NEW q \in Procs \ {p},
         Begin(q) \/ Resume(q) \/ Fail(q)
  PROVE  task'[p] = task[p]
<1>1. CASE Begin(q)
  BY <1>1
  DEF Begin, InitiateInsert, Create, RespondRead, Respond, GetRead, Start,
      TypeInv, TypeOK
<1>2. CASE Resume(q) \/ Fail(q)
  <2>1. Return(q) \/ \E pc \in Stage : Goto(q, pc)
    BY <1>2
    DEF Resume, Fail, InitiateNotify, RespondUpdate, RespondNotify,
        RespondReply, GetDelete, GetReply, DeleteFails, Cancel, Stage
  <2> QED
    BY <2>1 DEF Return, Goto, TypeInv, TypeOK
<1> QED
  BY <1>1, <1>2

\* Answers given and histories only grow.
LEMMA HistoryKept ==
  ASSUME [Next]_vars
  PROVE  /\ replies \subseteq replies'
         /\ purged \subseteq purged' /\ lost \subseteq lost'
<1>1. ASSUME NEW p \in Procs, Begin(p)
      PROVE  UNCHANGED <<replies, purged, lost>>
  BY <1>1
  DEF Begin, InitiateInsert, Create, RespondRead, Respond, GetRead
<1>2. ASSUME NEW p \in Procs, Resume(p)
      PROVE  replies \subseteq replies' /\ UNCHANGED <<purged, lost>>
  BY <1>2
  DEF Resume, InitiateNotify, RespondUpdate, RespondNotify, RespondReply,
      GetDelete, GetReply
<1>3. ASSUME NEW p \in Procs, Fail(p)
      PROVE  lost \subseteq lost' /\ UNCHANGED <<replies, purged>>
  BY <1>3 DEF Fail, DeleteFails, Cancel
<1> QED
  BY <1>1, <1>2, <1>3 DEF Next, Purge, PurgeOf, PurgeFails, Crash, Tick, vars

\* A stored answer is discarded by the initiator's get() or by the purge.
LEMMA AnsweredStep ==
  ASSUME TypeInv, [Next]_vars, NEW id \in Ids, Answered(id)
  PROVE  \/ Answered(id)'
         \/ id \in purged'
         \/ \E p \in Procs : /\ task'[p].pc = "g_reply" /\ task'[p].id = id
                             /\ task'[p].user = rows[id].initiator_id
<1>0. \/ rows'[id] = rows[id]
      \/ id \in purged'
      \/ \E p \in Procs : GetDelete(p) /\ task[p].id = id
      \/ \E k \in Keys : rows'[id] = [rows[id] EXCEPT !.responder_pubkey = k]
  BY RowStep DEF Answered, Exists
<1> USE DEF TypeInv
<1>1. ASSUME NEW p \in Procs, GetDelete(p), task[p].id = id
      PROVE  /\ task'[p].pc = "g_reply" /\ task'[p].id = id
             /\ task'[p].user = rows[id].initiator_id
  <2>1. task[p].user = rows[id].initiator_id
    BY <1>1 DEF GetDelete, TasksGood, GoodTask, TasksMatch, Same, Answered
  <2> QED
    BY <1>1, <2>1 DEF GetDelete, Goto, TypeOK, Task
<1>2. ASSUME NEW k \in Keys, rows'[id] = [rows[id] EXCEPT !.responder_pubkey = k]
      PROVE  Answered(id)'
  <2>1. rows[id] \in Row
    BY DEF Answered, RowsGood, GoodRow
  <2>2. rows'[id] \in Row /\ rows'[id].responder_pubkey = k
    BY <1>2, <2>1 DEF Row
  <2> QED
    BY <2>2 DEF Answered, Exists
<1>3. CASE rows'[id] = rows[id]
  BY <1>3 DEF Answered, Exists
<1> QED
  BY <1>0, <1>1, <1>2, <1>3

\* Once an answer is safe, no step makes it unsafe.
LEMMA SafeStep ==
  ASSUME TypeInv, [Next]_vars, NEW id \in Ids, NEW u \in Users, Safe(id, u)
  PROVE  Safe(id, u)'
<1>0. \/ rows'[id] = rows[id]
      \/ rows'[id] = Gone
      \/ /\ Exists(id)
         /\ \E k \in Keys : rows'[id] = [rows[id] EXCEPT !.responder_pubkey = k]
  BY RowStep DEF Safe
<1> USE DEF TypeInv
<1>1. rows'[id] # None /\ (rows'[id] # Gone => rows'[id].initiator_id = u)
  <2>1. ASSUME Exists(id), NEW k \in Keys,
               rows'[id] = [rows[id] EXCEPT !.responder_pubkey = k]
        PROVE  rows'[id] # None /\ rows'[id].initiator_id = u
    BY <2>1 DEF Safe, RowsGood, GoodRow, Row
  <2> QED
    BY <1>0, <2>1 DEF Safe, Exists
<1>2. replies \subseteq replies' /\ purged \subseteq purged' /\ lost \subseteq lost'
  BY HistoryKept
<1>3. ASSUME NEW p \in Procs, task[p].pc = "g_reply", task[p].id = id,
             task[p].user = u
      PROVE  AnswerSafe(id, u)'
  <2>1. CASE GetReply(p)
    <3> DEFINE r == [to |-> u, exchange_id |-> id, row |-> task[p].row]
    <3>1. r \in replies' /\ r.exchange_id = id /\ r.to = u
      BY <1>3, <2>1 DEF GetReply
    <3> QED
      BY <3>1 DEF AnswerSafe
  <2>2. CASE Cancel(p) \/ Crash
    BY <1>3, <2>2 DEF Cancel, Crash, CutOff, AnswerSafe
  <2>3. CASE task'[p] = task[p]
    BY <1>3, <2>3 DEF AnswerSafe
  <2>4. ASSUME Begin(p) \/ Resume(p) \/ Fail(p)
        PROVE  GetReply(p) \/ Cancel(p)
    BY <1>3, <2>4
    DEF Begin, Resume, Fail, InitiateInsert, Create, InitiateNotify,
        RespondRead, Respond, RespondUpdate, RespondNotify, RespondReply,
        GetRead, GetDelete, DeleteFails
  <2>5. ASSUME NEW q \in Procs \ {p}, Begin(q) \/ Resume(q) \/ Fail(q)
        PROVE  task'[p] = task[p]
    BY <2>5, OthersWait
  <2>6. CASE Purge \/ PurgeFails \/ Tick \/ UNCHANGED vars
    BY <2>3, <2>6 DEF Purge, PurgeOf, PurgeFails, Tick, vars
  <2> QED
    BY <2>1, <2>2, <2>3, <2>4, <2>5, <2>6 DEF Next
<1>4. ASSUME Answered(id) PROVE AnswerSafe(id, u)'
  BY <1>4, AnsweredStep DEF AnswerSafe, Safe, Answered
<1>5. AnswerSafe(id, u)'
  BY <1>2, <1>3, <1>4 DEF Safe, AnswerSafe
<1> QED
  BY <1>1, <1>5 DEF Safe, Exists

\* An announcement is made ready by the UPDATE that stores the answer.
LEMMA AnnouncingStep ==
  ASSUME TypeInv, [Next]_vars, NEW id \in Ids, NEW u \in Users,
         Announcing(id, u)'
  PROVE  Announcing(id, u) \/ Safe(id, u)'
<1> USE DEF TypeInv
<1>1. ASSUME NEW p \in Procs, RespondUpdate(p), Exists(task[p].id)
      PROVE  Announcing(id, u) \/ Safe(id, u)'
  <2>1. CASE task[p].id = id /\ task[p].row.initiator_id = u
    <3>1. /\ rows[id] \in Row /\ rows[id].initiator_id = u
          /\ task[p].key \in Keys
      BY <1>1, <2>1
      DEF RespondUpdate, TasksGood, GoodTask, TasksMatch, Same, RowsGood,
          GoodRow
    <3>2. rows'[id] = [rows[id] EXCEPT !.responder_pubkey = task[p].key]
      BY <1>1, <2>1 DEF RespondUpdate, TypeOK
    <3>3. /\ rows'[id] \in Row /\ rows'[id].initiator_id = u
          /\ rows'[id].responder_pubkey # None
      BY <3>1, <3>2 DEF Row
    <3> QED
      BY <3>3 DEF Safe, AnswerSafe, Answered, Exists
  <2>2. CASE ~(task[p].id = id /\ task[p].row.initiator_id = u)
    BY <1>1, <2>2 DEF RespondUpdate, Goto, Announcing, TypeOK, Task
  <2> QED
    BY <2>1, <2>2
<1>2. ASSUME NEW p \in Procs, RespondNotify(p) PROVE Announcing(id, u)
  BY <1>2 DEF RespondNotify, Publish, Goto, Announcing, TypeOK, Task
<1>3. ASSUME NEW p \in Procs, InitiateNotify(p) PROVE Announcing(id, u)
  BY <1>3 DEF InitiateNotify, Publish, Return, Announcing, TypeOK, Idle
<1>4. ASSUME published' = published,
             \A p \in Procs : task'[p] = task[p] \/ task'[p].pc # "x_notify"
      PROVE  Announcing(id, u)
  BY <1>4 DEF Announcing
<1>5. ASSUME NEW p \in Procs, Begin(p) \/ Fail(p) \/ RespondReply(p)
               \/ GetDelete(p) \/ GetReply(p)
               \/ (RespondUpdate(p) /\ ~Exists(task[p].id))
      PROVE  /\ published' = published
             /\ \A q \in Procs : task'[q] = task[q] \/ task'[q].pc # "x_notify"
  BY <1>5
  DEF Begin, InitiateInsert, Create, RespondRead, Respond, GetRead, Fail,
      DeleteFails, Cancel, RespondReply, GetDelete, GetReply, RespondUpdate,
      Start, Goto, Return, Idle, TypeOK, Task
<1>6. CASE Purge \/ PurgeFails \/ Crash \/ Tick \/ UNCHANGED vars
  BY <1>4, <1>6 DEF Purge, PurgeOf, PurgeFails, Crash, Tick, vars, Idle
<1> QED
  BY <1>1, <1>2, <1>3, <1>4, <1>5, <1>6 DEF Next, Resume

\* An answer that respond() has announced is still there to be fetched, or
\* reached the initiator, or is on its way, or expired, or was cut off by a
\* fault: with any number of overlapping calls no other way leads to its loss.
THEOREM AnnouncedAnswersSafe == Spec => []AnnouncedAnswersReachInitiator
<1>1. Init => AnnounceInv
  BY DEF Init, AnnounceInv, Announcing, Idle
<1>2. TypeInv /\ AnnounceInv /\ [Next]_vars => AnnounceInv'
  <2> SUFFICES ASSUME TypeInv, AnnounceInv, [Next]_vars, NEW id \in Ids,
                      NEW u \in Users, Announcing(id, u)'
               PROVE  Safe(id, u)'
    BY DEF AnnounceInv
  <2>1. Announcing(id, u) \/ Safe(id, u)'
    BY AnnouncingStep
  <2> QED
    BY <2>1, SafeStep DEF AnnounceInv
<1>3. TypeInv /\ AnnounceInv => AnnouncedAnswersReachInitiator
  <2> SUFFICES ASSUME TypeInv, AnnounceInv, NEW m \in published,
                      m.type = "exchange_complete"
               PROVE  AnswerSafe(m.exchange_id, m.to)
    BY DEF AnnouncedAnswersReachInitiator, AnswerSafe
  <2>1. m.exchange_id \in Ids /\ m.to \in Users
    BY DEF TypeInv, TypeOK, Notification
  <2> QED
    BY <2>1 DEF AnnounceInv, Announcing, Safe
<1> QED
  BY <1>1, <1>2, <1>3, TypeInit, TypeStep, PTL DEF Spec
=============================================================================
