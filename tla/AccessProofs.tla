---------------------------- MODULE AccessProofs ----------------------------
(***************************************************************************)
(* Proofs about Access for any number of users, devices, request slots and *)
(* faults.                                                                 *)
(***************************************************************************)
EXTENDS Access, TLAPS

USE AccessAssumption

-----------------------------------------------------------------------------
(* Type correctness.  TypeOK alone is not inductive: that a signed token or *)
(* a registered connection is well typed depends on what the handler that   *)
(* creates it has carried along since it checked it.                        *)

\* A token names a device and the user who owns it.
Owned(c) == c \in Claims /\ c.sub = Owner[c.dev]

\* What a handler carries from one step to the next.
GoodTask(t) ==
  /\ t \in Task
  /\ t.pc \in {"v_topics", "v_issue"} =>
       t.dev \in Devices /\ t.user = Owner[t.dev]
  /\ t.pc \in {"a_insert", "a_register"} =>
       t.dev \in Devices /\ Owned(t.token) /\ t.token.dev = t.dev
  /\ t.pc \in {"r_delete", "k_clock", "k_update", "k_kick"} =>
       t.user \in Names
  /\ t.pc = "r_delete" => t.rel \in Rels
  /\ t.pc = "k_kick" => t.left \subseteq DevicesOf(t.user)

TasksGood == \A p \in Procs : GoodTask(task[p])

TokensOwned == \A c \in tokens : Owned(c)

ConnsOwned ==
  \A d \in Devices : conn[d] # None => Owned(conn[d]) /\ conn[d].dev = d

\* The type invariant strengthened to an inductive one.
TypeInv == TypeOK /\ TasksGood /\ TokensOwned /\ ConnsOwned

\* The empty slot is a good task.
LEMMA IdleGood == GoodTask(Idle)
BY DEF Idle, Task, Stage, GoodTask

\* kick_user leaves a good task behind, whatever devices remain.
LEMMA KickGood ==
  ASSUME NEW t, GoodTask(t), t.pc \in {"k_update", "k_kick"},
         NEW left \in SUBSET DevicesOf(t.user)
  PROVE  GoodTask(AfterKick(t)) /\ GoodTask(KickLoop(t, left))
<1>1. GoodTask(AfterKick(t))
  BY IdleGood DEF AfterKick, GoodTask, Task, Stage, Idle
<1>2. left # {} => GoodTask([t EXCEPT !.pc = "k_kick", !.left = left])
  BY DEF GoodTask, Task, Stage, DevicesOf
<1> QED
  BY <1>1, <1>2 DEF KickLoop

\* The steps that only update the task they resume leave a good one.
LEMMA ResumeGood ==
  ASSUME NEW t, GoodTask(t)
  PROVE  /\ \A T \in SUBSET Topics : t.pc = "v_topics" =>
              GoodTask([t EXCEPT !.pc = "v_issue", !.topics = T])
         /\ \A n \in Nat : t.pc = "k_clock" =>
              GoodTask([t EXCEPT !.pc = "k_update", !.at = n])
         /\ t.pc = "r_delete" =>
              GoodTask([t EXCEPT !.pc = "k_clock", !.rel = None])
         /\ t.pc = "a_insert" => GoodTask([t EXCEPT !.pc = "a_register"])
<1>1. ASSUME NEW T \in SUBSET Topics, t.pc = "v_topics"
      PROVE  GoodTask([t EXCEPT !.pc = "v_issue", !.topics = T])
  BY <1>1 DEF GoodTask, Task, Stage
<1>2. ASSUME NEW n \in Nat, t.pc = "k_clock"
      PROVE  GoodTask([t EXCEPT !.pc = "k_update", !.at = n])
  BY <1>2 DEF GoodTask, Task, Stage
<1>3. ASSUME t.pc = "r_delete"
      PROVE  GoodTask([t EXCEPT !.pc = "k_clock", !.rel = None])
  BY <1>3 DEF GoodTask, Task, Stage
<1>4. ASSUME t.pc = "a_insert"
      PROVE  GoodTask([t EXCEPT !.pc = "a_register"])
  BY <1>4 DEF GoodTask, Task, Stage
<1> QED
  BY <1>1, <1>2, <1>3, <1>4

\* Where the handler stands after a step that updates its task.
LEMMA PcAfter ==
  ASSUME NEW t \in Task
  PROVE  /\ Idle.pc = "idle"
         /\ \A u, d : [t EXCEPT !.pc = "v_topics", !.user = u, !.dev = d].pc
                        = "v_topics"
         /\ \A u, r, q : [t EXCEPT !.pc = "r_delete", !.user = u, !.rel = r,
                                   !.peer = q].pc = "r_delete"
         /\ \A u : [t EXCEPT !.pc = "k_clock", !.user = u].pc = "k_clock"
         /\ \A T : [t EXCEPT !.pc = "v_issue", !.topics = T].pc = "v_issue"
         /\ \A n : [t EXCEPT !.pc = "k_update", !.at = n].pc = "k_update"
         /\ [t EXCEPT !.pc = "k_clock", !.rel = None].pc = "k_clock"
BY DEF Task, Idle

\* A slot that receives a good task leaves all slots with good tasks.
LEMMA SetGood ==
  ASSUME TypeInv, NEW p \in Procs, NEW t, GoodTask(t), Set(p, t)
  PROVE  task' \in [Procs -> Task] /\ TasksGood'
BY DEF TypeInv, TypeOK, TasksGood, GoodTask, Set

\* The initial state satisfies the invariant.
LEMMA TypeInit == Init => TypeInv
<1> SUFFICES ASSUME Init PROVE TypeInv
  OBVIOUS
<1>1. TasksGood
  BY IdleGood DEF Init, TasksGood
<1>2. TypeOK
  BY <1>1 DEF Init, TypeOK, TasksGood, GoodTask
<1> QED
  BY <1>1, <1>2 DEF Init, TypeInv, TokensOwned, ConnsOwned

\* EndConnection keeps the broker's tables well typed.
LEMMA EndTyped ==
  ASSUME TypeInv, NEW d \in Devices, EndConnection(d)
  PROVE  /\ conn' \in [Devices -> Claims \cup {None}]
         /\ subs' \in [Devices -> SUBSET Topics]
         /\ closing' \in [Devices -> Nat]
         /\ ConnsOwned'
BY DEF TypeInv, TypeOK, EndConnection, ConnsOwned

\* One step of any handler, client or fault preserves the invariant.
LEMMA TypeStep == TypeInv /\ [Next]_vars => TypeInv'
<1> SUFFICES ASSUME TypeInv, [Next]_vars PROVE TypeInv'
  OBVIOUS
<1> USE DEF TypeInv
<1>1. ASSUME NEW p \in Procs, NEW u \in Users, NEW d \in Devices,
             VerifyBegin(p, u, d)
      PROVE  TypeInv'
  <2>1. GoodTask([Idle EXCEPT !.pc = "v_topics", !.user = u, !.dev = d])
    BY <1>1, IdleGood DEF VerifyBegin, GoodTask, Task, Stage, Idle, DevicesOf
  <2> QED
    BY <1>1, <2>1, SetGood
    DEF VerifyBegin, TypeOK, TokensOwned, ConnsOwned, db, broker, history
<1>2. ASSUME NEW p \in Procs, VerifyTopics(p) PROVE TypeInv'
  <2>1. Permitted(task[p].user) \in SUBSET Topics
    BY <1>2
    DEF VerifyTopics, TasksGood, GoodTask, Permitted, UserTopics, Rows, TypeOK
  <2>2. GoodTask([task[p] EXCEPT !.pc = "v_issue",
                                 !.topics = Permitted(task[p].user)])
    BY <1>2, <2>1, ResumeGood DEF VerifyTopics, TasksGood
  <2> QED
    BY <1>2, <2>2, SetGood
    DEF VerifyTopics, TypeOK, TokensOwned, ConnsOwned, db, broker, history
<1>3. ASSUME NEW p \in Procs, VerifyIssue(p) PROVE TypeInv'
  <2>1. Owned(TokenOf(p, 0))
    BY <1>3
    DEF VerifyIssue, Issue, TokenOf, TasksGood, GoodTask, Owned, Claims,
        TypeOK, Task
  <2> QED
    BY <1>3, <2>1, IdleGood, SetGood
    DEF VerifyIssue, Issue, TypeOK, TokensOwned, ConnsOwned, Owned, db, broker,
        history
<1>4. ASSUME NEW p \in Procs, NEW x \in Devices, NEW c \in tokens,
             ConnectRead(p, x, c)
      PROVE  TypeInv'
  <2>1. GoodTask([Idle EXCEPT !.pc = "a_insert", !.dev = x, !.token = c])
    BY <1>4, IdleGood
    DEF ConnectRead, GoodTask, Task, Stage, Idle, TokensOwned, Owned
  <2> QED
    BY <1>4, <2>1, SetGood
    DEF ConnectRead, Accept, TypeOK, TokensOwned, ConnsOwned, db, broker
<1>5. ASSUME NEW p \in Procs, ConnectInsert(p) PROVE TypeInv'
  <2>1. GoodTask([task[p] EXCEPT !.pc = "a_register"])
    BY <1>5, ResumeGood DEF ConnectInsert, TasksGood
  <2>2. sessions' \in [Devices -> Claims \cup {None}]
    BY <1>5 DEF ConnectInsert, TasksGood, GoodTask, Owned, TypeOK
  <2> QED
    BY <1>5, <2>1, <2>2, SetGood
    DEF ConnectInsert, TypeOK, TokensOwned, ConnsOwned, db, history
<1>6. ASSUME NEW p \in Procs, ConnectRegister(p) PROVE TypeInv'
  <2>1. /\ task[p].dev \in Devices
        /\ Owned(task[p].token) /\ task[p].token.dev = task[p].dev
    BY <1>6 DEF ConnectRegister, TasksGood, GoodTask
  <2>2. /\ conn' \in [Devices -> Claims \cup {None}]
        /\ closing' \in [Devices -> Nat]
        /\ subs' \in [Devices -> SUBSET Topics]
        /\ raced' \subseteq Devices
        /\ missed' \subseteq Procs
    BY <1>6, <2>1 DEF ConnectRegister, TypeOK, Owned
  <2>3. ConnsOwned'
    BY <1>6, <2>1 DEF ConnectRegister, TypeOK, ConnsOwned
  <2> QED
    BY <1>6, <2>2, <2>3, IdleGood, SetGood
    DEF ConnectRegister, TypeOK, TokensOwned, db
<1>7. ASSUME NEW d \in Devices, NEW t \in Topics, Subscribe(d, t)
      PROVE  TypeInv'
  BY <1>7
  DEF Subscribe, TypeOK, TasksGood, TokensOwned, ConnsOwned, db, history
<1>8. ASSUME NEW d \in Devices, Disconnect(d) PROVE TypeInv'
  BY <1>8, EndTyped DEF Disconnect, TypeOK, TasksGood, TokensOwned, db, history
<1>9. ASSUME NEW d \in Devices, DisconnectedHook(d) PROVE TypeInv'
  BY <1>9
  DEF DisconnectedHook, TypeOK, TasksGood, TokensOwned, ConnsOwned, db, history
<1>10. ASSUME NEW p \in Procs, KickClock(p) PROVE TypeInv'
  <2>1. GoodTask([task[p] EXCEPT !.pc = "k_update", !.at = now])
    BY <1>10, ResumeGood DEF KickClock, Clock, TasksGood, TypeOK
  <2> QED
    BY <1>10, <2>1, SetGood
    DEF KickClock, Clock, TypeOK, TokensOwned, ConnsOwned, db, broker, history
<1>11. ASSUME NEW p \in Procs, task[p].pc = "k_update"
       PROVE  /\ GoodTask(AfterKick(task[p]))
              /\ GoodTask(KickLoop(task[p], DevicesOf(task[p].user)))
              /\ Floors(task[p].user, task[p].at) \in [Users -> Nat]
              /\ task[p].user \in Names
  <2>1. GoodTask(task[p])
    BY DEF TasksGood
  <2>2. task[p].user \in Names /\ task[p].at \in Nat
    BY <1>11, <2>1 DEF GoodTask, Task
  <2>3. Floors(task[p].user, task[p].at) \in [Users -> Nat]
    BY <2>2 DEF Floors, TypeOK
  <2> QED
    BY <1>11, <2>1, <2>2, <2>3, KickGood
<1>12. ASSUME NEW p \in Procs, KickInvalidate(p) PROVE TypeInv'
  BY <1>12, <1>11, SetGood
  DEF KickInvalidate, Rivals, TypeOK, TokensOwned, ConnsOwned, broker
<1>13. ASSUME NEW p \in Procs, NEW d \in Devices, KickDevice(p, d)
       PROVE  TypeInv'
  <2>1. GoodTask(KickLoop(task[p], task[p].left \ {d}))
    <3>1. GoodTask(task[p])
      BY DEF TasksGood
    <3>2. task[p].left \ {d} \in SUBSET DevicesOf(task[p].user)
      BY <1>13, <3>1 DEF KickDevice, GoodTask
    <3> QED
      BY <1>13, <3>1, <3>2, KickGood DEF KickDevice
  <2> QED
    BY <1>13, <2>1, SetGood, EndTyped DEF KickDevice, TypeOK, TokensOwned, db
<1>14. ASSUME NEW c \in tokens, NEW r \in Rels, NEW g \in Grants,
              CreateRelationship(c, r, g)
       PROVE  TypeInv'
  BY <1>14
  DEF CreateRelationship, InsertRelationship, TypeOK, TasksGood, TokensOwned,
      ConnsOwned, broker, history
<1>15. ASSUME NEW p \in Procs, NEW c \in tokens, NEW r \in Rels,
              RevokeBegin(p, c, r)
       PROVE  TypeInv'
  <2>1. c.sub \in Names /\ rels[r].peer_id \in Names
    BY <1>15 DEF RevokeBegin, GetRelationship, Rows, TokensOwned, Owned, Claims
  <2>2. GoodTask([Idle EXCEPT !.pc = "r_delete", !.user = c.sub, !.rel = r,
                              !.peer = rels[r].peer_id])
    BY <2>1, IdleGood DEF GoodTask, Task, Stage, Idle
  <2> QED
    BY <1>15, <2>2, SetGood
    DEF RevokeBegin, TypeOK, TokensOwned, ConnsOwned, db, broker, history
<1>16. ASSUME NEW p \in Procs, RevokeDelete(p) PROVE TypeInv'
  <2>1. GoodTask([task[p] EXCEPT !.pc = "k_clock", !.rel = None])
    BY <1>16, ResumeGood DEF RevokeDelete, TasksGood
  <2>2. task' \in [Procs -> Task] /\ TasksGood'
    BY <1>16, <2>1, IdleGood, SetGood DEF RevokeDelete
  <2>3. rels' \in [Rels -> Grants \cup {None, Gone}]
    BY <1>16 DEF RevokeDelete, DeleteRelationship, TypeOK
  <2> QED
    BY <1>16, <2>2, <2>3
    DEF RevokeDelete, TypeOK, TokensOwned, ConnsOwned, broker, history
<1>17. ASSUME NEW p \in Procs, NEW u \in Users, SuspendUser(p, u)
       PROVE  TypeInv'
  <2>1. GoodTask([Idle EXCEPT !.pc = "k_clock", !.user = u])
    BY IdleGood DEF GoodTask, Task, Stage, Idle
  <2> QED
    BY <1>17, <2>1, SetGood
    DEF SuspendUser, SetSuspended, TypeOK, TokensOwned, ConnsOwned, broker,
        history
<1>18. ASSUME NEW u \in Users, UnsuspendUser(u) PROVE TypeInv'
  BY <1>18
  DEF UnsuspendUser, SetSuspended, TypeOK, TasksGood, TokensOwned, ConnsOwned,
      broker, history
<1>19. ASSUME NEW p \in Procs, InvalidateFails(p) PROVE TypeInv'
  BY <1>19, <1>11, SetGood
  DEF InvalidateFails, Fault, TypeOK, TokensOwned, ConnsOwned, db, broker
<1>20. ASSUME NEW p \in Procs, DeviceLookupFails(p) PROVE TypeInv'
  BY <1>20, <1>11, SetGood
  DEF DeviceLookupFails, Rivals, Fault, TypeOK, TokensOwned, ConnsOwned, broker
<1>21. ASSUME NEW p \in Procs, Cancel(p) PROVE TypeInv'
  <2>1. abandoned' \subseteq Names
    BY <1>21 DEF Cancel, Kicking, TasksGood, GoodTask, TypeOK
  <2> QED
    BY <1>21, <2>1, IdleGood, SetGood
    DEF Cancel, Fault, TypeOK, TokensOwned, ConnsOwned, db, broker
<1>22. CASE Crash
  BY <1>22, IdleGood
  DEF Crash, Fault, TypeOK, TasksGood, TokensOwned, ConnsOwned, GoodTask, db
<1>23. CASE Tick
  BY <1>23
  DEF Tick, TypeOK, TasksGood, TokensOwned, ConnsOwned, db, broker, history
<1>24. CASE UNCHANGED vars
  BY <1>24
  DEF vars, TypeOK, TasksGood, TokensOwned, ConnsOwned, db, broker, history
<1> QED
  BY <1>1, <1>2, <1>3, <1>4, <1>5, <1>6, <1>7, <1>8, <1>9, <1>10, <1>12, <1>13,
     <1>14, <1>15, <1>16, <1>17, <1>18, <1>19, <1>20, <1>21, <1>22, <1>23,
     <1>24
  DEF Next, Begin, Resume, Fail

\* Every variable keeps its type, for any number of users, devices, slots and
\* faults.
THEOREM TypeCorrect == Spec => []TypeOK
<1>1. TypeInv => TypeOK
  BY DEF TypeInv
<1> QED
  BY <1>1, TypeInit, TypeStep, PTL DEF Spec

\* The check of the client id in authenticate() does what its comment says: a
\* kick_user for the user of a token finds every connection that the token
\* admitted, in every interleaving of verifies, connects, kicks and faults.
THEOREM KickFindsConnections == Spec => []ConnectionsKickable
<1>1. TypeInv => ConnectionsKickable
  BY DEF TypeInv, ConnsOwned, Owned, ConnectionsKickable, DevicesOf, Claims
<1> QED
  BY <1>1, TypeInit, TypeStep, PTL DEF Spec

-----------------------------------------------------------------------------
(* What a kick misses.  The two invariants about connections need a third   *)
(* one about admissions in flight: the auth hook may have accepted a token  *)
(* that has since become stale.                                             *)

\* kick_user in task t will still reach device d.
Covers(t, d) ==
  \/ t.pc \in {"k_clock", "k_update"} /\ t.user = Owner[d]
  \/ t.pc = "k_kick" /\ d \in t.left

\* A kick is on its way to d, or was cut short.
Covered(d) ==
  \/ \E p \in Procs : Covers(task[p], d)
  \/ Owner[d] \in abandoned

\* A connection of d with token c ought to be closed.
Due(d, c) == c.iat < tokens_valid_from[Owner[d]] \/ suspended[Owner[d]]

ConnsExplained ==
  \A d \in Devices :
    conn[d] # None /\ Due(d, conn[d]) => Covered(d) \/ d \in raced

AdmissionsExplained ==
  \A p \in Procs :
    Admitting(p) /\ Due(task[p].dev, task[p].token)
      => Covered(task[p].dev) \/ p \in missed

EvictInv == ConnsExplained /\ AdmissionsExplained

\* A step of slot p keeps d covered if what p did for d is kept or written off.
LEMMA CoverFrame ==
  ASSUME TypeInv, NEW p \in Procs, NEW t, Set(p, t), NEW d \in Devices,
         Covers(task[p], d) => Covers(t, d) \/ Owner[d] \in abandoned',
         Owner[d] \in abandoned => Covers(t, d) \/ Owner[d] \in abandoned'
  PROVE  Covered(d) => Covered(d)'
<1>1. task'[p] = t /\ \A q \in Procs \ {p} : task'[q] = task[q]
  BY DEF TypeInv, TypeOK, Set
<1> QED
  BY <1>1 DEF Covered, Covers

\* The loop of kick_user covers the devices it still has to kick.
LEMMA LoopCovers ==
  ASSUME NEW t, GoodTask(t), NEW left, NEW d \in left
  PROVE  Covers(KickLoop(t, left), d)
BY DEF KickLoop, Covers, GoodTask, Task

\* Only the kick of d itself, or a restart, ends the cover of d.
LEMMA CoverStep ==
  ASSUME TypeInv, [Next]_vars, NEW d \in Devices, Covered(d)
  PROVE  Covered(d)' \/ Crash \/ \E p \in Procs : KickDevice(p, d)
<1> USE DEF TypeInv
<1>1. ASSUME NEW p \in Procs, Begin(p) PROVE Covered(d)'
  BY <1>1, CoverFrame
  DEF Begin, VerifyBegin, ConnectRead, Accept, RevokeBegin, SuspendUser,
      Covers, history
<1>2. ASSUME NEW p \in Procs,
             VerifyTopics(p) \/ VerifyIssue(p) \/ ConnectInsert(p)
               \/ ConnectRegister(p)
      PROVE  Covered(d)'
  BY <1>2, CoverFrame
  DEF VerifyTopics, VerifyIssue, Issue, ConnectInsert, ConnectRegister,
      Covers, history
<1>3. ASSUME NEW p \in Procs, RevokeDelete(p) PROVE Covered(d)'
  BY <1>3, CoverFrame DEF RevokeDelete, Covers, history
<1>4. ASSUME NEW p \in Procs, KickClock(p) PROVE Covered(d)'
  <2>1. Covers(task[p], d) =>
          Covers([task[p] EXCEPT !.pc = "k_update", !.at = now], d)
    BY <1>4 DEF KickClock, Clock, Covers, TypeOK, Task
  <2> QED
    BY <1>4, <2>1, CoverFrame DEF KickClock, Clock, history
<1>5. ASSUME NEW p \in Procs, KickInvalidate(p) \/ InvalidateFails(p)
      PROVE  Covered(d)'
  <2> DEFINE t == KickLoop(task[p], DevicesOf(task[p].user))
  <2>1. Owner[d] = task[p].user => Covers(t, d)
    BY LoopCovers DEF DevicesOf, TasksGood
  <2>2. Covers(task[p], d) => Covers(t, d)
    BY <1>5, <2>1 DEF KickInvalidate, InvalidateFails, Covers
  <2>3. Owner[d] \in abandoned => Covers(t, d) \/ Owner[d] \in abandoned'
    BY <1>5, <2>1 DEF KickInvalidate, InvalidateFails
  <2> QED
    BY <1>5, <2>2, <2>3, CoverFrame DEF KickInvalidate, InvalidateFails
<1>6. ASSUME NEW p \in Procs, NEW e \in Devices \ {d}, KickDevice(p, e)
      PROVE  Covered(d)'
  <2>1. Covers(task[p], d) => Covers(KickLoop(task[p], task[p].left \ {e}), d)
    BY <1>6, LoopCovers DEF KickDevice, Covers, TasksGood
  <2> QED
    BY <1>6, <2>1, CoverFrame DEF KickDevice
<1>7. ASSUME NEW p \in Procs, DeviceLookupFails(p) PROVE Covered(d)'
  BY <1>7, CoverFrame DEF DeviceLookupFails, Covers
<1>8. ASSUME NEW p \in Procs, Cancel(p) PROVE Covered(d)'
  <2>1. Covers(task[p], d) => Owner[d] \in abandoned'
    BY <1>8 DEF Cancel, Covers, Kicking, TasksGood, GoodTask, DevicesOf
  <2> QED
    BY <1>8, <2>1, CoverFrame DEF Cancel
<1>9. CASE UNCHANGED <<task, abandoned>>
  BY <1>9 DEF Covered, Covers
<1> QED
  BY <1>1, <1>2, <1>3, <1>4, <1>5, <1>6, <1>7, <1>8, <1>9
  DEF Next, Resume, Fail, CreateRelationship, UnsuspendUser, Subscribe,
      Disconnect, DisconnectedHook, Tick, vars, history

\* A connection or admission becomes due only in a step that leaves it covered.
LEMMA DueStep ==
  ASSUME TypeInv, [Next]_vars, NEW d \in Devices, NEW c, Due(d, c)'
  PROVE  Due(d, c) \/ Covered(d)'
<1> USE DEF TypeInv
<1>1. ASSUME NEW p \in Procs, NEW u \in Users, SuspendUser(p, u)
      PROVE  Due(d, c) \/ Covered(d)'
  <2>1. u = Owner[d] => Covered(d)'
    BY <1>1 DEF SuspendUser, Set, Covered, Covers, TypeOK, Idle
  <2> QED
    BY <1>1, <2>1 DEF SuspendUser, SetSuspended, Due, TypeOK
<1>2. ASSUME NEW p \in Procs, KickInvalidate(p)
      PROVE  Due(d, c) \/ Covered(d)'
  <2>1. task[p].user = Owner[d] => Covered(d)'
    <3>1. task'[p] = KickLoop(task[p], DevicesOf(task[p].user))
      BY <1>2 DEF KickInvalidate, Set, TypeOK
    <3> QED
      BY <3>1, LoopCovers DEF DevicesOf, TasksGood, Covered
  <2> QED
    BY <1>2, <2>1 DEF KickInvalidate, Floors, Due
<1>3. ASSUME NEW p \in Procs, DeviceLookupFails(p)
      PROVE  Due(d, c) \/ Covered(d)'
  <2>1. task[p].user = Owner[d] => Covered(d)'
    BY <1>3 DEF DeviceLookupFails, Covered
  <2> QED
    BY <1>3, <2>1 DEF DeviceLookupFails, Floors, Due
<1>4. ASSUME NEW u \in Users, UnsuspendUser(u) PROVE Due(d, c)
  BY <1>4 DEF UnsuspendUser, SetSuspended, Due, TypeOK
<1>5. CASE UNCHANGED <<suspended, tokens_valid_from>>
  BY <1>5 DEF Due
<1> QED
  BY <1>1, <1>2, <1>3, <1>4, <1>5
  DEF Next, Begin, Resume, Fail, VerifyBegin, ConnectRead, Accept, RevokeBegin,
      VerifyTopics, VerifyIssue, Issue, ConnectInsert, ConnectRegister,
      RevokeDelete, KickClock, Clock, KickDevice, InvalidateFails, Cancel,
      CreateRelationship, Subscribe, Disconnect, DisconnectedHook, Crash, Tick,
      vars, db

\* A live connection is new, or is the one the device had before.
LEMMA ConnStep ==
  ASSUME TypeInv, [Next]_vars, NEW d \in Devices, conn'[d] # None
  PROVE  \/ \E p \in Procs : ConnectRegister(p) /\ task[p].dev = d
         \/ /\ conn'[d] = conn[d]
            /\ d \in raced => d \in raced'
            /\ ~Crash
            /\ \A p \in Procs : ~KickDevice(p, d)
<1> USE DEF TypeInv
<1>1. ASSUME NEW p \in Procs PROVE ~KickDevice(p, d)
  BY <1>1 DEF KickDevice, EndConnection, TypeOK
<1>2. ~Crash
  BY DEF Crash
<1>3. ASSUME NEW p \in Procs, ConnectRegister(p), task[p].dev # d
      PROVE  conn'[d] = conn[d] /\ (d \in raced => d \in raced')
  BY <1>3 DEF ConnectRegister, TypeOK
<1>4. ASSUME NEW p \in Procs, NEW e \in Devices \ {d}, KickDevice(p, e)
      PROVE  conn'[d] = conn[d] /\ (d \in raced => d \in raced')
  BY <1>4 DEF KickDevice, EndConnection, TypeOK
<1>5. ASSUME NEW e \in Devices, Disconnect(e)
      PROVE  conn'[d] = conn[d] /\ raced' = raced
  BY <1>5 DEF Disconnect, EndConnection, TypeOK, history
<1>6. CASE UNCHANGED <<conn, raced>>
  BY <1>1, <1>2, <1>6
<1> QED
  BY <1>1, <1>2, <1>3, <1>4, <1>5, <1>6
  DEF Next, Begin, Resume, Fail, VerifyBegin, ConnectRead, Accept, RevokeBegin,
      SuspendUser, VerifyTopics, VerifyIssue, Issue, ConnectInsert,
      RevokeDelete, KickClock, Clock, KickInvalidate, InvalidateFails,
      DeviceLookupFails, Cancel, CreateRelationship, UnsuspendUser, Subscribe,
      DisconnectedHook, Tick, vars, broker, history

\* An admission in flight is new and not due, or was in flight before with the
\* same token; a kick of its device that passes by marks it as missed.
LEMMA AdmitStep ==
  ASSUME TypeInv, [Next]_vars, NEW p \in Procs, Admitting(p)'
  PROVE  \/ ~Due(task[p].dev, task[p].token)'
         \/ /\ Admitting(p)
            /\ task'[p].dev = task[p].dev /\ task'[p].token = task[p].token
            /\ p \in missed => p \in missed'
            /\ ~Crash
            /\ \A q \in Procs : KickDevice(q, task[p].dev) => p \in missed'
<1> USE DEF TypeInv
<1>1. ~Crash
  BY DEF Crash, Admitting, Idle
<1>2. ASSUME NEW q \in Procs, NEW x \in Devices, NEW c \in tokens,
             ConnectRead(q, x, c), q = p
      PROVE  ~Due(task[p].dev, task[p].token)'
  <2>1. task'[p].dev = c.dev /\ task'[p].token = c /\ Owner[c.dev] = c.sub
    BY <1>2 DEF ConnectRead, Accept, Set, TypeOK, Idle, TokensOwned, Owned
  <2> QED
    BY <1>2, <2>1 DEF ConnectRead, Accept, Active, Due, TokensOwned, Owned, Claims,
                      TypeOK, db
<1>3. ASSUME NEW q \in Procs, ConnectInsert(q), q = p
      PROVE  /\ Admitting(p)
             /\ task'[p].dev = task[p].dev /\ task'[p].token = task[p].token
             /\ missed' = missed
  BY <1>3 DEF ConnectInsert, Set, TypeOK, Admitting, Task, history
<1>4. ASSUME NEW q \in Procs, Begin(q) \/ Resume(q) \/ Fail(q), q # p
      PROVE  task'[p] = task[p] /\ (p \in missed => p \in missed')
  BY <1>4
  DEF Begin, Resume, Fail, VerifyBegin, ConnectRead, Accept, RevokeBegin,
      SuspendUser, VerifyTopics, VerifyIssue, Issue, ConnectInsert,
      ConnectRegister, RevokeDelete, KickClock, Clock, KickInvalidate,
      KickDevice,
      InvalidateFails, DeviceLookupFails, Cancel, Set, TypeOK, history
<1>5. ASSUME NEW q \in Procs, KickDevice(q, task[p].dev), Admitting(p)
      PROVE  p \in missed'
  BY <1>5 DEF KickDevice
<1>6. ASSUME Begin(p) \/ Resume(p) \/ Fail(p),
             ~ \E x \in Devices, c \in tokens : ConnectRead(p, x, c)
      PROVE  ConnectInsert(p)
  <2>1. GoodTask(task[p])
    BY DEF TasksGood
  <2>2. ASSUME NEW left
        PROVE  /\ task[p].pc \in {"k_update", "k_kick"} =>
                    KickLoop(task[p], left).pc
                      \in {"idle", "k_clock", "k_kick"}
               /\ AfterKick(task[p]).pc \in {"idle", "k_clock"}
    BY <2>1 DEF GoodTask, KickLoop, AfterKick, Task, Idle
  <2>3. ASSUME NEW t, Set(p, t) PROVE t.pc \in {"a_insert", "a_register"}
    BY <2>3 DEF Set, TypeOK, Admitting
  <2>4. ~ (\/ \E u \in Users, d \in Devices : VerifyBegin(p, u, d)
           \/ \E c \in tokens, r \in Rels : RevokeBegin(p, c, r)
           \/ \E u \in Users : SuspendUser(p, u))
    <3>1. ASSUME NEW u \in Users, NEW d \in Devices, VerifyBegin(p, u, d)
          PROVE  FALSE
      <4> DEFINE t == [Idle EXCEPT !.pc = "v_topics", !.user = u, !.dev = d]
      <4>1. t.pc = "v_topics"
        BY IdleGood, PcAfter DEF GoodTask
      <4>2. Set(p, t)
        BY <3>1 DEF VerifyBegin
      <4> HIDE DEF t
      <4> QED
        BY <2>3, <4>1, <4>2
    <3>2. ASSUME NEW c \in tokens, NEW r \in Rels, RevokeBegin(p, c, r)
          PROVE  FALSE
      <4> DEFINE t == [Idle EXCEPT !.pc = "r_delete", !.user = c.sub,
                                   !.rel = r, !.peer = rels[r].peer_id]
      <4>1. t.pc = "r_delete"
        BY IdleGood, PcAfter DEF GoodTask
      <4>2. Set(p, t)
        BY <3>2 DEF RevokeBegin
      <4> HIDE DEF t
      <4> QED
        BY <2>3, <4>1, <4>2
    <3>3. ASSUME NEW u \in Users, SuspendUser(p, u) PROVE FALSE
      <4> DEFINE t == [Idle EXCEPT !.pc = "k_clock", !.user = u]
      <4>1. t.pc = "k_clock"
        BY IdleGood, PcAfter DEF GoodTask
      <4>2. Set(p, t)
        BY <3>3 DEF SuspendUser
      <4> HIDE DEF t
      <4> QED
        BY <2>3, <4>1, <4>2
    <3> QED
      BY <3>1, <3>2, <3>3
  <2>5. ~ (VerifyTopics(p) \/ VerifyIssue(p) \/ ConnectRegister(p)
             \/ RevokeDelete(p) \/ KickClock(p) \/ Cancel(p))
    <3>1. ASSUME VerifyTopics(p) PROVE FALSE
      <4> DEFINE t == [task[p] EXCEPT !.pc = "v_issue",
                                    !.topics = Permitted(task[p].user)]
      <4>1. t.pc = "v_issue"
        BY <2>1, PcAfter DEF GoodTask
      <4>2. Set(p, t)
        BY <3>1 DEF VerifyTopics
      <4> HIDE DEF t
      <4> QED
        BY <2>3, <4>1, <4>2
    <3>2. ~(VerifyIssue(p) \/ ConnectRegister(p) \/ Cancel(p))
      BY <2>1, <2>3, PcAfter
      DEF VerifyIssue, Issue, ConnectRegister, Cancel, GoodTask
    <3>3. ASSUME RevokeDelete(p) PROVE FALSE
      <4> DEFINE t == [task[p] EXCEPT !.pc = "k_clock", !.rel = None]
      <4>1. t.pc = "k_clock" /\ Idle.pc = "idle"
        BY <2>1, PcAfter DEF GoodTask
      <4>2. Set(p, t) \/ Set(p, Idle)
        BY <3>3 DEF RevokeDelete
      <4> HIDE DEF t
      <4> QED
        BY <2>3, <4>1, <4>2
    <3>4. ASSUME KickClock(p) PROVE FALSE
      <4> DEFINE t == [task[p] EXCEPT !.pc = "k_update", !.at = now]
      <4>1. t.pc = "k_update"
        BY <2>1, PcAfter DEF GoodTask
      <4>2. Set(p, t)
        BY <3>4 DEF KickClock, Clock
      <4> HIDE DEF t
      <4> QED
        BY <2>3, <4>1, <4>2
    <3> QED
      BY <3>1, <3>2, <3>3, <3>4
  <2>6. ~ (\/ KickInvalidate(p) \/ InvalidateFails(p) \/ DeviceLookupFails(p)
           \/ \E d \in Devices : KickDevice(p, d))
    BY <2>2, <2>3
    DEF KickInvalidate, InvalidateFails, DeviceLookupFails, KickDevice
  <2> QED
    BY <1>6, <2>4, <2>5, <2>6 DEF Begin, Resume, Fail
<1>7. CASE UNCHANGED <<task, missed>>
  BY <1>1, <1>5, <1>7 DEF Admitting
<1>8. CASE \E q \in Procs : Begin(q) \/ Resume(q) \/ Fail(q)
  <2>1. PICK q \in Procs : Begin(q) \/ Resume(q) \/ Fail(q)
    BY <1>8
  <2>2. CASE q # p
    BY <1>1, <1>4, <1>5, <2>1, <2>2 DEF Admitting
  <2>3. CASE q = p
    BY <1>1, <1>2, <1>3, <1>5, <1>6, <2>1, <2>3
  <2> QED
    BY <2>2, <2>3
<1> QED
  BY <1>1, <1>7, <1>8
  DEF Next, CreateRelationship, UnsuspendUser, Subscribe, Disconnect,
      DisconnectedHook, Tick, vars, history

\* The initial state and every step keep connections and admissions explained.
LEMMA EvictInit == Init => EvictInv
BY DEF Init, EvictInv, ConnsExplained, AdmissionsExplained, Admitting, Idle

LEMMA EvictStep == TypeInv /\ EvictInv /\ [Next]_vars => EvictInv'
<1> SUFFICES ASSUME TypeInv, EvictInv, [Next]_vars PROVE EvictInv'
  OBVIOUS
<1>1. ConnsExplained'
  <2> SUFFICES ASSUME NEW d \in Devices, conn'[d] # None, Due(d, conn[d])'
               PROVE  Covered(d)' \/ d \in raced'
    BY DEF ConnsExplained
  <2>1. CASE \E p \in Procs : ConnectRegister(p) /\ task[p].dev = d
    <3>1. PICK p \in Procs : ConnectRegister(p) /\ task[p].dev = d
      BY <2>1
    <3>2. conn'[d] = task[p].token /\ Admitting(p)
      BY <3>1 DEF ConnectRegister, Admitting, TypeInv, TypeOK
    <3>3. Due(d, task[p].token)
      BY <3>1, <3>2 DEF ConnectRegister, Due, db
    <3>4. Covered(d) \/ p \in missed
      BY <3>1, <3>2, <3>3 DEF EvictInv, AdmissionsExplained
    <3>5. p \in missed => d \in raced'
      BY <3>1 DEF ConnectRegister
    <3>6. Covered(d) => Covered(d)'
      BY <3>1, CoverFrame DEF ConnectRegister, Covers
    <3> QED
      BY <3>4, <3>5, <3>6
  <2>2. CASE /\ conn'[d] = conn[d]
             /\ d \in raced => d \in raced'
             /\ ~Crash
             /\ \A p \in Procs : ~KickDevice(p, d)
    <3>1. Due(d, conn[d]) \/ Covered(d)'
      BY <2>2, DueStep DEF Due
    <3>2. Due(d, conn[d]) => Covered(d) \/ d \in raced
      BY <2>2 DEF EvictInv, ConnsExplained
    <3> QED
      BY <2>2, <3>1, <3>2, CoverStep
  <2> QED
    BY <2>1, <2>2, ConnStep
<1>2. AdmissionsExplained'
  <2> SUFFICES ASSUME NEW p \in Procs, Admitting(p)',
                      Due(task[p].dev, task[p].token)'
               PROVE  Covered(task[p].dev)' \/ p \in missed'
    BY DEF AdmissionsExplained
  <2> DEFINE d == task[p].dev
             c == task[p].token
  <2>1. /\ Admitting(p)
        /\ task'[p].dev = d /\ task'[p].token = c
        /\ p \in missed => p \in missed'
        /\ ~Crash
        /\ \A q \in Procs : KickDevice(q, d) => p \in missed'
    BY AdmitStep
  <2>2. d \in Devices
    BY <2>1 DEF Admitting, TypeInv, TasksGood, GoodTask
  <2>3. Due(d, c) \/ Covered(task[p].dev)'
    BY <2>1, <2>2, DueStep DEF Due, Covered
  <2>4. Due(d, c) => Covered(d) \/ p \in missed
    BY <2>1 DEF EvictInv, AdmissionsExplained
  <2>5. Covered(d) => Covered(task[p].dev)' \/ p \in missed'
    BY <2>1, <2>2, CoverStep DEF Covered
  <2> QED
    BY <2>1, <2>3, <2>4, <2>5
<1> QED
  BY <1>1, <1>2 DEF EvictInv

\* A connection below the floor has a kick on its way, or got in while a kick
\* passed by, or the kick was cut short: for every number of users, devices,
\* overlapping requests and faults.
THEOREM StaleExplained == Spec => []StaleConnectionsExplained
<1>1. TypeInv /\ EvictInv => StaleConnectionsExplained
  BY DEF EvictInv, ConnsExplained, Due, Covered, Covers,
         StaleConnectionsExplained, KickComing, Escaped
<1> QED
  BY <1>1, TypeInit, TypeStep, EvictInit, EvictStep, PTL DEF Spec

\* The same for the connections of a suspended user.
THEOREM SuspendedExplained == Spec => []SuspendedConnectionsExplained
<1>1. TypeInv /\ EvictInv => SuspendedConnectionsExplained
  BY DEF EvictInv, ConnsExplained, Due, Covered, Covers,
         SuspendedConnectionsExplained, KickComing, Escaped
<1> QED
  BY <1>1, TypeInit, TypeStep, EvictInit, EvictStep, PTL DEF Spec

-----------------------------------------------------------------------------
(* A token is born valid: no floor lies in the future, and none is on its    *)
(* way into the database either.                                             *)

ClockInv ==
  /\ \A u \in Users : tokens_valid_from[u] <= now
  /\ \A p \in Procs : task[p].at <= now

\* No floor is set at the start.
LEMMA ClockInit == Init => ClockInv
BY DEF Init, ClockInv, Idle

\* A slot that receives a task with a clock of the past leaves all such.
LEMMA SetClock ==
  ASSUME TypeInv, ClockInv, NEW p \in Procs, NEW t, t.at <= now, Set(p, t),
         now' = now
  PROVE  \A q \in Procs : task'[q].at <= now'
BY DEF TypeInv, TypeOK, ClockInv, Set

\* kick_user keeps or forgets the clock it has read.
LEMMA KickKeepsClock ==
  ASSUME NEW t \in Task, NEW left
  PROVE  AfterKick(t).at \in {0, t.at} /\ KickLoop(t, left).at \in {0, t.at}
BY DEF AfterKick, KickLoop, Idle, Task

\* Only the clock moves the clock, and only invalidate_tokens stores it.
LEMMA ClockStep == TypeInv /\ ClockInv /\ [Next]_vars => ClockInv'
<1> SUFFICES ASSUME TypeInv, ClockInv, [Next]_vars PROVE ClockInv'
  OBVIOUS
<1> USE DEF ClockInv
<1>0. /\ now \in Nat
      /\ \A p \in Procs : task[p] \in Task /\ task[p].at \in Nat
      /\ Idle.at = 0
  BY DEF TypeInv, TypeOK, Task, Idle
<1>1. ASSUME NEW p \in Procs, KickInvalidate(p) \/ DeviceLookupFails(p)
      PROVE  ClockInv'
  <2>1. /\ AfterKick(task[p]).at <= now
        /\ KickLoop(task[p], DevicesOf(task[p].user)).at <= now
    BY <1>0, KickKeepsClock
  <2>2. \A u \in Users : tokens_valid_from'[u] <= now'
    BY <1>0, <1>1 DEF KickInvalidate, DeviceLookupFails, Floors
  <2> QED
    BY <1>1, <2>1, <2>2, SetClock DEF KickInvalidate, DeviceLookupFails
<1>2. ASSUME NEW p \in Procs,
             \/ InvalidateFails(p)
             \/ \E d \in Devices : KickDevice(p, d)
      PROVE  ClockInv'
  <2>1. \A S : KickLoop(task[p], S).at <= now
    BY <1>0, KickKeepsClock
  <2> QED
    BY <1>2, <2>1, SetClock DEF InvalidateFails, KickDevice, db
<1>3. ASSUME NEW p \in Procs, KickClock(p) PROVE ClockInv'
  <2>1. [task[p] EXCEPT !.pc = "k_update", !.at = now].at <= now
    BY <1>0 DEF Task
  <2> QED
    BY <1>3, <2>1, SetClock DEF KickClock, Clock, db
<1>4. ASSUME NEW p \in Procs,
             \/ VerifyTopics(p) \/ VerifyIssue(p)
             \/ ConnectInsert(p) \/ ConnectRegister(p)
             \/ RevokeDelete(p) \/ Cancel(p)
      PROVE  ClockInv'
  <2>1. /\ \A T : [task[p] EXCEPT !.pc = "v_issue", !.topics = T].at <= now
        /\ [task[p] EXCEPT !.pc = "a_register"].at <= now
        /\ [task[p] EXCEPT !.pc = "k_clock", !.rel = None].at <= now
    BY <1>0 DEF Task
  <2>2. CASE VerifyTopics(p)
    BY <2>1, <2>2, SetClock DEF VerifyTopics, db
  <2>3. CASE ConnectInsert(p)
    BY <2>1, <2>3, SetClock DEF ConnectInsert, db
  <2>4. CASE RevokeDelete(p)
    <3>1. \/ Set(p, [task[p] EXCEPT !.pc = "k_clock", !.rel = None])
          \/ Set(p, Idle)
      BY <2>4 DEF RevokeDelete
    <3>2. now' = now /\ tokens_valid_from' = tokens_valid_from
      BY <2>4 DEF RevokeDelete
    <3>3. CASE Set(p, Idle)
      BY <1>0, <3>2, <3>3, SetClock
    <3>4. CASE Set(p, [task[p] EXCEPT !.pc = "k_clock", !.rel = None])
      BY <2>1, <3>2, <3>4, SetClock
    <3> QED
      BY <3>1, <3>3, <3>4
  <2>5. CASE VerifyIssue(p) \/ ConnectRegister(p) \/ Cancel(p)
    BY <1>0, <2>5, SetClock DEF VerifyIssue, Issue, ConnectRegister, Cancel, db
  <2> QED
    BY <1>4, <2>2, <2>3, <2>4, <2>5
<1>5. ASSUME NEW p \in Procs, Begin(p) PROVE ClockInv'
  <2>1. /\ \A u, d : [Idle EXCEPT !.pc = "v_topics", !.user = u, !.dev = d].at
                       <= now
        /\ \A d, c : [Idle EXCEPT !.pc = "a_insert", !.dev = d, !.token = c].at
                       <= now
        /\ \A u, r, q : [Idle EXCEPT !.pc = "r_delete", !.user = u, !.rel = r,
                                     !.peer = q].at <= now
        /\ \A u : [Idle EXCEPT !.pc = "k_clock", !.user = u].at <= now
    BY <1>0 DEF Idle
  <2> QED
    BY <1>5, <2>1, SetClock
    DEF Begin, VerifyBegin, ConnectRead, Accept, RevokeBegin, SuspendUser, db
<1>6. CASE Crash
  BY <1>0, <1>6 DEF Crash, db
<1>7. CASE Tick
  BY <1>0, <1>7 DEF Tick, db, TypeInv, TypeOK
<1>8. ASSUME \/ UNCHANGED vars
             \/ \E c \in tokens, r \in Rels, g \in Grants :
                  CreateRelationship(c, r, g)
             \/ \E u \in Users : UnsuspendUser(u)
             \/ \E d \in Devices, t \in Topics : Subscribe(d, t)
             \/ \E d \in Devices : Disconnect(d) \/ DisconnectedHook(d)
      PROVE  ClockInv'
  BY <1>8
  DEF CreateRelationship, UnsuspendUser, Subscribe, Disconnect,
      DisconnectedHook, vars, db
<1> QED
  BY <1>1, <1>2, <1>3, <1>4, <1>5, <1>6, <1>7, <1>8
  DEF Next, Resume, Fail

\* Only verify() adds a token, and it dates it with the clock.
LEMMA BornStep ==
  TypeInv /\ ClockInv /\ [Next]_vars =>
    [\A c \in tokens' \ tokens : c.iat >= tokens_valid_from[c.sub]]_vars
<1> SUFFICES ASSUME TypeInv, ClockInv, [Next]_vars,
                    NEW c \in tokens' \ tokens
             PROVE  c.iat >= tokens_valid_from[c.sub]
  OBVIOUS
<1>1. PICK p \in Procs : VerifyIssue(p)
  BY DEF Next, Begin, Resume, Fail, VerifyBegin, VerifyTopics, ConnectRead,
         Accept, ConnectInsert, ConnectRegister, RevokeBegin, RevokeDelete,
         SuspendUser, KickClock, Clock, KickInvalidate, KickDevice,
         InvalidateFails, DeviceLookupFails, Cancel, Crash, Tick, Subscribe,
         Disconnect, DisconnectedHook, CreateRelationship, UnsuspendUser, vars
<1>2. c = TokenOf(p, 0)
  BY <1>1 DEF VerifyIssue, Issue
<1>3. c.sub \in Users /\ c.iat = now
  BY <1>1, <1>2
  DEF VerifyIssue, Issue, TokenOf, TypeInv, TypeOK, TasksGood, GoodTask
<1> QED
  BY <1>3 DEF ClockInv, TypeInv, TypeOK

\* However verifies, kicks and the clock interleave, a client that logs in
\* again after a kick gets a token above the floor of that moment.
THEOREM BornValid == Spec => TokensBornValid
<1> QED
  BY TypeInit, TypeStep, ClockInit, ClockStep, BornStep, PTL
  DEF Spec, TokensBornValid
-----------------------------------------------------------------------------
(* The floor falls only to a kick that was overtaken.  A kick that holds a   *)
(* clock must know that nobody has stored a later one meanwhile, or be on    *)
(* record as overtaken.                                                      *)

FloorInv ==
  \A p \in Procs \ overtaken :
    task[p].pc = "k_update" /\ task[p].user \in Users =>
      tokens_valid_from[task[p].user] <= task[p].at

\* Nobody holds a clock at the start.
LEMMA FloorInit == Init => FloorInv
BY DEF Init, FloorInv, Idle

\* kick_user leaves the stage at which it holds a clock.
LEMMA AfterUpdate ==
  ASSUME NEW t \in Task, NEW left
  PROVE  AfterKick(t).pc # "k_update" /\ KickLoop(t, left).pc # "k_update"
BY DEF AfterKick, KickLoop, Idle, Task

\* A slot that moves to another stage leaves the others as they were; if it
\* stores a floor, the kicks of that user are overtaken.
LEMMA FloorFrame ==
  ASSUME TypeInv, FloorInv, NEW p \in Procs, NEW t, t.pc # "k_update",
         Set(p, t), overtaken \subseteq overtaken' \cup {p},
         \A u \in Users :
           \/ tokens_valid_from'[u] = tokens_valid_from[u]
           \/ u = task[p].user /\ Rivals(p) \subseteq overtaken'
  PROVE  FloorInv'
<1>1. task'[p] = t /\ \A q \in Procs \ {p} : task'[q] = task[q]
  BY DEF TypeInv, TypeOK, Set
<1> SUFFICES ASSUME NEW q \in Procs, q \notin overtaken',
                    task'[q].pc = "k_update", task'[q].user \in Users
             PROVE  tokens_valid_from'[task'[q].user] <= task'[q].at
  BY DEF FloorInv
<1>2. q # p /\ task'[q] = task[q] /\ q \notin overtaken
  BY <1>1
<1>3. task[q].user = task[p].user => q \in Rivals(p)
  BY <1>2 DEF Rivals
<1> QED
  BY <1>2, <1>3 DEF FloorInv

\* Only KickClock brings a handler to that stage, with the clock of now.
LEMMA FloorStep ==
  ASSUME TypeInv, ClockInv, FloorInv, [Next]_vars
  PROVE  FloorInv'
<1>0. \A p \in Procs : task[p] \in Task
  BY DEF TypeInv, TypeOK
<1>1. ASSUME NEW p \in Procs, KickClock(p) PROVE FloorInv'
  <2>1. LET t == [task[p] EXCEPT !.pc = "k_update", !.at = now]
        IN  t.user = task[p].user /\ t.at = now
    BY <1>0 DEF Task
  <2>2. /\ task'[p].user = task[p].user /\ task'[p].at = now
        /\ \A q \in Procs \ {p} : task'[q] = task[q]
        /\ UNCHANGED <<tokens_valid_from, overtaken>>
    BY <1>1, <2>1 DEF KickClock, Clock, Set, TypeInv, TypeOK, db, history
  <2> QED
    BY <2>2 DEF ClockInv, FloorInv
<1>2. ASSUME NEW p \in Procs,
             \/ KickInvalidate(p) \/ InvalidateFails(p) \/ DeviceLookupFails(p)
             \/ \E d \in Devices : KickDevice(p, d)
      PROVE  FloorInv'
  <2>1. CASE KickInvalidate(p)
    BY <1>0, <2>1, AfterUpdate, FloorFrame DEF KickInvalidate, Floors
  <2>2. CASE InvalidateFails(p)
    BY <1>0, <2>2, AfterUpdate, FloorFrame DEF InvalidateFails, db
  <2>3. CASE DeviceLookupFails(p)
    BY <1>0, <2>3, AfterUpdate, FloorFrame DEF DeviceLookupFails, Floors
  <2>4. CASE \E d \in Devices : KickDevice(p, d)
    BY <1>0, <2>4, AfterUpdate, FloorFrame DEF KickDevice, db
  <2> QED
    BY <1>2, <2>1, <2>2, <2>3, <2>4
<1>3. ASSUME NEW p \in Procs,
             \/ VerifyTopics(p) \/ VerifyIssue(p) \/ ConnectInsert(p)
             \/ ConnectRegister(p) \/ RevokeDelete(p) \/ Cancel(p)
      PROVE  FloorInv'
  <2>0. /\ overtaken \subseteq overtaken' \cup {p}
        /\ tokens_valid_from' = tokens_valid_from
    BY <1>3
    DEF VerifyTopics, VerifyIssue, Issue, ConnectInsert, ConnectRegister,
        RevokeDelete, Cancel, db, history
  <2>1. /\ \A T : [task[p] EXCEPT !.pc = "v_issue", !.topics = T].pc # "k_update"
        /\ [task[p] EXCEPT !.pc = "a_register"].pc # "k_update"
        /\ [task[p] EXCEPT !.pc = "k_clock", !.rel = None].pc # "k_update"
        /\ Idle.pc # "k_update"
    BY <1>0 DEF Task, Idle
  <2>2. CASE VerifyTopics(p)
    BY <2>0, <2>1, <2>2, FloorFrame DEF VerifyTopics
  <2>3. CASE ConnectInsert(p)
    BY <2>0, <2>1, <2>3, FloorFrame DEF ConnectInsert
  <2>4. CASE RevokeDelete(p)
    <3>1. \/ Set(p, [task[p] EXCEPT !.pc = "k_clock", !.rel = None])
          \/ Set(p, Idle)
      BY <2>4 DEF RevokeDelete
    <3> QED
      BY <2>0, <2>1, <3>1, FloorFrame
  <2>5. CASE VerifyIssue(p) \/ ConnectRegister(p) \/ Cancel(p)
    BY <2>0, <2>1, <2>5, FloorFrame
    DEF VerifyIssue, Issue, ConnectRegister, Cancel
  <2> QED
    BY <1>3, <2>2, <2>3, <2>4, <2>5
<1>4. ASSUME NEW p \in Procs, Begin(p) PROVE FloorInv'
  <2>0. UNCHANGED <<tokens_valid_from, overtaken>>
    BY <1>4
    DEF Begin, VerifyBegin, ConnectRead, Accept, RevokeBegin, SuspendUser, db,
        history
  <2>1. /\ \A u, d : [Idle EXCEPT !.pc = "v_topics", !.user = u, !.dev = d].pc
                       # "k_update"
        /\ \A d, c : [Idle EXCEPT !.pc = "a_insert", !.dev = d, !.token = c].pc
                       # "k_update"
        /\ \A u, r, q : [Idle EXCEPT !.pc = "r_delete", !.user = u, !.rel = r,
                                     !.peer = q].pc # "k_update"
        /\ \A u : [Idle EXCEPT !.pc = "k_clock", !.user = u].pc # "k_update"
    BY DEF Idle
  <2> QED
    BY <1>4, <2>0, <2>1, FloorFrame
    DEF Begin, VerifyBegin, ConnectRead, Accept, RevokeBegin, SuspendUser
<1>5. CASE Crash
  BY <1>5 DEF Crash, FloorInv, Idle
<1>6. CASE UNCHANGED <<task, tokens_valid_from, overtaken>>
  BY <1>6 DEF FloorInv
<1> QED
  BY <1>1, <1>2, <1>3, <1>4, <1>5, <1>6
  DEF Next, Resume, Fail, CreateRelationship, UnsuspendUser, Subscribe,
      Disconnect, DisconnectedHook, Tick, vars, db, history

\* The statement that stores the clock, and no other, writes the floor.
LEMMA FallStep ==
  ASSUME TypeInv, FloorInv, [Next]_vars, NEW u \in Users,
         tokens_valid_from'[u] < tokens_valid_from[u]
  PROVE  \E p \in overtaken : /\ task[p].pc = "k_update" /\ task[p].user = u
                              /\ task'[p].pc # "k_update"
<1>0. tokens_valid_from \in [Users -> Nat] /\ overtaken \subseteq Procs
  BY DEF TypeInv, TypeOK
<1>1. ~UNCHANGED tokens_valid_from
  BY <1>0
<1>2. PICK p \in Procs : KickInvalidate(p) \/ DeviceLookupFails(p)
  BY <1>1
  DEF Next, Begin, Resume, Fail, VerifyBegin, VerifyTopics, VerifyIssue, Issue,
      ConnectRead, Accept, ConnectInsert, ConnectRegister, RevokeBegin,
      RevokeDelete, SuspendUser, KickClock, Clock, KickDevice, InvalidateFails,
      Cancel, Crash, Tick, Subscribe, Disconnect, DisconnectedHook,
      CreateRelationship, UnsuspendUser, vars, db
<1>3. /\ task[p].pc = "k_update" /\ task[p].at \in Nat /\ task[p] \in Task
      /\ tokens_valid_from' = Floors(task[p].user, task[p].at)
  BY <1>2 DEF KickInvalidate, DeviceLookupFails, TypeInv, TypeOK, Task
<1>4. task[p].user = u /\ task[p].at < tokens_valid_from[u]
  BY <1>0, <1>3 DEF Floors
<1>5. p \in overtaken
  BY <1>0, <1>3, <1>4 DEF FloorInv
<1>6. task'[p] \in {AfterKick(task[p]),
                    KickLoop(task[p], DevicesOf(task[p].user))}
  BY <1>2 DEF KickInvalidate, DeviceLookupFails, Set, TypeInv, TypeOK
<1>7. task'[p].pc # "k_update"
  BY <1>3, <1>6, AfterUpdate
<1> QED
  BY <1>3, <1>4, <1>5, <1>7

\* A token that was rejected as too old is accepted again only because two
\* kicks of one user overlapped and stored their clocks in the wrong order: for
\* any number of users, requests in flight and faults.
THEOREM FallsExplained == Spec => FloorFallsExplained
<1>1. TypeInv /\ FloorInv /\ [Next]_vars =>
        [\A u \in Users : tokens_valid_from'[u] < tokens_valid_from[u] =>
           \E p \in overtaken : /\ task[p].pc = "k_update" /\ task[p].user = u
                                /\ task'[p].pc # "k_update"]_vars
  BY FallStep
<1>2. TypeInv /\ ClockInv /\ FloorInv /\ [Next]_vars => FloorInv'
  BY FloorStep
<1> QED
  BY <1>1, <1>2, TypeInit, TypeStep, ClockInit, ClockStep, FloorInit, PTL
  DEF Spec, FloorFallsExplained
=============================================================================
