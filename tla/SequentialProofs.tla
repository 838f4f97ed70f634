-------------------------- MODULE SequentialProofs --------------------------
(***************************************************************************)
(* Proofs about Access for requests that do not overlap: what holds for an *)
(* administrator and clients who wait for each answer, with any number of  *)
(* users, devices, rows and tokens.                                        *)
(***************************************************************************)
EXTENDS AccessProofs

USE AccessAssumption

\* At most one handler is in flight at a time.
Alone == \A p, q \in Procs : p = q

\* With one slot, a step that fills it decides the whole of task'.
LEMMA OnlySlot ==
  ASSUME Alone, TypeInv, NEW p \in Procs, NEW t, Set(p, t)
  PROVE  \A q \in Procs : q = p /\ task'[q] = t
BY DEF Alone, TypeInv, TypeOK, Set

-----------------------------------------------------------------------------
(* The floor of a user only rises: a kick that runs alone is not overtaken.  *)

\* Nobody is there to overtake a kick.
LEMMA AloneStep ==
  ASSUME Alone, TypeInv, overtaken = {}, [Next]_vars
  PROVE  overtaken' = {}
<1>1. \A p \in Procs : Rivals(p) = {}
  BY DEF Rivals, Alone
<1> QED
  BY <1>1
  DEF Next, Begin, Resume, Fail, VerifyBegin, VerifyTopics, VerifyIssue, Issue,
      ConnectRead, Accept, ConnectInsert, ConnectRegister, RevokeBegin,
      RevokeDelete, SuspendUser, KickClock, Clock, KickInvalidate, KickDevice,
      InvalidateFails, DeviceLookupFails, Cancel, Crash, Tick, Subscribe,
      Disconnect, DisconnectedHook, CreateRelationship, UnsuspendUser, vars,
      history

\* A step does not lower the floor of anybody.
LEMMA RiseStep ==
  ASSUME TypeInv, FloorInv, overtaken = {}, [Next]_vars, NEW u \in Users
  PROVE  tokens_valid_from'[u] >= tokens_valid_from[u]
<1>1. TypeInv'
  BY TypeStep
<1> QED
  BY <1>1, FallStep DEF TypeInv, TypeOK

-----------------------------------------------------------------------------
(* A revoked topic goes with its token.  Every token either reflects the    *)
(* rows, or lies at or below the floor, or a kick of its user is about to   *)
(* raise the floor to it; the session table and the subscriptions follow    *)
(* the token that admitted the connection, except while rmqtt registers its *)
(* successor.                                                               *)

\* rmqtt is about to register a new connection of device d.
Registering(d) ==
  \E p \in Procs : task[p].pc = "a_register" /\ task[p].dev = d

\* The floor of user u is about to be raised.
Doomed(u) ==
  \E p \in Procs : task[p].pc \in {"k_clock", "k_update"} /\ task[p].user = u

TokensHonest ==
  \A c \in tokens :
    /\ c.iat <= now
    /\ \/ c.sub_topics \subseteq Permitted(c.sub)
       \/ c.iat <= tokens_valid_from[c.sub]
       \/ Doomed(c.sub)

HonestTask(t) ==
  /\ t.pc = "v_issue" => t.topics \subseteq Permitted(t.user)
  /\ t.pc \in {"a_insert", "a_register"} => t.token \in tokens
  /\ t.pc = "a_register" => sessions[t.dev] \in {None, t.token}
  /\ t.pc = "k_update" => \A c \in tokens : c.iat <= t.at

TasksHonest == \A p \in Procs : HonestTask(task[p])

ConnsHonest ==
  \A d \in Devices :
    conn[d] # None =>
      /\ conn[d] \in tokens
      /\ subs[d] \subseteq conn[d].sub_topics \/ Registering(d)
      /\ sessions[d] \in {None, conn[d]} \/ Registering(d)

\* Without faults and overlaps no kick misses a connection.
NothingMissed ==
  missed = {} /\ raced = {} /\ abandoned = {} /\ overtaken = {}

HonestInv == TokensHonest /\ TasksHonest /\ ConnsHonest /\ NothingMissed

\* A kick meets no admission, and nothing cuts it short.
LEMMA MissedStep ==
  ASSUME Alone, MaxFaults = 0, TypeInv, NothingMissed, [Next]_vars
  PROVE  NothingMissed'
<1>0. overtaken' = {}
  BY AloneStep DEF NothingMissed
<1>1. ~Fault
  BY DEF Fault, TypeInv, TypeOK
<1>2. ASSUME NEW p \in Procs, NEW d \in Devices, KickDevice(p, d)
      PROVE  NothingMissed'
  <2>1. {q \in Procs : Admitting(q) /\ task[q].dev = d} = {}
    BY <1>2 DEF KickDevice, Admitting, Alone
  <2> QED
    BY <1>0, <1>2, <2>1 DEF KickDevice, NothingMissed
<1>3. ASSUME NEW p \in Procs,
             \/ ConnectRegister(p) \/ KickInvalidate(p)
             \/ \E x \in Devices, c \in tokens : ConnectRead(p, x, c)
      PROVE  NothingMissed'
  BY <1>0, <1>3
  DEF ConnectRegister, KickInvalidate, ConnectRead, Accept, NothingMissed
<1>4. CASE UNCHANGED history
  BY <1>4 DEF history, NothingMissed
<1> QED
  BY <1>1, <1>2, <1>3, <1>4
  DEF Next, Begin, Resume, Fail, VerifyBegin, VerifyTopics, VerifyIssue, Issue,
      ConnectInsert, RevokeBegin, RevokeDelete, SuspendUser, KickClock, Clock,
      InvalidateFails, DeviceLookupFails, Cancel, Crash, Tick, Subscribe,
      Disconnect, DisconnectedHook, CreateRelationship, UnsuspendUser, vars

\* Only a revoke takes topics from a user, the one it goes on to kick.
LEMMA PermittedStep ==
  ASSUME TypeInv, [Next]_vars, NEW u
  PROVE  \/ Permitted(u) \subseteq Permitted(u)'
         \/ \E p \in Procs :
              /\ RevokeDelete(p)
              /\ Set(p, [task[p] EXCEPT !.pc = "k_clock", !.rel = None])
              /\ task[p].user = u
<1> USE DEF Permitted, UserTopics, Rows
<1>0. rels \in [Rels -> Grants \cup {None, Gone}]
  BY DEF TypeInv, TypeOK
<1>1. ASSUME NEW p \in Procs, RevokeDelete(p),
             GetRelationship(task[p].user, task[p].rel), task[p].user # u
      PROVE  Permitted(u) \subseteq Permitted(u)'
  <2>1. rels' = [rels EXCEPT ![task[p].rel] = Gone]
    BY <1>1 DEF RevokeDelete, DeleteRelationship
  <2>2. task[p].rel \notin Rows(u)
    BY <1>1 DEF GetRelationship
  <2>3. \A r \in Rows(u) : rels'[r] = rels[r]
    BY <1>0, <2>1, <2>2
  <2> QED
    BY <2>3
<1>2. ASSUME NEW p \in Procs, RevokeDelete(p),
             GetRelationship(task[p].user, task[p].rel)
      PROVE  Set(p, [task[p] EXCEPT !.pc = "k_clock", !.rel = None])
  BY <1>2 DEF RevokeDelete
<1>3. ASSUME NEW c \in tokens, NEW r \in Rels, NEW g \in Grants,
             CreateRelationship(c, r, g)
      PROVE  Permitted(u) \subseteq Permitted(u)'
  <2>1. \A s \in Rows(u) : rels'[s] = rels[s]
    BY <1>0, <1>3 DEF CreateRelationship, InsertRelationship
  <2> QED
    BY <2>1
<1>4. CASE UNCHANGED rels
  BY <1>4
<1>5. ASSUME NEW p \in Procs, RevokeDelete(p),
             ~GetRelationship(task[p].user, task[p].rel)
      PROVE  UNCHANGED rels
  BY <1>5 DEF RevokeDelete
<1> HIDE DEF Permitted, UserTopics, Rows
<1> QED
  BY <1>1, <1>2, <1>3, <1>4, <1>5
  DEF Next, Begin, Resume, Fail, VerifyBegin, VerifyTopics, VerifyIssue, Issue,
      ConnectRead, Accept, ConnectInsert, ConnectRegister, RevokeBegin,
      SuspendUser, KickClock, Clock, KickInvalidate, KickDevice,
      InvalidateFails, DeviceLookupFails, Cancel, Crash, Tick, Subscribe,
      Disconnect, DisconnectedHook, UnsuspendUser, vars, db

\* A kick that is on its way to the floor arrives there.
LEMMA DoomedStep ==
  ASSUME Alone, MaxFaults = 0, TypeInv, [Next]_vars, NEW u, Doomed(u)
  PROVE  Doomed(u)' \/ \E p \in Procs : KickInvalidate(p) /\ task[p].user = u
<1>1. ~Fault
  BY DEF Fault, TypeInv, TypeOK
<1>2. PICK p \in Procs :
        task[p].pc \in {"k_clock", "k_update"} /\ task[p].user = u
  BY DEF Doomed
<1>3. \A q \in Procs : q = p
  BY DEF Alone
<1>4. CASE KickClock(p)
  <2>1. LET t == [task[p] EXCEPT !.pc = "k_update", !.at = now]
        IN  t.pc = "k_update" /\ t.user = task[p].user
    BY DEF TypeInv, TypeOK, Task
  <2>2. task'[p] = [task[p] EXCEPT !.pc = "k_update", !.at = now]
    BY <1>4, OnlySlot DEF KickClock, Clock
  <2> QED
    BY <1>2, <2>1, <2>2 DEF Doomed
<1>5. CASE KickInvalidate(p)
  BY <1>2, <1>5
<1>6. CASE UNCHANGED task
  BY <1>6 DEF Doomed
<1> QED
  BY <1>1, <1>2, <1>3, <1>4, <1>5, <1>6
  DEF Next, Begin, Resume, Fail, VerifyBegin, VerifyTopics, VerifyIssue, Issue,
      ConnectRead, Accept, ConnectInsert, ConnectRegister, RevokeBegin,
      RevokeDelete, SuspendUser, KickDevice, InvalidateFails,
      DeviceLookupFails, Cancel, Crash, Tick, Subscribe, Disconnect,
      DisconnectedHook, CreateRelationship, UnsuspendUser, vars

\* Tokens are never taken back, and only verify() adds one.
LEMMA NewToken ==
  ASSUME [Next]_vars
  PROVE  /\ tokens \subseteq tokens'
         /\ tokens' # tokens => \E p \in Procs : VerifyIssue(p)
BY DEF Next, Begin, Resume, Fail, VerifyBegin, VerifyTopics, VerifyIssue, Issue,
       ConnectRead, Accept, ConnectInsert, ConnectRegister, RevokeBegin,
       RevokeDelete, SuspendUser, KickClock, Clock, KickInvalidate, KickDevice,
       InvalidateFails, DeviceLookupFails, Cancel, Crash, Tick, Subscribe,
       Disconnect, DisconnectedHook, CreateRelationship, UnsuspendUser, vars

\* The clock does not go back.
LEMMA TimeStep == TypeInv /\ [Next]_vars => now' >= now
<1> SUFFICES ASSUME TypeInv, [Next]_vars PROVE now' >= now
  OBVIOUS
<1>1. now' = now \/ now' = now + 1
  BY DEF Next, Begin, Resume, Fail, VerifyBegin, VerifyTopics, VerifyIssue, Issue,
         ConnectRead, Accept, ConnectInsert, ConnectRegister, RevokeBegin,
         RevokeDelete, SuspendUser, KickClock, Clock, KickInvalidate, KickDevice,
         InvalidateFails, DeviceLookupFails, Cancel, Crash, Tick, Subscribe,
         Disconnect, DisconnectedHook, CreateRelationship, UnsuspendUser, vars
<1> QED
  BY <1>1 DEF TypeInv, TypeOK

\* A token that stops reflecting the rows does so in the revoke that goes on to
\* kick its user, and the kick raises the floor to it.
LEMMA TokensStep ==
  ASSUME Alone, MaxFaults = 0, TypeInv, FloorInv, HonestInv, [Next]_vars
  PROVE  TokensHonest'
<1> SUFFICES ASSUME NEW c \in tokens'
             PROVE  /\ c.iat <= now'
                    /\ \/ c.sub_topics \subseteq Permitted(c.sub)'
                       \/ c.iat <= tokens_valid_from'[c.sub]
                       \/ Doomed(c.sub)'
  BY DEF TokensHonest
<1>0. /\ now \in Nat /\ now' \in Nat /\ tokens_valid_from \in [Users -> Nat]
      /\ c.iat \in Nat /\ c.sub \in Users
      /\ tokens_valid_from' \in [Users -> Nat]
  <2>1. TypeInv'
    BY TypeStep
  <2>2. c \in Claims
    BY <2>1 DEF TypeInv, TypeOK
  <2> QED
    BY <2>1, <2>2 DEF TypeInv, TypeOK, Claims
<1>1. CASE c \notin tokens
  <2>1. PICK p \in Procs : VerifyIssue(p)
    BY <1>1, NewToken
  <2>2. c = TokenOf(p, 0) /\ task[p].pc = "v_issue"
    BY <1>1, <2>1 DEF VerifyIssue, Issue
  <2>3. c.iat = now /\ now' = now /\ rels' = rels
    BY <1>0, <2>1, <2>2 DEF TokenOf, VerifyIssue, Issue, db
  <2>4. c.sub_topics \subseteq Permitted(c.sub)
    BY <2>2 DEF TokenOf, HonestInv, TasksHonest, HonestTask
  <2> QED
    BY <1>0, <2>3, <2>4 DEF Permitted, UserTopics, Rows
<1>2. CASE c \in tokens
  <2>0. c.iat <= now'
    BY <1>0, <1>2, TimeStep DEF HonestInv, TokensHonest
  <2>1. CASE c.sub_topics \subseteq Permitted(c.sub)
    <3>1. ASSUME NEW p \in Procs, task[p].user = c.sub,
                 Set(p, [task[p] EXCEPT !.pc = "k_clock", !.rel = None])
          PROVE  Doomed(c.sub)'
      <4>1. LET t == [task[p] EXCEPT !.pc = "k_clock", !.rel = None]
            IN  t.pc = "k_clock" /\ t.user = task[p].user
        BY DEF TypeInv, TypeOK, Task
      <4> QED
        BY <3>1, <4>1, OnlySlot DEF Doomed
    <3> QED
      BY <2>0, <2>1, <3>1, PermittedStep
  <2>2. CASE c.iat <= tokens_valid_from[c.sub]
    <3>1. tokens_valid_from'[c.sub] >= tokens_valid_from[c.sub]
      BY <1>0, RiseStep DEF HonestInv, NothingMissed
    <3> QED
      BY <1>0, <2>0, <2>2, <3>1
  <2>3. CASE Doomed(c.sub)
    <3>1. ASSUME NEW p \in Procs, KickInvalidate(p), task[p].user = c.sub
          PROVE  c.iat <= tokens_valid_from'[c.sub]
      <4>1. c.iat <= task[p].at
        BY <1>2, <3>1
        DEF KickInvalidate, HonestInv, TasksHonest, HonestTask
      <4> QED
        BY <1>0, <3>1, <4>1 DEF KickInvalidate, Floors
    <3> QED
      BY <2>0, <2>3, <3>1, DoomedStep
  <2> QED
    BY <1>2, <2>0, <2>1, <2>2, <2>3 DEF HonestInv, TokensHonest
<1> QED
  BY <1>1, <1>2

\* A handler that carries nothing over is honest.
LEMMA HonestFrame ==
  ASSUME Alone, TypeInv, NEW p \in Procs, NEW t, Set(p, t),
         t.pc \notin {"v_issue", "a_insert", "a_register", "k_update"}
  PROVE  TasksHonest'
BY OnlySlot DEF TasksHonest, HonestTask

\* kick_user carries no token and, once it has stored it, no clock.
LEMMA AfterKickStages ==
  ASSUME NEW t \in Task, NEW left
  PROVE  /\ AfterKick(t).pc \in {"idle", "k_clock"}
         /\ KickLoop(t, left).pc \in {"idle", "k_clock", "k_kick"}
BY DEF AfterKick, KickLoop, Idle, Task

\* What a handler carries over an await stays true while it is alone.
LEMMA TasksStep ==
  ASSUME Alone, MaxFaults = 0, TypeInv, HonestInv, [Next]_vars
  PROVE  TasksHonest'
<1>0. /\ \A p \in Procs : task[p] \in Task /\ HonestTask(task[p])
      /\ sessions \in [Devices -> Claims \cup {None}]
      /\ Idle.pc = "idle"
  BY DEF TypeInv, TypeOK, HonestInv, TasksHonest, Idle
<1>1. ~Fault
  BY DEF Fault, TypeInv, TypeOK
<1>2. ASSUME NEW p \in Procs, VerifyTopics(p) PROVE TasksHonest'
  <2>1. LET t == [task[p] EXCEPT !.pc = "v_issue",
                                 !.topics = Permitted(task[p].user)]
        IN  /\ t.pc = "v_issue" /\ t.user = task[p].user
            /\ t.topics = Permitted(task[p].user)
    BY <1>0 DEF Task
  <2>2. \A q \in Procs : /\ task'[q].pc = "v_issue"
                         /\ task'[q].topics = Permitted(task'[q].user)
    BY <1>2, <2>1, OnlySlot DEF VerifyTopics
  <2>3. rels' = rels
    BY <1>2 DEF VerifyTopics, db
  <2> QED
    BY <2>2, <2>3
    DEF TasksHonest, HonestTask, Permitted, UserTopics, Rows
<1>3. ASSUME NEW p \in Procs, NEW x \in Devices, NEW c \in tokens,
             ConnectRead(p, x, c)
      PROVE  TasksHonest'
  <2>1. LET t == [Idle EXCEPT !.pc = "a_insert", !.dev = x, !.token = c]
        IN  t.pc = "a_insert" /\ t.token = c
    BY DEF Idle
  <2>2. \A q \in Procs : task'[q].pc = "a_insert" /\ task'[q].token = c
    BY <1>3, <2>1, OnlySlot DEF ConnectRead, Accept
  <2> QED
    BY <1>3, <2>2 DEF ConnectRead, Accept, TasksHonest, HonestTask
<1>4. ASSUME NEW p \in Procs, ConnectInsert(p) PROVE TasksHonest'
  <2>1. LET t == [task[p] EXCEPT !.pc = "a_register"]
        IN  /\ t.pc = "a_register"
            /\ t.token = task[p].token /\ t.dev = task[p].dev
    BY <1>0 DEF Task
  <2>2. \A q \in Procs : /\ task'[q].pc = "a_register"
                         /\ task'[q].token = task[p].token
                         /\ task'[q].dev = task[p].dev
    BY <1>4, <2>1, OnlySlot DEF ConnectInsert
  <2>3. task[p].token \in tokens /\ task[p].dev \in Devices
    BY <1>0, <1>4 DEF ConnectInsert, HonestTask, TypeInv, TasksGood, GoodTask
  <2>4. sessions'[task[p].dev] = task[p].token /\ tokens' = tokens
    BY <1>0, <1>4, <2>3 DEF ConnectInsert
  <2> QED
    BY <2>2, <2>3, <2>4 DEF TasksHonest, HonestTask
<1>5. ASSUME NEW p \in Procs, KickClock(p) PROVE TasksHonest'
  <2>1. LET t == [task[p] EXCEPT !.pc = "k_update", !.at = now]
        IN  t.pc = "k_update" /\ t.at = now
    BY <1>0 DEF Task
  <2>2. \A q \in Procs : task'[q].pc = "k_update" /\ task'[q].at = now
    BY <1>5, <2>1, OnlySlot DEF KickClock, Clock
  <2>3. tokens' = tokens /\ \A c \in tokens : c.iat <= now
    BY <1>5 DEF KickClock, Clock, HonestInv, TokensHonest
  <2> QED
    BY <2>2, <2>3 DEF TasksHonest, HonestTask
<1>6. ASSUME NEW p \in Procs,
             KickInvalidate(p) \/ \E d \in Devices : KickDevice(p, d)
      PROVE  TasksHonest'
  <2>1. \A left : KickLoop(task[p], left).pc \in {"idle", "k_clock", "k_kick"}
    BY <1>0, AfterKickStages
  <2> QED
    BY <1>6, <2>1, HonestFrame DEF KickInvalidate, KickDevice
<1>7. ASSUME NEW p \in Procs,
             VerifyIssue(p) \/ ConnectRegister(p) \/ RevokeDelete(p)
      PROVE  TasksHonest'
  <2>1. [task[p] EXCEPT !.pc = "k_clock", !.rel = None].pc = "k_clock"
    BY <1>0 DEF Task
  <2>2. \/ Set(p, [task[p] EXCEPT !.pc = "k_clock", !.rel = None])
        \/ Set(p, Idle)
    BY <1>7 DEF VerifyIssue, Issue, ConnectRegister, RevokeDelete
  <2> QED
    BY <1>0, <2>1, <2>2, HonestFrame
<1>8. ASSUME NEW p \in Procs,
             \/ \E u \in Users, d \in Devices : VerifyBegin(p, u, d)
             \/ \E c \in tokens, r \in Rels : RevokeBegin(p, c, r)
             \/ \E u \in Users : SuspendUser(p, u)
      PROVE  TasksHonest'
  <2>1. \A u : [Idle EXCEPT !.pc = "k_clock", !.user = u].pc = "k_clock"
    BY DEF Idle
  <2>2. ASSUME NEW u \in Users, NEW d \in Devices, VerifyBegin(p, u, d)
        PROVE  TasksHonest'
    <3> DEFINE t == [Idle EXCEPT !.pc = "v_topics", !.user = u, !.dev = d]
    <3>1. Set(p, t)
      BY <2>2 DEF VerifyBegin
    <3>2. t.pc = "v_topics"
      BY DEF Idle
    <3> HIDE DEF t
    <3> QED
      BY <3>1, <3>2, HonestFrame
  <2>3. ASSUME NEW c \in tokens, NEW r \in Rels, RevokeBegin(p, c, r)
        PROVE  TasksHonest'
    <3> DEFINE t == [Idle EXCEPT !.pc = "r_delete", !.user = c.sub, !.rel = r,
                                 !.peer = rels[r].peer_id]
    <3>1. Set(p, t)
      BY <2>3 DEF RevokeBegin
    <3>2. t.pc = "r_delete"
      BY DEF Idle
    <3> HIDE DEF t
    <3> QED
      BY <3>1, <3>2, HonestFrame
  <2>4. ASSUME NEW u \in Users, SuspendUser(p, u) PROVE TasksHonest'
    BY <2>1, <2>4, HonestFrame DEF SuspendUser
  <2> QED
    BY <1>8, <2>2, <2>3, <2>4
<1>9. ASSUME UNCHANGED <<task, tokens>>,
             \A d \in Devices : sessions'[d] \in {None, sessions[d]}
      PROVE  TasksHonest'
  <2> SUFFICES ASSUME NEW p \in Procs PROVE HonestTask(task[p])'
    BY DEF TasksHonest
  <2>1. PICK u : u = task[p].user
    OBVIOUS
  <2>2. task[p].pc = "v_issue" => Permitted(u) \subseteq Permitted(u)'
    BY PermittedStep DEF Alone, RevokeDelete
  <2>3. task[p].pc = "a_register" => task[p].dev \in Devices
    BY DEF TypeInv, TasksGood, GoodTask
  <2> QED
    BY <1>0, <1>9, <2>1, <2>2, <2>3 DEF HonestTask
<1>10. ASSUME \/ UNCHANGED vars \/ Tick
              \/ \E c \in tokens, r \in Rels, g \in Grants :
                   CreateRelationship(c, r, g)
              \/ \E u \in Users : UnsuspendUser(u)
              \/ \E d \in Devices, t \in Topics : Subscribe(d, t)
              \/ \E d \in Devices : Disconnect(d) \/ DisconnectedHook(d)
       PROVE  /\ UNCHANGED <<task, tokens>>
              /\ \A d \in Devices : sessions'[d] \in {None, sessions[d]}
  BY <1>0, <1>10
  DEF Tick, Subscribe, Disconnect, DisconnectedHook, CreateRelationship,
      UnsuspendUser, vars, broker
<1> QED
  BY <1>1, <1>2, <1>3, <1>4, <1>5, <1>6, <1>7, <1>8, <1>9, <1>10
  DEF Next, Begin, Resume, Fail, InvalidateFails, DeviceLookupFails, Cancel,
      Crash

\* An admission that has reached rmqtt is registered.
LEMMA RegisteringStep ==
  ASSUME Alone, MaxFaults = 0, TypeInv, [Next]_vars, NEW d, Registering(d)
  PROVE  \/ Registering(d)'
         \/ \E p \in Procs : ConnectRegister(p) /\ task[p].dev = d
<1>1. ~Fault
  BY DEF Fault, TypeInv, TypeOK
<1>2. PICK p \in Procs : task[p].pc = "a_register" /\ task[p].dev = d
  BY DEF Registering
<1>3. \A q \in Procs : q = p
  BY DEF Alone
<1>4. CASE ConnectRegister(p)
  BY <1>2, <1>4
<1>5. CASE UNCHANGED task
  BY <1>5 DEF Registering
<1> QED
  BY <1>1, <1>2, <1>3, <1>4, <1>5
  DEF Next, Begin, Resume, Fail, VerifyBegin, VerifyTopics, VerifyIssue, Issue,
      ConnectRead, Accept, ConnectInsert, RevokeBegin, RevokeDelete,
      SuspendUser, KickClock, Clock, KickInvalidate, KickDevice,
      InvalidateFails, DeviceLookupFails, Cancel, Crash, Tick, Subscribe,
      Disconnect, DisconnectedHook, CreateRelationship, UnsuspendUser, vars

\* What the session table and rmqtt hold for d follows its connection.
ConnHonest(d) ==
  conn[d] # None =>
    /\ conn[d] \in tokens
    /\ subs[d] \subseteq conn[d].sub_topics \/ Registering(d)
    /\ sessions[d] \in {None, conn[d]} \/ Registering(d)

\* A step of any handler, client or hook keeps it so.
LEMMA ConnHonestStep ==
  ASSUME Alone, MaxFaults = 0, TypeInv, HonestInv, [Next]_vars,
         NEW d \in Devices
  PROVE  ConnHonest(d)'
<1>0. /\ sessions \in [Devices -> Claims \cup {None}]
      /\ conn \in [Devices -> Claims \cup {None}]
      /\ subs \in [Devices -> SUBSET Topics]
      /\ \A p \in Procs : task[p] \in Task
      /\ tokens \subseteq tokens'
      /\ ConnHonest(d)
  BY NewToken DEF TypeInv, TypeOK, HonestInv, ConnsHonest, ConnHonest
<1>1. ~Fault
  BY DEF Fault, TypeInv, TypeOK
<1>2. ASSUME NEW p \in Procs, ConnectRegister(p), task[p].dev = d
      PROVE  ConnHonest(d)'
  <2>1. /\ conn'[d] = task[p].token /\ subs'[d] = {}
        /\ sessions' = sessions /\ tokens' = tokens
    BY <1>0, <1>2 DEF ConnectRegister
  <2>2. task[p].token \in tokens /\ sessions[d] \in {None, task[p].token}
    BY <1>2 DEF ConnectRegister, HonestInv, TasksHonest, HonestTask
  <2> QED
    BY <2>1, <2>2 DEF ConnHonest
<1>3. ASSUME conn'[d] = None PROVE ConnHonest(d)'
  BY <1>3 DEF ConnHonest
<1>4. ASSUME conn'[d] = conn[d], subs'[d] = subs[d],
             sessions'[d] \in {None, sessions[d]},
             Registering(d) => Registering(d)'
      PROVE  ConnHonest(d)'
  BY <1>0, <1>4 DEF ConnHonest
<1>5. ASSUME NEW p \in Procs, ConnectInsert(p) PROVE ConnHonest(d)'
  <2>1. CASE task[p].dev = d
    <3>1. LET t == [task[p] EXCEPT !.pc = "a_register"]
          IN  t.pc = "a_register" /\ t.dev = task[p].dev
      BY <1>0 DEF Task
    <3>2. task'[p] = [task[p] EXCEPT !.pc = "a_register"]
      BY <1>5, OnlySlot DEF ConnectInsert
    <3>3. Registering(d)'
      BY <2>1, <3>1, <3>2 DEF Registering
    <3> QED
      BY <1>0, <1>5, <3>3 DEF ConnectInsert, ConnHonest
  <2>2. CASE task[p].dev # d
    <3>1. ~ConnectRegister(p) /\ \A q \in Procs : q = p
      BY <1>5 DEF ConnectInsert, ConnectRegister, Alone
    <3>2. sessions'[d] = sessions[d] /\ conn' = conn /\ subs' = subs
      BY <1>0, <1>5, <2>2 DEF ConnectInsert
    <3> QED
      BY <1>4, <3>1, <3>2, RegisteringStep
  <2> QED
    BY <2>1, <2>2
<1>6. ASSUME NEW t \in Topics, Subscribe(d, t) PROVE ConnHonest(d)'
  <2>1. Registering(d)' <=> Registering(d)
    BY <1>6 DEF Subscribe, Registering
  <2>2. /\ subs'[d] = subs[d] \cup {t} /\ t \in sessions[d].sub_topics
        /\ sessions[d] # None
        /\ sessions' = sessions /\ conn' = conn /\ tokens' = tokens
    BY <1>0, <1>6 DEF Subscribe
  <2> QED
    BY <1>0, <2>1, <2>2 DEF ConnHonest
<1>7. ASSUME \A p \in Procs : ~(ConnectRegister(p) /\ task[p].dev = d)
      PROVE  Registering(d) => Registering(d)'
  BY <1>7, RegisteringStep
<1>8. ASSUME \/ \E p \in Procs : ConnectRegister(p) /\ task[p].dev # d
             \/ \E e \in Devices \ {d}, t \in Topics : Subscribe(e, t)
             \/ \E e \in Devices : Disconnect(e) \/ DisconnectedHook(e)
             \/ \E p \in Procs, e \in Devices : KickDevice(p, e)
             \/ UNCHANGED broker
      PROVE  \/ conn'[d] = None
             \/ /\ conn'[d] = conn[d] /\ subs'[d] = subs[d]
                /\ sessions'[d] \in {None, sessions[d]}
  BY <1>0, <1>8
  DEF ConnectRegister, Subscribe, Disconnect, DisconnectedHook, KickDevice,
      EndConnection, broker
<1>9. ASSUME NEW p \in Procs, ConnectRegister(p), task[p].dev # d
      PROVE  \A q \in Procs : ~(ConnectRegister(q) /\ task[q].dev = d)
  BY <1>9 DEF Alone
<1> QED
  BY <1>1, <1>2, <1>3, <1>4, <1>5, <1>6, <1>7, <1>8, <1>9
  DEF Next, Begin, Resume, Fail, VerifyBegin, VerifyTopics, VerifyIssue, Issue,
      ConnectRead, Accept, RevokeBegin, RevokeDelete, SuspendUser, KickClock,
      Clock, KickInvalidate, InvalidateFails, DeviceLookupFails, Cancel, Crash,
      Tick, CreateRelationship, UnsuspendUser, vars

\* The whole invariant is kept.
LEMMA HonestStep ==
  ASSUME Alone, MaxFaults = 0, TypeInv, FloorInv, HonestInv, [Next]_vars
  PROVE  HonestInv'
<1>1. ConnsHonest'
  BY ConnHonestStep DEF ConnsHonest, ConnHonest
<1> QED
  BY <1>1, MissedStep, TokensStep, TasksStep DEF HonestInv

\* The invariant holds at the start.
LEMMA HonestInit == Init => FloorInv /\ HonestInv
BY FloorInit DEF Init, HonestInv, TokensHonest, TasksHonest, HonestTask,
                 ConnsHonest, NothingMissed, Idle

\* What the invariant says of a connection while no handler runs.
LEMMA QuietConn ==
  ASSUME TypeInv, EvictInv, HonestInv, Quiet, NEW d \in Devices,
         conn[d] # None
  PROVE  /\ conn[d].iat \in Nat /\ tokens_valid_from[Owner[d]] \in Nat
         /\ conn[d].iat >= tokens_valid_from[Owner[d]]
         /\ subs[d] \subseteq conn[d].sub_topics
         /\ \/ conn[d].sub_topics \subseteq Permitted(Owner[d])
            \/ conn[d].iat <= tokens_valid_from[Owner[d]]
<1>1. /\ conn[d] \in tokens /\ conn[d].sub = Owner[d] /\ Owner[d] \in Users
      /\ conn[d].iat \in Nat /\ tokens_valid_from[Owner[d]] \in Nat
  BY DEF HonestInv, ConnsHonest, TypeInv, TypeOK, ConnsOwned, Owned, Claims
<1>2. conn[d].iat >= tokens_valid_from[Owner[d]]
  BY <1>1
  DEF EvictInv, ConnsExplained, Due, Covered, Covers, Quiet, HonestInv,
      NothingMissed
<1>3. subs[d] \subseteq conn[d].sub_topics
  BY DEF HonestInv, ConnsHonest, Registering, Quiet
<1>4. \/ conn[d].sub_topics \subseteq Permitted(Owner[d])
      \/ conn[d].iat <= tokens_valid_from[Owner[d]]
  BY <1>1 DEF HonestInv, TokensHonest, Doomed, Quiet
<1> QED
  BY <1>1, <1>2, <1>3, <1>4

\* Once revoke() has returned, no connection keeps a revoked topic, except one
\* whose token was issued in the very second of the kick, as long as requests
\* do not overlap and none fails half-way.
THEOREM RevokedTopicsGo ==
  ASSUME Alone, MaxFaults = 0
  PROVE  Spec => []StaleTopicsWithinSecond
<1>1. TypeInv /\ ClockInv /\ FloorInv /\ HonestInv /\ [Next]_vars =>
        FloorInv' /\ HonestInv'
  BY FloorStep, HonestStep
<1>2. TypeInv /\ EvictInv /\ HonestInv => StaleTopicsWithinSecond
  BY QuietConn DEF StaleTopicsWithinSecond
<1> QED
  BY <1>1, <1>2, HonestInit, TypeInit, TypeStep, ClockInit, ClockStep,
     EvictInit, EvictStep, PTL
  DEF Spec

\* What the comments on kick_user and tokens_valid_from promise and overlapping
\* requests break does hold for requests that do not overlap: a kick closes
\* every connection below the floor, and a connection above it has no topic the
\* rows do not grant.
THEOREM PromisesKeptAlone ==
  ASSUME Alone, MaxFaults = 0
  PROVE  Spec => [](KickDisconnectsAll /\ AcceptedTokensReflectRows)
<1>1. TypeInv /\ ClockInv /\ FloorInv /\ HonestInv /\ [Next]_vars =>
        FloorInv' /\ HonestInv'
  BY FloorStep, HonestStep
<1>2. TypeInv /\ EvictInv /\ HonestInv =>
        KickDisconnectsAll /\ AcceptedTokensReflectRows
  BY QuietConn DEF KickDisconnectsAll, AcceptedTokensReflectRows
<1> QED
  BY <1>1, <1>2, HonestInit, TypeInit, TypeStep, ClockInit, ClockStep,
     EvictInit, EvictStep, PTL
  DEF Spec
=============================================================================
