------------------------- MODULE RegistrationProofs -------------------------
(***************************************************************************)
(* Proofs about Registration for any number of tokens, users, request      *)
(* slots and faults, any limits and lifetimes, and any width of integers.  *)
(***************************************************************************)
EXTENDS Registration, FiniteSetTheorems, TLAPS

USE RegistrationAssumption

-----------------------------------------------------------------------------
(* Types *)

\* What register() carries from one step to the next.
GoodTask(t) ==
  /\ t \in Task
  /\ t.pc = "consume" => t.tok \in TokenIds
  /\ t.pc = "device" => t.user \in UserIds
  /\ t.pc # "device" => t.user = None

TasksGood == \A p \in Procs : GoodTask(task[p])

\* The end of a token is what the cast made of the end that was asked for.
TokensGood ==
  \A t \in TokenIds :
    tokens[t] # None => tokens[t].expires_at = AsI64(tokens[t].asked)

\* The type invariant strengthened to an inductive one.
TypeInv == TypeOK /\ TasksGood /\ TokensGood

\* A cast never moves a time that is not negative forward.
LEMMA CastBackwards ==
  ASSUME NEW n \in Nat
  PROVE  AsI64(n) \in Int /\ AsI64(n) <= n
<1> DEFINE w == 2 * Half
<1>1. w \in Nat \ {0}
  OBVIOUS
<1>2. n % w \in 0 .. w - 1 /\ n % w <= n
  <2> HIDE DEF w
  <2> QED
    BY <1>1
<1> QED
  BY <1>1, <1>2 DEF AsI64

\* The empty slot is a good task.
LEMMA IdleGood == GoodTask(Idle) /\ Idle.pc = "idle" /\ Idle.user = None
BY DEF Idle, Task, Stage, GoodTask

\* A slot that receives a good task leaves all slots with good tasks.
LEMMA SlotGood ==
  ASSUME TypeInv, NEW p \in Procs, NEW t, GoodTask(t), Go(p, t)
  PROVE  task' \in [Procs -> Task] /\ TasksGood'
BY DEF TypeInv, TypeOK, TasksGood, GoodTask, Go

\* A set of slots is finite, and wasting their uses keeps wasted well typed.
LEMMA WasteTyped ==
  ASSUME TypeInv, NEW S \in SUBSET Procs
  PROVE  /\ \A t : /\ IsFiniteSet({p \in S : Spent(p, t)})
                   /\ Cardinality({p \in S : Spent(p, t)}) \in Nat
         /\ Waste(S) => wasted' \in [TokenIds -> Nat]
<1>1. ASSUME NEW t
      PROVE  /\ IsFiniteSet({p \in S : Spent(p, t)})
             /\ Cardinality({p \in S : Spent(p, t)}) \in Nat
  <2>1. {p \in S : Spent(p, t)} \in SUBSET Procs
    OBVIOUS
  <2>2. IsFiniteSet({p \in S : Spent(p, t)})
    BY <2>1, FS_Subset
  <2> QED
    BY <2>2, FS_CardinalityType
<1>2. ASSUME Waste(S) PROVE wasted' \in [TokenIds -> Nat]
  <2> DEFINE n(t) == Cardinality({p \in S : Spent(p, t)})
  <2>1. wasted' = [t \in TokenIds |-> wasted[t] + n(t)]
    BY <1>2 DEF Waste
  <2>2. \A t \in TokenIds : n(t) \in Nat
    BY <1>1
  <2> HIDE DEF n
  <2> QED
    BY <2>1, <2>2 DEF TypeInv, TypeOK
<1> QED
  BY <1>1, <1>2

\* The initial state satisfies the invariant.
LEMMA TypeInit == Init => TypeInv
<1> SUFFICES ASSUME Init PROVE TypeInv
  OBVIOUS
<1>1. TasksGood /\ task \in [Procs -> Task]
  BY IdleGood DEF Init, TasksGood, GoodTask
<1> QED
  BY <1>1 DEF Init, TypeInv, TypeOK, TokensGood

\* One step of a register(), of the administrator or of a fault preserves the
\* invariant.
LEMMA TypeStep == TypeInv /\ [Next]_vars => TypeInv'
<1> SUFFICES ASSUME TypeInv, [Next]_vars PROVE TypeInv'
  OBVIOUS
<1> USE DEF TypeInv
<1>1. ASSUME NEW t \in TokenIds, NEW e \in Lifetimes, NEW m \in Limits,
             CreateToken(t, e, m)
      PROVE  TypeInv'
  <2> DEFINE r == [expires_at |-> AsI64(now + e), max_uses |-> m, uses |-> 0,
                   asked |-> now + e]
  <2>1. now + e \in Nat /\ m \in Int
    BY DEF TypeOK
  <2>2. r \in Token /\ r.expires_at = AsI64(r.asked)
    BY <2>1, CastBackwards DEF Token
  <2> HIDE DEF r
  <2>3. tokens' = [tokens EXCEPT ![t] = r]
    BY <1>1 DEF CreateToken, Insert, r
  <2>4. tokens' \in [TokenIds -> Token \cup {None}] /\ TokensGood'
    BY <2>2, <2>3 DEF TypeOK, TokensGood
  <2> QED
    BY <1>1, <2>4 DEF CreateToken, Insert, TypeOK, TasksGood
<1>2. ASSUME NEW p \in Procs, NEW t \in TokenIds \cup {None},
             NEW k \in {"good", "bad"}, RegisterBegin(p, t, k)
      PROVE  TypeInv'
  <2> DEFINE new == [Idle EXCEPT !.key = k, !.at = now]
  <2>1. /\ GoodTask([new EXCEPT !.pc = "key"])
        /\ GoodTask([new EXCEPT !.pc = "hook"])
        /\ t # None => GoodTask([new EXCEPT !.pc = "consume", !.tok = t])
    BY DEF GoodTask, Task, Stage, Idle, TypeOK
  <2>2. task' \in [Procs -> Task] /\ TasksGood'
    BY <1>2, <2>1, SlotGood DEF RegisterBegin
  <2> QED
    BY <1>2, <2>2 DEF RegisterBegin, TypeOK, TokensGood
<1>3. ASSUME NEW p \in Procs
      PROVE  /\ task[p].pc \in {"consume", "hook"} =>
                  GoodTask([task[p] EXCEPT !.pc = "key"])
             /\ task[p].pc = "key" => GoodTask([task[p] EXCEPT !.pc = "user"])
             /\ \A u \in UserIds :
                  GoodTask([task[p] EXCEPT !.pc = "device", !.user = u])
  BY DEF TasksGood, GoodTask, Task, Stage
<1>4. ASSUME NEW p \in Procs, Consume(p) PROVE TypeInv'
  <2>1. task' \in [Procs -> Task] /\ TasksGood'
    BY <1>3, <1>4, IdleGood, SlotGood DEF Consume
  <2>2. PICK t \in TokenIds : t = task[p].tok
    BY <1>4 DEF Consume, TasksGood, GoodTask
  <2>3. ASSUME tokens[t] # None,
               tokens' = [tokens EXCEPT ![t].uses = @ + 1]
        PROVE  tokens' \in [TokenIds -> Token \cup {None}] /\ TokensGood'
    <3>1. tokens[t] \in Token
      BY <2>3 DEF TypeOK
    <3> DEFINE r == [tokens[t] EXCEPT !.uses = @ + 1]
    <3>2. r \in Token /\ r.expires_at = AsI64(r.asked)
      BY <2>3, <3>1 DEF Token, TokensGood
    <3>3. tokens' = [tokens EXCEPT ![t] = r]
      BY <2>3 DEF TypeOK
    <3> HIDE DEF r
    <3> QED
      BY <3>2, <3>3 DEF TypeOK, TokensGood
  <2>4. tokens' \in [TokenIds -> Token \cup {None}] /\ TokensGood'
    BY <1>4, <2>2, <2>3 DEF Consume, Valid, TypeOK, TokensGood
  <2> QED
    BY <1>4, <2>1, <2>4 DEF Consume, TypeOK
<1>5. ASSUME NEW p \in Procs, NEW allowed \in BOOLEAN, HookAnswers(p, allowed)
      PROVE  TypeInv'
  <2>1. task' \in [Procs -> Task] /\ TasksGood'
    BY <1>3, <1>5, IdleGood, SlotGood DEF HookAnswers
  <2> QED
    BY <1>5, <2>1 DEF HookAnswers, TypeOK, TokensGood
<1>6. ASSUME NEW p \in Procs, CheckKey(p) PROVE TypeInv'
  <2>1. task' \in [Procs -> Task] /\ TasksGood'
    BY <1>3, <1>6, IdleGood, SlotGood DEF CheckKey
  <2>2. wasted' \in [TokenIds -> Nat]
    <3>1. {p} \in SUBSET Procs
      OBVIOUS
    <3> QED
      BY <1>6, <3>1, WasteTyped DEF CheckKey, TypeOK
  <2> QED
    BY <1>6, <2>1, <2>2 DEF CheckKey, TypeOK, TokensGood
<1>7. ASSUME NEW p \in Procs, NEW u \in UserIds, CreateUser(p, u)
      PROVE  TypeInv'
  <2>1. task' \in [Procs -> Task] /\ TasksGood'
    BY <1>3, <1>7, SlotGood DEF CreateUser
  <2>2. payer' \in [UserIds -> TokenIds \cup {None}]
    BY <1>7 DEF CreateUser, TypeOK, Task
  <2> QED
    BY <1>7, <2>1, <2>2 DEF CreateUser, TypeOK, TokensGood
<1>8. ASSUME NEW p \in Procs, CreateDevice(p) PROVE TypeInv'
  <2>1. task' \in [Procs -> Task] /\ TasksGood'
    BY <1>8, IdleGood, SlotGood DEF CreateDevice
  <2>2. devices' \in [UserIds -> Nat]
    BY <1>8 DEF CreateDevice, TypeOK, TasksGood, GoodTask
  <2> QED
    BY <1>8, <2>1, <2>2 DEF CreateDevice, TypeOK, TokensGood
<1>9. Fault => faults' \in 0 .. MaxFaults
  BY DEF Fault, TypeOK
<1>10. \A S \in SUBSET Procs : Orphaned(S) \subseteq UserIds
  BY DEF Orphaned, TasksGood, GoodTask
<1>11. ASSUME NEW p \in Procs, Cancel(p) PROVE TypeInv'
  <2>1. task' \in [Procs -> Task] /\ TasksGood'
    BY <1>11, IdleGood, SlotGood DEF Cancel
  <2>2. {p} \in SUBSET Procs
    OBVIOUS
  <2>3. wasted' \in [TokenIds -> Nat] /\ orphans' \subseteq UserIds
    BY <1>10, <1>11, <2>2, WasteTyped DEF Cancel, TypeOK
  <2> QED
    BY <1>9, <1>11, <2>1, <2>3 DEF Cancel, TypeOK, TokensGood
<1>12. CASE Crash
  <2>1. task' \in [Procs -> Task] /\ TasksGood'
    BY <1>12, IdleGood DEF Crash, TasksGood, GoodTask
  <2>2. Procs \in SUBSET Procs
    OBVIOUS
  <2>3. wasted' \in [TokenIds -> Nat] /\ orphans' \subseteq UserIds
    BY <1>10, <1>12, <2>2, WasteTyped DEF Crash, TypeOK
  <2> QED
    BY <1>9, <1>12, <2>1, <2>3 DEF Crash, TypeOK, TokensGood
<1>13. CASE Tick
  BY <1>13 DEF Tick, TypeOK, TasksGood, TokensGood
<1>14. CASE UNCHANGED vars
  BY <1>14 DEF vars, TypeOK, TasksGood, TokensGood
<1> QED
  BY <1>1, <1>2, <1>4, <1>5, <1>6, <1>7, <1>8, <1>11, <1>12, <1>13, <1>14
  DEF Next

\* Every variable keeps its type, for any number of tokens, users, slots and
\* faults.
THEOREM TypeCorrect == Spec => []TypeOK
<1>1. TypeInv => TypeOK
  BY DEF TypeInv
<1> QED
  BY <1>1, TypeInit, TypeStep, PTL DEF Spec

\* The cast leaves a time that fits as it is.
LEMMA CastFits ==
  ASSUME NEW n \in Nat, n < Half
  PROVE  AsI64(n) = n
<1> DEFINE w == 2 * Half
<1>1. w \in Nat \ {0} /\ n < w
  OBVIOUS
<1>2. n % w = n
  <2> HIDE DEF w
  <2> QED
    BY <1>1
<1> QED
  BY <1>2 DEF AsI64

\* The UPDATE that changes the row of a token is that of a register() which
\* goes on, and which read the clock in time.
LEMMA CountStep ==
  ASSUME TypeInv, [Next]_vars, NEW t \in TokenIds, tokens[t] # None,
         tokens'[t] # tokens[t]
  PROVE  \E p \in Procs : Counts(p) /\ task[p].tok = t
                            /\ task[p].at < tokens[t].asked
<1> USE DEF TypeInv
<1>1. PICK p \in Procs : Consume(p)
  <2>1. ASSUME NEW x \in TokenIds, NEW e \in Lifetimes, NEW m \in Limits,
               CreateToken(x, e, m)
        PROVE  FALSE
    BY <2>1 DEF CreateToken, Insert, TypeOK
  <2> QED
    BY <2>1
    DEF Next, RegisterBegin, HookAnswers, CheckKey, CreateUser, CreateDevice,
        Cancel, Crash, Tick, vars
<1>2. /\ task[p].pc = "consume" /\ task[p].tok = t /\ Valid(t, task[p].at)
      /\ task' = [task EXCEPT ![p] = [task[p] EXCEPT !.pc = "key"]]
  BY <1>1 DEF Consume, Go, TypeOK
<1>3. Counts(p)
  BY <1>2 DEF Counts, TypeOK, Task
<1>4. /\ tokens[t].asked \in Nat /\ task[p].at \in Nat
      /\ tokens[t].expires_at = AsI64(tokens[t].asked)
  BY DEF TypeOK, Token, Task, TokensGood
<1> QED
  BY <1>2, <1>3, <1>4, CastBackwards DEF Valid

\* The UPDATE that matches no row had a reason for it.
LEMMA RefusalStep ==
  ASSUME TypeInv, [Next]_vars, NEW p \in Procs, TurnsAway(p),
         tokens[task[p].tok] # None, tokens[task[p].tok].asked < Half
  PROVE  \/ tokens[task[p].tok].uses >= tokens[task[p].tok].max_uses
         \/ tokens[task[p].tok].asked <= task[p].at
<1> USE DEF TypeInv
<1>1. PICK t \in TokenIds : t = task[p].tok
  BY DEF TurnsAway, TasksGood, GoodTask
<1>2. /\ tokens[t].asked \in Nat /\ task[p].at \in Nat
      /\ tokens[t].uses \in Nat /\ tokens[t].max_uses \in Int
      /\ tokens[t].expires_at = tokens[t].asked
  BY <1>1, CastFits DEF TypeOK, Token, Task, TokensGood
<1>3. ~Fault
  BY DEF TurnsAway, Fault, TypeOK
<1>4. task[p].pc = "consume" /\ task'[p].pc = "idle"
  BY DEF TurnsAway
<1>5. ASSUME NEW q \in Procs, NEW r, Go(q, r), q # p PROVE FALSE
  BY <1>4, <1>5 DEF Go, TypeOK
<1>6. Consume(p)
  <2>1. ~(UNCHANGED task)
    BY <1>4
  <2>2. ASSUME NEW q \in Procs, NEW x \in TokenIds \cup {None},
               NEW k \in {"good", "bad"}, RegisterBegin(q, x, k)
        PROVE  FALSE
    <3>1. q # p
      BY <1>4, <2>2 DEF RegisterBegin
    <3> QED
      BY <1>5, <2>2, <3>1 DEF RegisterBegin
  <2>3. ASSUME NEW q \in Procs,
               \/ \E allowed \in BOOLEAN : HookAnswers(q, allowed)
               \/ CheckKey(q) \/ \E u \in UserIds : CreateUser(q, u)
               \/ CreateDevice(q)
        PROVE  FALSE
    <3>1. q # p
      BY <1>4, <2>3 DEF HookAnswers, CheckKey, CreateUser, CreateDevice
    <3> QED
      BY <1>5, <2>3, <3>1 DEF HookAnswers, CheckKey, CreateUser, CreateDevice
  <2>4. ASSUME NEW q \in Procs, Consume(q) PROVE q = p
    BY <1>5, <2>4 DEF Consume
  <2> QED
    BY <1>3, <2>1, <2>2, <2>3, <2>4
    DEF Next, CreateToken, Insert, Cancel, Crash, Tick, vars
<1>7. ~Valid(t, task[p].at)
  <2>1. [task[p] EXCEPT !.pc = "key"].pc = "key"
    BY DEF TypeOK, Task
  <2> QED
    BY <1>1, <1>4, <1>6, <2>1 DEF Consume, Go, TypeOK
<1> QED
  BY <1>1, <1>2, <1>7 DEF Valid

\* (unix_now() + expires_in) as i64 wraps around for a large expires_in, and
\* then the token ends early or at once, never late: for every width of the
\* integers a use is counted only before the end that was asked for, by the
\* very register() that read the clock, and nobody with a token that has uses
\* and time left is turned away unless its end does not fit.
THEOREM LastAsAsked == Spec => TokensLastAsAsked
<1> DEFINE Lasts ==
      /\ \A t \in TokenIds :
           tokens[t] # None /\ tokens'[t] # tokens[t] =>
             \E p \in Procs : Counts(p) /\ task[p].tok = t
                                /\ task[p].at < tokens[t].asked
      /\ \A p \in Procs :
           LET t == task[p].tok IN
           TurnsAway(p) => \/ tokens[t] = None
                           \/ tokens[t].uses >= tokens[t].max_uses
                           \/ tokens[t].asked <= task[p].at
                           \/ tokens[t].asked >= Half
<1>1. TypeInv /\ [Next]_vars => Lasts
  <2> SUFFICES ASSUME TypeInv, [Next]_vars PROVE Lasts
    OBVIOUS
  <2>1. ASSUME NEW p \in Procs, TurnsAway(p), tokens[task[p].tok] # None,
               ~(tokens[task[p].tok].asked >= Half)
        PROVE  tokens[task[p].tok].asked < Half
    BY <2>1 DEF TurnsAway, TypeInv, TypeOK, TasksGood, GoodTask, Token
  <2> QED
    BY <2>1, CountStep, RefusalStep
<1>2. TypeInv /\ [Next]_vars => [Lasts]_vars
  BY <1>1
<1> HIDE DEF Lasts
<1>3. TokensLastAsAsked <=> [][Lasts]_vars
  BY PTL DEF TokensLastAsAsked, Lasts
<1> QED
  BY <1>2, <1>3, TypeInit, TypeStep, PTL DEF Spec

-----------------------------------------------------------------------------
(* Devices.  Between its two INSERTs a register() is the only one that      *)
(* knows its user.                                                          *)

\* register() in task t has inserted user u and not its device.
Midway(t, u) == t.pc = "device" /\ t.user = u

DeviceInv ==
  /\ \A u \in UserIds : devices[u] > 0 => devices[u] = 1 /\ u \in users
  /\ \A u \in users : devices[u] = 0 =>
       u \in orphans \/ \E p \in Procs : Midway(task[p], u)
  /\ \A p \in Procs, u \in UserIds : Midway(task[p], u) =>
       /\ u \in users /\ devices[u] = 0
       /\ \A q \in Procs : Midway(task[q], u) => p = q

\* A step of a slot that is not between its two INSERTs, before or after.
LEMMA DeviceFrame ==
  ASSUME TypeInv, DeviceInv, NEW p \in Procs, NEW t, Go(p, t),
         t.pc # "device", task[p].pc # "device",
         UNCHANGED <<users, devices>>, orphans \subseteq orphans'
  PROVE  DeviceInv'
<1>1. \A q \in Procs : \A u : Midway(task'[q], u) <=> Midway(task[q], u)
  BY DEF Go, Midway, TypeInv, TypeOK
<1> QED
  BY <1>1 DEF DeviceInv

\* One step preserves the invariant about devices.
LEMMA DeviceStep == TypeInv /\ DeviceInv /\ [Next]_vars => DeviceInv'
<1> SUFFICES ASSUME TypeInv, DeviceInv, [Next]_vars PROVE DeviceInv'
  OBVIOUS
<1>1. ASSUME NEW p \in Procs, NEW t \in TokenIds \cup {None},
             NEW k \in {"good", "bad"}, RegisterBegin(p, t, k)
      PROVE  DeviceInv'
  BY <1>1, DeviceFrame DEF RegisterBegin, Idle
<1>2. ASSUME NEW p \in Procs, NEW pc \in {"key", "user"}
      PROVE  [task[p] EXCEPT !.pc = pc].pc = pc /\ Idle.pc = "idle"
  BY DEF TypeInv, TypeOK, Task, Idle
<1>3. ASSUME NEW p \in Procs, Consume(p) PROVE DeviceInv'
  BY <1>2, <1>3, DeviceFrame DEF Consume
<1>4. ASSUME NEW p \in Procs, NEW allowed \in BOOLEAN, HookAnswers(p, allowed)
      PROVE  DeviceInv'
  BY <1>2, <1>4, DeviceFrame DEF HookAnswers
<1>5. ASSUME NEW p \in Procs, CheckKey(p) PROVE DeviceInv'
  BY <1>2, <1>5, DeviceFrame DEF CheckKey
<1>6. ASSUME NEW p \in Procs, NEW u \in UserIds, CreateUser(p, u)
      PROVE  DeviceInv'
  <2>1. /\ \A v : Midway(task'[p], v) <=> v = u
        /\ \A q \in Procs \ {p} : task'[q] = task[q]
        /\ \A v : ~Midway(task[p], v)
    BY <1>6 DEF CreateUser, Go, Midway, TypeInv, TypeOK, Task
  <2>2. u \notin users /\ devices[u] = 0
    BY <1>6 DEF CreateUser, DeviceInv, TypeInv, TypeOK
  <2> QED
    BY <1>6, <2>1, <2>2 DEF CreateUser, DeviceInv
<1>7. ASSUME NEW p \in Procs, CreateDevice(p) PROVE DeviceInv'
  <2>1. PICK u \in UserIds : Midway(task[p], u)
    BY <1>7 DEF CreateDevice, Midway, TypeInv, TasksGood, GoodTask
  <2>2. /\ \A v : ~Midway(task'[p], v)
        /\ \A q \in Procs \ {p} : task'[q] = task[q]
        /\ \A v : Midway(task[p], v) => v = u
    BY <1>7, <2>1 DEF CreateDevice, Go, Idle, Midway, TypeInv, TypeOK
  <2>3. u \in users /\ devices[u] = 0
    BY <2>1 DEF DeviceInv
  <2>4. devices'[u] = 1 /\ \A v \in UserIds \ {u} : devices'[v] = devices[v]
    BY <1>7, <2>1, <2>3 DEF CreateDevice, Midway, TypeInv, TypeOK
  <2>5. users' = users /\ orphans' = orphans /\ users \subseteq UserIds
    BY <1>7 DEF CreateDevice, TypeInv, TypeOK
  <2> QED
    BY <2>1, <2>2, <2>3, <2>4, <2>5 DEF DeviceInv
<1>8. ASSUME NEW S \in SUBSET Procs,
             \A q \in S : \A v : ~Midway(task'[q], v),
             \A q \in Procs \ S : task'[q] = task[q],
             orphans' = orphans \cup Orphaned(S), UNCHANGED <<users, devices>>
      PROVE  DeviceInv'
  <2>1. \A q \in S : \A u : Midway(task[q], u) => u \in orphans'
    BY <1>8 DEF Orphaned, Midway
  <2> QED
    BY <1>8, <2>1 DEF DeviceInv
<1>9. ASSUME NEW p \in Procs, Cancel(p) PROVE DeviceInv'
  <2>1. /\ \A q \in {p} : \A v : ~Midway(task'[q], v)
        /\ \A q \in Procs \ {p} : task'[q] = task[q]
    BY <1>9 DEF Cancel, Go, Midway, Idle, TypeInv, TypeOK
  <2>2. {p} \in SUBSET Procs
    OBVIOUS
  <2> QED
    BY <1>8, <1>9, <2>1, <2>2 DEF Cancel
<1>10. CASE Crash
  <2>1. \A q \in Procs : \A v : ~Midway(task'[q], v)
    BY <1>10 DEF Crash, Midway, Idle
  <2>2. Procs \in SUBSET Procs
    OBVIOUS
  <2> QED
    BY <1>8, <1>10, <2>1, <2>2 DEF Crash
<1>11. CASE UNCHANGED <<users, devices, task, orphans>>
  BY <1>11 DEF DeviceInv
<1> QED
  BY <1>1, <1>3, <1>4, <1>5, <1>6, <1>7, <1>9, <1>10, <1>11
  DEF Next, CreateToken, Insert, Tick, vars

\* However register() calls overlap and whatever cuts them short, no user gets
\* two devices, and one without a device has its register() still running or is
\* among those that were cut short.
THEOREM DevicesAccountedFor == Spec => []OneDevicePerUser
<1>1. Init => DeviceInv
  BY DEF Init, DeviceInv, Midway, Idle
<1>2. TypeInv /\ DeviceInv => OneDevicePerUser
  BY DEF TypeInv, TypeOK, DeviceInv, Midway, OneDevicePerUser
<1> QED
  BY <1>1, <1>2, TypeInit, TypeStep, DeviceStep, PTL DEF Spec

-----------------------------------------------------------------------------
(* Uses.  Every use of a token is accounted for: it has paid for a user, is *)
(* held by a register() on its way, or was wasted.                          *)

Uses(t) == IF tokens[t] = None THEN 0 ELSE tokens[t].uses

\* The account of token t is balanced.
Balanced(t) == Paid(t) + Held(t) + wasted[t] = Uses(t)

\* In push mode whoever gets past the policy has spent a token, and the hook is
\* not asked about tokens.
TokensSent ==
  \A p \in Procs :
    /\ mode = "push" /\ task[p].pc # "idle" => task[p].tok # None
    /\ task[p].pc = "hook" => task[p].tok = None

UseInv ==
  /\ IsFiniteSet(users)
  /\ mode = "push" => \A u \in users : payer[u] # None
  /\ TokensSent
  /\ \A t \in TokenIds : Balanced(t) /\ Uses(t) <= Limit(t)

\* One slot moves: how many hold a use of t.
LEMMA HeldStep ==
  ASSUME TypeInv, NEW p \in Procs, NEW t \in TokenIds,
         \A q \in Procs \ {p} : task'[q] = task[q]
  PROVE  /\ Held(t) \in Nat /\ Held(t)' \in Nat
         /\ (Spent(p, t)' <=> Spent(p, t)) => Held(t)' = Held(t)
         /\ Spent(p, t)' /\ ~Spent(p, t) => Held(t)' = Held(t) + 1
         /\ ~Spent(p, t)' /\ Spent(p, t) => Held(t)' = Held(t) - 1
<1> DEFINE S == {q \in Procs : Spent(q, t)}
           T == {q \in Procs : Spent(q, t)'}
<1>1. Held(t) = Cardinality(S) /\ Held(t)' = Cardinality(T)
  BY DEF Held
<1>2. S \in SUBSET Procs /\ T \in SUBSET Procs
  OBVIOUS
<1>3. IsFiniteSet(S) /\ IsFiniteSet(T)
  BY <1>2, FS_Subset
<1>4. Cardinality(S) \in Nat /\ Cardinality(T) \in Nat
  BY <1>3, FS_CardinalityType
<1>5. p \in S <=> Spent(p, t)
  OBVIOUS
<1>6. /\ (Spent(p, t)' <=> Spent(p, t)) => T = S
      /\ Spent(p, t)' /\ ~Spent(p, t) => T = S \cup {p}
      /\ ~Spent(p, t)' /\ Spent(p, t) => T = S \ {p}
  BY DEF Spent
<1> HIDE DEF S, T
<1> QED
  BY <1>1, <1>3, <1>4, <1>5, <1>6, FS_AddElement, FS_RemoveElement

\* A user is added: how many users token t has paid for.
LEMMA PaidStep ==
  ASSUME TypeInv, IsFiniteSet(users), NEW t \in TokenIds, NEW p \in Procs,
         NEW u \in UserIds, CreateUser(p, u)
  PROVE  /\ Paid(t) \in Nat
         /\ Paid(t)' = IF task[p].tok = t THEN Paid(t) + 1 ELSE Paid(t)
<1> DEFINE S == {v \in users : payer[v] = t}
           T == {v \in users' : payer'[v] = t}
<1>1. Paid(t) = Cardinality(S) /\ Paid(t)' = Cardinality(T)
  BY DEF Paid
<1>2. S \in SUBSET users
  OBVIOUS
<1>3. IsFiniteSet(S)
  BY <1>2, FS_Subset
<1>4. T = (IF task[p].tok = t THEN S \cup {u} ELSE S) /\ u \notin S
  BY DEF CreateUser, TypeInv, TypeOK
<1> HIDE DEF S, T
<1> QED
  <2>1. Cardinality(S) \in Nat
    BY <1>3, FS_CardinalityType
  <2>2. Cardinality(S \cup {u}) = Cardinality(S) + 1
    BY <1>3, <1>4, FS_AddElement
  <2> QED
    BY <1>1, <1>4, <2>1, <2>2

\* A step that adds no user, or changes no account at all.
LEMMA PaidFrame ==
  ASSUME TypeInv, IsFiniteSet(users), NEW t \in TokenIds,
         UNCHANGED <<users, payer>>
  PROVE  Paid(t) \in Nat /\ Paid(t)' = Paid(t)
<1>1. {v \in users : payer[v] = t} \in SUBSET users
  OBVIOUS
<1>2. IsFiniteSet({v \in users : payer[v] = t})
  BY <1>1, FS_Subset
<1> QED
  BY <1>2, FS_CardinalityType DEF Paid

\* A slot that holds a use of t and gives up wastes it.
LEMMA WasteOne ==
  ASSUME TypeInv, NEW p \in Procs, NEW t \in TokenIds, Waste({p})
  PROVE  wasted'[t] = IF Spent(p, t) THEN wasted[t] + 1 ELSE wasted[t]
<1> DEFINE S == {q \in {p} : Spent(q, t)}
<1>1. wasted'[t] = wasted[t] + Cardinality(S)
  BY DEF Waste
<1>2. S = IF Spent(p, t) THEN {p} ELSE {}
  OBVIOUS
<1>3. wasted[t] \in Nat
  BY DEF TypeInv, TypeOK
<1> HIDE DEF S
<1> QED
  <2>1. Cardinality({p}) = 1
    BY FS_Singleton
  <2>2. Cardinality({}) = 0
    BY FS_EmptySet
  <2> QED
    BY <1>1, <1>2, <1>3, <2>1, <2>2

\* The initial state satisfies the invariant about uses.
LEMMA UseInit == Init => UseInv
<1> SUFFICES ASSUME Init PROVE UseInv
  OBVIOUS
<1>1. ASSUME NEW t \in TokenIds PROVE Balanced(t) /\ Uses(t) <= Limit(t)
  <2>1. /\ {u \in users : payer[u] = t} = {}
        /\ {p \in Procs : Spent(p, t)} = {}
    BY DEF Init, Spent, Idle
  <2> QED
    <3>1. Cardinality({}) = 0
      BY FS_EmptySet
    <3>2. Paid(t) = 0 /\ Held(t) = 0
      BY <2>1, <3>1 DEF Paid, Held
    <3> QED
      BY <3>2 DEF Init, Balanced, Uses, Limit
<1> QED
  BY <1>1, FS_EmptySet DEF Init, UseInv, TokensSent, Idle

\* A step of slot p that leaves the tokens, the users and the waste alone and
\* neither spends nor gives up a use.
LEMMA UseFrame ==
  ASSUME TypeInv, UseInv, NEW p \in Procs, NEW x, Go(p, x), TokensSent',
         \A t \in TokenIds : Spent(p, t)' <=> Spent(p, t),
         UNCHANGED <<mode, tokens, users, payer, wasted>>
  PROVE  UseInv'
<1>1. \A q \in Procs \ {p} : task'[q] = task[q]
  BY DEF Go, TypeInv, TypeOK
<1>2. ASSUME NEW t \in TokenIds PROVE (Balanced(t) /\ Uses(t) <= Limit(t))'
  <2>1. Held(t)' = Held(t) /\ Paid(t)' = Paid(t)
    BY <1>1, HeldStep, PaidFrame DEF UseInv
  <2> QED
    BY <2>1 DEF UseInv, Balanced, Uses, Limit
<1> QED
  BY <1>2 DEF UseInv

\* A step of slot p keeps TokensSent if it does so for p.
LEMMA SentFrame ==
  ASSUME TypeInv, TokensSent, NEW p \in Procs, NEW x, Go(p, x), mode' = mode,
         mode = "push" /\ x.pc # "idle" => x.tok # None,
         x.pc = "hook" => x.tok = None
  PROVE  TokensSent'
BY DEF TokensSent, Go, TypeInv, TypeOK

\* A slot that gives up leaves the accounts balanced.
LEMMA GiveUp ==
  ASSUME TypeInv, UseInv, NEW p \in Procs, Go(p, Idle), Waste({p}),
         UNCHANGED <<mode, tokens, users, payer>>
  PROVE  UseInv'
<1>1. \A q \in Procs \ {p} : task'[q] = task[q]
  BY DEF Go, TypeInv, TypeOK
<1>2. \A t : ~Spent(p, t)'
  BY DEF Go, Spent, Idle, TypeInv, TypeOK
<1>3. ASSUME NEW t \in TokenIds PROVE (Balanced(t) /\ Uses(t) <= Limit(t))'
  <2>1. /\ Paid(t)' = Paid(t) /\ Paid(t) \in Nat /\ Held(t) \in Nat
        /\ Held(t)' = IF Spent(p, t) THEN Held(t) - 1 ELSE Held(t)
        /\ wasted'[t] = IF Spent(p, t) THEN wasted[t] + 1 ELSE wasted[t]
    BY <1>1, <1>2, HeldStep, PaidFrame, WasteOne DEF UseInv
  <2>2. wasted[t] \in Nat
    BY DEF TypeInv, TypeOK
  <2> QED
    BY <2>1, <2>2 DEF UseInv, Balanced, Uses, Limit
<1>4. TokensSent'
  BY SentFrame DEF UseInv, Idle
<1> QED
  BY <1>3, <1>4 DEF UseInv

\* One step preserves the invariant about uses.
LEMMA UseStep == TypeInv /\ UseInv /\ [Next]_vars => UseInv'
<1> SUFFICES ASSUME TypeInv, UseInv, [Next]_vars PROVE UseInv'
  OBVIOUS
<1>0. TokensSent
  BY DEF UseInv
<1>1. ASSUME NEW t \in TokenIds, NEW e \in Lifetimes, NEW m \in Limits,
             CreateToken(t, e, m)
      PROVE  UseInv'
  <2>1. tokens'[t].uses = 0 /\ tokens'[t].max_uses = m /\ m \in Int
    BY <1>1 DEF CreateToken, Insert, TypeInv, TypeOK
  <2>2. \A x \in TokenIds \ {t} : tokens'[x] = tokens[x]
    BY <1>1 DEF CreateToken, Insert, TypeInv, TypeOK
  <2>3. tokens[t] = None
    BY <1>1 DEF CreateToken, Insert
  <2>4. ASSUME NEW x \in TokenIds PROVE (Balanced(x) /\ Uses(x) <= Limit(x))'
    <3>1. Paid(x)' = Paid(x) /\ Held(x)' = Held(x) /\ wasted' = wasted
      BY <1>1 DEF CreateToken, Insert, Paid, Held, Spent
    <3>2. Uses(x)' = Uses(x)
      BY <2>1, <2>2, <2>3 DEF Uses
    <3>3. Uses(x)' <= Limit(x)'
      BY <2>1, <2>2, <2>3, <3>2 DEF UseInv, Uses, Limit
    <3> QED
      BY <3>1, <3>2, <3>3 DEF UseInv, Balanced
  <2> QED
    BY <1>1, <2>4 DEF CreateToken, Insert, UseInv, TokensSent
<1>2. ASSUME NEW p \in Procs, NEW t \in TokenIds \cup {None},
             NEW k \in {"good", "bad"}, RegisterBegin(p, t, k)
      PROVE  UseInv'
  <2> DEFINE new == [Idle EXCEPT !.key = k, !.at = now]
  <2>0. PICK x \in {[new EXCEPT !.pc = "key"], [new EXCEPT !.pc = "hook"],
                    [new EXCEPT !.pc = "consume", !.tok = t]} :
          /\ Go(p, x)
          /\ x.pc \in {"key", "hook"} => mode # "push"
          /\ x.pc = "consume" => t # None
    BY <1>2 DEF RegisterBegin, Idle
  <2>1. /\ Go(p, x)
        /\ x.pc \in {"key", "hook", "consume"}
        /\ x.pc \in {"key", "hook"} => x.tok = None /\ mode # "push"
        /\ x.pc = "consume" => x.tok # None
    BY <2>0 DEF Idle
  <2>2. TokensSent'
    BY <1>0, <1>2, <2>1, SentFrame DEF RegisterBegin
  <2>3. \A y \in TokenIds : ~Spent(p, y) /\ ~Spent(p, y)'
    BY <1>2, <2>1 DEF RegisterBegin, Go, Spent, TypeInv, TypeOK
  <2> QED
    BY <1>2, <2>1, <2>2, <2>3, UseFrame DEF RegisterBegin
<1>3. ASSUME NEW p \in Procs
      PROVE  /\ [task[p] EXCEPT !.pc = "key"].pc = "key"
             /\ [task[p] EXCEPT !.pc = "key"].tok = task[p].tok
             /\ [task[p] EXCEPT !.pc = "user"].pc = "user"
             /\ [task[p] EXCEPT !.pc = "user"].tok = task[p].tok
             /\ \A x : Go(p, x) => /\ task'[p] = x
                                   /\ \A q \in Procs \ {p} : task'[q] = task[q]
  BY DEF TypeInv, TypeOK, Task, Go
<1>4. ASSUME NEW p \in Procs, Consume(p) PROVE UseInv'
  <2>1. PICK t \in TokenIds : t = task[p].tok
    BY <1>4 DEF Consume, TypeInv, TasksGood, GoodTask
  <2>2. CASE Valid(t, task[p].at)
    <3>1. Go(p, [task[p] EXCEPT !.pc = "key"])
      BY <1>4, <2>1, <2>2 DEF Consume
    <3>2. TokensSent'
      <4>1. mode' = mode /\ task[p].tok # None
        BY <1>4, <2>1 DEF Consume
      <4> QED
        BY <1>0, <1>3, <3>1, <4>1, SentFrame
    <3>3. /\ Spent(p, t)' /\ ~Spent(p, t)
          /\ \A x \in TokenIds \ {t} : ~Spent(p, x)' /\ ~Spent(p, x)
      <4>1. /\ task'[p].pc = "key" /\ task'[p].tok = t
            /\ task[p].pc = "consume"
        BY <1>3, <1>4, <2>1, <3>1 DEF Consume
      <4> QED
        BY <4>1 DEF Spent
    <3>4. /\ tokens[t] \in Token /\ tokens[t] # None
          /\ tokens[t].uses < tokens[t].max_uses
      BY <2>2 DEF Valid, TypeInv, TypeOK
    <3>5. /\ tokens'[t] = [tokens[t] EXCEPT !.uses = @ + 1]
          /\ \A x \in TokenIds \ {t} : tokens'[x] = tokens[x]
      BY <1>4, <2>1, <2>2 DEF Consume, TypeInv, TypeOK
    <3>6. /\ tokens'[t] \in Token /\ tokens'[t] # None
          /\ tokens'[t].uses = tokens[t].uses + 1
          /\ tokens'[t].max_uses = tokens[t].max_uses
      BY <3>4, <3>5 DEF Token
    <3>7. ASSUME NEW x \in TokenIds
          PROVE  (Balanced(x) /\ Uses(x) <= Limit(x))'
      <4>1. /\ Paid(x)' = Paid(x) /\ Paid(x) \in Nat /\ Held(x) \in Nat
            /\ Held(x)' = IF x = t THEN Held(x) + 1 ELSE Held(x)
        BY <1>3, <1>4, <3>1, <3>3, HeldStep, PaidFrame DEF Consume, UseInv
      <4>2. wasted' = wasted /\ wasted[x] \in Nat
        BY <1>4 DEF Consume, TypeInv, TypeOK
      <4>3. /\ Uses(x)' = IF x = t THEN Uses(x) + 1 ELSE Uses(x)
            /\ Uses(x)' <= Limit(x)'
        BY <3>4, <3>5, <3>6 DEF UseInv, Uses, Limit, Token
      <4> QED
        BY <4>1, <4>2, <4>3 DEF UseInv, Balanced
    <3> QED
      BY <1>4, <3>2, <3>7 DEF Consume, UseInv
  <2>3. CASE ~Valid(t, task[p].at)
    <3>1. Go(p, Idle) /\ tokens' = tokens
      BY <1>4, <2>1, <2>3 DEF Consume
    <3>2. TokensSent'
      BY <1>0, <1>4, <3>1, SentFrame DEF Consume, Idle
    <3>3. \A x \in TokenIds : ~Spent(p, x)' /\ ~Spent(p, x)
      BY <1>3, <1>4, <3>1 DEF Consume, Spent, Idle
    <3> QED
      BY <1>4, <3>1, <3>2, <3>3, UseFrame DEF Consume
  <2> QED
    BY <2>2, <2>3
<1>5. ASSUME NEW p \in Procs, NEW allowed \in BOOLEAN, HookAnswers(p, allowed)
      PROVE  UseInv'
  <2>0. PICK x \in {Idle, [task[p] EXCEPT !.pc = "key"]} : Go(p, x)
    BY <1>5 DEF HookAnswers
  <2>1. Go(p, x) /\ x.pc \in {"key", "idle"} /\ x.tok = None
    <3>1. task[p].tok = None
      BY <1>0, <1>5 DEF HookAnswers, TokensSent
    <3>2. Idle.pc = "idle" /\ Idle.tok = None
      BY DEF Idle
    <3> QED
      BY <1>3, <2>0, <3>1, <3>2
  <2>2. mode # "push"
    BY <1>0, <1>5 DEF HookAnswers, TokensSent
  <2>3. TokensSent'
    BY <1>0, <1>5, <2>1, <2>2, SentFrame DEF HookAnswers
  <2>4. \A y \in TokenIds : ~Spent(p, y) /\ ~Spent(p, y)'
    BY <1>3, <1>5, <2>1 DEF HookAnswers, Spent
  <2> QED
    BY <1>5, <2>1, <2>3, <2>4, UseFrame DEF HookAnswers
<1>6. ASSUME NEW p \in Procs, CheckKey(p) PROVE UseInv'
  <2>1. CASE task[p].key = "good"
    <3>1. Go(p, [task[p] EXCEPT !.pc = "user"]) /\ wasted' = wasted
      BY <1>6, <2>1 DEF CheckKey
    <3>2. mode = "push" => task[p].tok # None
      BY <1>0, <1>6 DEF TokensSent, CheckKey
    <3>3. TokensSent'
      BY <1>0, <1>3, <1>6, <3>1, <3>2, SentFrame DEF CheckKey
    <3>4. \A y \in TokenIds : Spent(p, y)' <=> Spent(p, y)
      <4>1. /\ task'[p].pc = "user" /\ task'[p].tok = task[p].tok
            /\ task[p].pc = "key"
        BY <1>3, <1>6, <3>1 DEF CheckKey
      <4> QED
        BY <4>1 DEF Spent
    <3> QED
      BY <1>6, <3>1, <3>3, <3>4, UseFrame DEF CheckKey
  <2>2. CASE task[p].key # "good"
    BY <1>6, <2>2, GiveUp DEF CheckKey
  <2> QED
    BY <2>1, <2>2
<1>7. ASSUME NEW p \in Procs, NEW u \in UserIds, CreateUser(p, u)
      PROVE  UseInv'
  <2>0. PICK x : /\ Go(p, x)
                 /\ x = [task[p] EXCEPT !.pc = "device", !.user = u]
    BY <1>7 DEF CreateUser
  <2>1. Go(p, x) /\ x.pc = "device" /\ x.tok = task[p].tok
    BY <2>0 DEF TypeInv, TypeOK, Task
  <2>2. mode = "push" => task[p].tok # None
    BY <1>0, <1>7 DEF TokensSent, CreateUser
  <2>3. TokensSent'
    BY <1>0, <1>7, <2>1, <2>2, SentFrame DEF CreateUser
  <2>4. \A y \in TokenIds : ~Spent(p, y)' /\ (Spent(p, y) <=> task[p].tok = y)
    BY <1>3, <1>7, <2>1 DEF CreateUser, Spent
  <2>5. ASSUME NEW y \in TokenIds
        PROVE  (Balanced(y) /\ Uses(y) <= Limit(y))'
    <3>1. /\ Paid(y) \in Nat /\ Held(y) \in Nat
          /\ Paid(y)' = IF task[p].tok = y THEN Paid(y) + 1 ELSE Paid(y)
          /\ Held(y)' = IF task[p].tok = y THEN Held(y) - 1 ELSE Held(y)
      BY <1>3, <1>7, <2>1, <2>4, HeldStep, PaidStep DEF UseInv
    <3>2. wasted' = wasted /\ tokens' = tokens /\ wasted[y] \in Nat
      BY <1>7 DEF CreateUser, TypeInv, TypeOK
    <3> QED
      BY <3>1, <3>2 DEF UseInv, Balanced, Uses, Limit
  <2>6. IsFiniteSet(users')
    BY <1>7, FS_AddElement DEF CreateUser, UseInv
  <2>7. mode' = "push" => \A v \in users' : payer'[v] # None
    BY <1>7, <2>2 DEF CreateUser, UseInv, TypeInv, TypeOK
  <2> QED
    BY <2>3, <2>5, <2>6, <2>7 DEF UseInv
<1>8. ASSUME NEW p \in Procs, CreateDevice(p) PROVE UseInv'
  <2>1. TokensSent'
    BY <1>0, <1>8, SentFrame DEF CreateDevice, Idle
  <2>2. \A y \in TokenIds : ~Spent(p, y) /\ ~Spent(p, y)'
    BY <1>3, <1>8 DEF CreateDevice, Spent, Idle
  <2> QED
    BY <1>8, <2>1, <2>2, UseFrame DEF CreateDevice
<1>9. ASSUME NEW p \in Procs, Cancel(p) PROVE UseInv'
  BY <1>9, GiveUp DEF Cancel
<1>10. CASE Crash
  <2>1. TokensSent'
    BY <1>10 DEF Crash, TokensSent, Idle
  <2>2. ASSUME NEW y \in TokenIds
        PROVE  (Balanced(y) /\ Uses(y) <= Limit(y))'
    <3>1. wasted'[y] = wasted[y] + Held(y)
      BY <1>10 DEF Crash, Waste, Held
    <3>2. {q \in Procs : Spent(q, y)'} = {}
      BY <1>10 DEF Crash, Spent, Idle
    <3>3. Held(y)' = 0
      BY <3>2, FS_EmptySet DEF Held
    <3>4. Paid(y)' = Paid(y) /\ Paid(y) \in Nat /\ tokens' = tokens
      BY <1>10, PaidFrame DEF Crash, UseInv
    <3>5. Held(y) \in Nat /\ wasted[y] \in Nat
      <4>1. Procs \in SUBSET Procs
        OBVIOUS
      <4> QED
        BY <4>1, WasteTyped DEF Held, TypeInv, TypeOK
    <3> QED
      BY <3>1, <3>3, <3>4, <3>5 DEF UseInv, Balanced, Uses, Limit
  <2> QED
    BY <1>10, <2>1, <2>2 DEF Crash, UseInv
<1>11. CASE UNCHANGED <<mode, tokens, users, task, payer, wasted>>
  <2>1. ASSUME NEW y \in TokenIds
        PROVE  (Balanced(y) /\ Uses(y) <= Limit(y))'
    BY <1>11
    DEF UseInv, Balanced, Uses, Limit, Paid, Held, Spent
  <2> QED
    BY <1>11, <2>1 DEF UseInv, TokensSent
<1> QED
  BY <1>1, <1>2, <1>4, <1>5, <1>6, <1>7, <1>8, <1>9, <1>10, <1>11
  DEF Next, Tick, vars

\* However many register() calls race for the last use of a token, wherever
\* they stop and whatever limit the administrator sent, the users a token paid
\* for, the calls that hold a use and the uses that were wasted never exceed
\* its limit; in push mode no user exists that a token has not paid for.
THEOREM EveryUserPaidFor == Spec => []UsersPaidFor
<1>1. UseInv => UsersPaidFor
  BY DEF UseInv, Balanced, UsersPaidFor
<1> QED
  BY <1>1, TypeInit, TypeStep, UseInit, UseStep, PTL DEF Spec
=============================================================================
