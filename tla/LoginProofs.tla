----------------------------- MODULE LoginProofs -----------------------------
(***************************************************************************)
(* Proofs about Login for any number of users, devices, nonces, attempts,  *)
(* faults and restarts, and for any settings.                              *)
(***************************************************************************)
EXTENDS Login, TLAPS

USE ServerAssumption, LoginAssumption

-----------------------------------------------------------------------------
(* Types.  What a handler signs it has carried along since the pop.         *)

\* What a call of authenticate() and its handler carry at each stage.
GoodAttempt(t) ==
  /\ t \in Attempt
  /\ t.pc # "idle" =>
       t.user \in Users /\ t.dev \in Devices /\ t.nonce \in Nonces
  /\ t.pc \in {"user", "issue"} => t.popped \in Nonces

AttemptsGood == \A a \in Attempts : GoodAttempt(attempt[a])

\* The type invariant strengthened to an inductive one.
TypeInv == TypeOK /\ AttemptsGood

\* An attempt that receives a good state leaves all attempts good.
LEMMA AttemptGood ==
  ASSUME TypeInv, NEW a \in Attempts, NEW t, GoodAttempt(t),
         attempt' = [attempt EXCEPT ![a] = t]
  PROVE  attempt' \in [Attempts -> Attempt] /\ AttemptsGood'
BY DEF TypeInv, TypeOK, AttemptsGood, GoodAttempt

\* The initial state satisfies the invariant.
LEMMA TypeInit == Init => TypeInv
<1> SUFFICES ASSUME Init PROVE TypeInv
  OBVIOUS
<1>1. GoodAttempt(Idle) /\ Idle.pc = "idle"
  BY DEF GoodAttempt, Attempt, Stage, Idle
<1>2. attempt \in [Attempts -> Attempt] /\ AttemptsGood
  BY <1>1 DEF Init, AttemptsGood, GoodAttempt
<1> QED
  BY <1>2 DEF Init, ServerInit, ServerTypeOK, TypeInv, TypeOK

\* A call that ends, in whatever way, is a good one.
LEMMA GotoGood ==
  ASSUME TypeInv, NEW a \in Attempts, attempt[a].pc # "idle",
         NEW pc \in {"issue", "done", "failed"},
         pc = "issue" => attempt[a].pc = "user",
         Goto(a, pc)
  PROVE  attempt' \in [Attempts -> Attempt] /\ AttemptsGood'
<1>1. GoodAttempt([attempt[a] EXCEPT !.pc = pc])
  BY DEF TypeInv, AttemptsGood, GoodAttempt, Attempt, Stage
<1>2. attempt' = [attempt EXCEPT ![a] = [attempt[a] EXCEPT !.pc = pc]]
  BY DEF Goto, TypeInv, TypeOK
<1> QED
  BY <1>1, <1>2, AttemptGood

\* One step of any client, handler, administrator or fault preserves the
\* invariant.
LEMMA TypeStep == TypeInv /\ [Next]_vars => TypeInv'
<1> SUFFICES ASSUME TypeInv, [Next]_vars PROVE TypeInv'
  OBVIOUS
<1> USE DEF TypeInv
<1>1. ASSUME NEW a \in Attempts, NEW u \in Users, NEW d \in Devices,
             NEW k \in Devices \cup {None}, NEW n \in Nonces,
             RequestChallenge(a, u, d, k, n)
      PROVE  TypeInv'
  <2> DEFINE t == [Idle EXCEPT !.pc = "signed", !.user = u, !.dev = d,
                               !.key = k, !.nonce = n, !.until = ExpiresAt]
  <2>1. ExpiresAt \in Nat
    BY DEF ExpiresAt, TypeOK
  <2>2. GoodAttempt(t) /\ t.pc = "signed"
    BY <2>1 DEF GoodAttempt, Attempt, Stage, Idle
  <2> HIDE DEF t
  <2>3. attempt' = [attempt EXCEPT ![a] = t]
    BY <1>1 DEF RequestChallenge, t
  <2>4. attempt' \in [Attempts -> Attempt] /\ AttemptsGood'
    BY <2>2, <2>3, AttemptGood
  <2>5. challenges' \in [Users -> Challenge \cup {None}]
    BY <1>1, <2>1 DEF RequestChallenge, TypeOK, Challenge
  <2>6. disturbed' \subseteq Attempts /\ offered' \in [Nonces -> Users \cup {None}]
    BY <1>1 DEF RequestChallenge, Counting, TypeOK
  <2> QED
    BY <1>1, <2>4, <2>5, <2>6
    DEF RequestChallenge, TypeOK, ServerTypeOK, server
<1>2. ASSUME NEW a \in Attempts, NEW b \in Attempts, Resend(a, b)
      PROVE  TypeInv'
  <2> DEFINE t == [attempt[a] EXCEPT !.pc = "signed", !.popped = None]
  <2>1. GoodAttempt(t) /\ t.pc = "signed"
    <3>1. attempt[a].pc # "idle"
      BY <1>2 DEF Resend, InFlight
    <3> QED
      BY <3>1 DEF AttemptsGood, GoodAttempt, Attempt, Stage
  <2> HIDE DEF t
  <2>2. attempt' = [attempt EXCEPT ![b] = t]
    BY <1>2 DEF Resend, t
  <2>3. attempt' \in [Attempts -> Attempt] /\ AttemptsGood'
    BY <2>1, <2>2, AttemptGood
  <2> QED
    BY <1>2, <2>3 DEF Resend, TypeOK, ServerTypeOK, server
<1>3. ASSUME NEW a \in Attempts, VerifyPop(a) PROVE TypeInv'
  <2> DEFINE u == attempt[a].user
             good == Open(u) /\ now <= challenges[u].expires_at
  <2>1. Pop(a, good, TRUE) /\ u \in Users /\ attempt[a] \in Attempt
    BY <1>3 DEF VerifyPop, Pop, AttemptsGood, GoodAttempt
  <2>2. challenges' \in [Users -> Challenge \cup {None}]
    BY <2>1 DEF Pop, TypeOK
  <2>3. CASE good
    <3> DEFINE t == [attempt[a] EXCEPT !.pc = "user",
                                       !.popped = challenges[u].nonce]
    <3>1. challenges[u].nonce \in Nonces
      BY <2>1, <2>3 DEF Open, TypeOK, Challenge
    <3>2. GoodAttempt(t)
      BY <2>1, <3>1 DEF Pop, AttemptsGood, GoodAttempt, Attempt, Stage
    <3>3. attempt' = [attempt EXCEPT ![a] = t]
      BY <2>1, <2>3 DEF Pop, TypeOK
    <3> HIDE DEF t
    <3>4. attempt' \in [Attempts -> Attempt] /\ AttemptsGood'
      BY <3>2, <3>3, AttemptGood
    <3> QED
      BY <2>1, <2>2, <3>4
      DEF Pop, Counting, TypeOK, ServerTypeOK, server
  <2>4. CASE ~good
    <3>1. Goto(a, "failed") /\ attempt[a].pc # "idle"
      BY <2>1, <2>4 DEF Pop, Goto
    <3> QED
      BY <2>1, <2>2, <3>1, GotoGood
      DEF Pop, Counting, TypeOK, ServerTypeOK, server
  <2> QED
    BY <2>3, <2>4
<1>4. ASSUME NEW a \in Attempts, VerifyUser(a) PROVE TypeInv'
  BY <1>4, GotoGood
  DEF VerifyUser, TypeOK, ServerTypeOK, server, history
<1>5. ASSUME NEW a \in Attempts, VerifyIssue(a) PROVE TypeInv'
  <2>1. /\ attempt[a].user \in Users /\ attempt[a].dev \in Devices
        /\ attempt[a].popped \in Nonces
    BY <1>5 DEF VerifyIssue, AttemptsGood, GoodAttempt
  <2>2. tokens' \subseteq Token
    BY <1>5, <2>1 DEF VerifyIssue, TypeOK, Token
  <2> QED
    BY <1>5, <2>2, GotoGood
    DEF VerifyIssue, TypeOK, ServerTypeOK, server, history
<1>6. ASSUME NEW a \in Attempts, Unreachable(a) PROVE TypeInv'
  BY <1>6, GotoGood DEF Unreachable, TypeOK, ServerTypeOK, server, history
<1>7. ASSUME NEW a \in Attempts, Cancel(a) PROVE TypeInv'
  BY <1>7, GotoGood
  DEF Cancel, InFlight, Fault, TypeOK, ServerTypeOK, server
<1>8. ASSUME NEW provided \in Values, NEW u \in Users, NEW b \in BOOLEAN,
             Administer(provided, u, b)
      PROVE  TypeInv'
  BY <1>8
  DEF Administer, TypeOK, ServerTypeOK, server, AttemptsGood
<1>9. ASSUME NEW s \in Sources, EditSources(s) PROVE TypeInv'
  BY <1>9
  DEF EditSources, Edit, TypeOK, ServerTypeOK, AttemptsGood, history
<1>10. CASE Restart
  BY <1>10
  DEF Restart, Start, TypeOK, ServerTypeOK, AttemptsGood, history
<1>11. CASE Crash
  <2>1. ASSUME NEW a \in Attempts
        PROVE  GoodAttempt(attempt'[a])
    BY <1>11 DEF Crash, AttemptsGood, GoodAttempt, Attempt, Stage
  <2>2. attempt' \in [Attempts -> Attempt] /\ AttemptsGood'
    BY <1>11, <2>1 DEF Crash, AttemptsGood, GoodAttempt
  <2> QED
    BY <1>11, <2>2 DEF Crash, Stop, Fault, TypeOK, ServerTypeOK
<1>12. CASE Tick
  BY <1>12
  DEF Tick, TypeOK, ServerTypeOK, server, AttemptsGood
<1>13. CASE UNCHANGED vars
  BY <1>13
  DEF vars, TypeOK, ServerTypeOK, server, AttemptsGood, history
<1> QED
  BY <1>1, <1>2, <1>3, <1>4, <1>5, <1>6, <1>7, <1>8, <1>9, <1>10, <1>11, <1>12,
     <1>13
  DEF Next, Resume

\* Every variable keeps its type, for any number of users, attempts, faults and
\* restarts.
THEOREM TypeCorrect == Spec => []TypeOK
<1>1. TypeInv => TypeOK
  BY DEF TypeInv
<1> QED
  BY <1>1, TypeInit, TypeStep, PTL DEF Spec

-----------------------------------------------------------------------------
(* Settings.  The settings of a running process are what Load makes of its  *)
(* sources, as they still are: nothing edits them under it.                 *)

ConfigLoaded == config # None => Load(sources, config)

ConfigInv == ConfigLoaded /\ AdminNeedsKey

\* One step preserves the invariant about settings.
LEMMA ConfigStep == TypeInv /\ ConfigInv /\ [Next]_vars => ConfigInv'
<1> SUFFICES ASSUME TypeInv, ConfigInv, [Next]_vars PROVE ConfigInv'
  OBVIOUS
<1> USE DEF ConfigInv
<1>1. ASSUME NEW provided \in Values, NEW u \in Users, NEW b \in BOOLEAN,
             Administer(provided, u, b)
      PROVE  ConfigInv'
  <2>1. provided # Empty
    BY <1>1
    DEF Administer, RequireAdminKey, ConfigLoaded, Load, Validate
  <2> QED
    BY <1>1, <2>1
    DEF Administer, server, ConfigLoaded, AdminNeedsKey
<1>2. CASE Restart
  BY <1>2
  DEF Restart, Start, history, ConfigLoaded, AdminNeedsKey
<1>3. CASE Crash \/ \E s \in Sources : EditSources(s)
  BY <1>3
  DEF Crash, Stop, EditSources, Edit, history, ConfigLoaded,
      AdminNeedsKey
<1>4. CASE UNCHANGED <<sources, config, admins>>
  BY <1>4 DEF ConfigLoaded, AdminNeedsKey
<1>5. ASSUME NEW a \in Attempts,
             \/ \E u \in Users, d \in Devices, k \in Devices \cup {None},
                  n \in Nonces : RequestChallenge(a, u, d, k, n)
             \/ \E b \in Attempts : Resend(a, b)
             \/ Resume(a) \/ Cancel(a)
      PROVE  UNCHANGED <<sources, config, admins>>
  BY <1>5
  DEF RequestChallenge, Resend, Resume, VerifyPop, Pop, VerifyUser, VerifyIssue,
      Unreachable, Cancel, server, history
<1>6. CASE Tick \/ UNCHANGED vars
  BY <1>4, <1>6 DEF Tick, vars, server, history
<1> QED
  BY <1>1, <1>2, <1>3, <1>4, <1>5, <1>6 DEF Next

\* The initial state satisfies the invariant about settings.
LEMMA ConfigInit == Init => ConfigInv
BY DEF Init, ServerInit, ConfigInv, ConfigLoaded, AdminNeedsKey

\* No settings let a request without an admin key act as the administrator.
THEOREM AdminKeyNeeded == Spec => []AdminNeedsKey
<1>1. ConfigInv => AdminNeedsKey
  BY DEF ConfigInv
<1> QED
  BY <1>1, TypeInit, TypeStep, ConfigInit, ConfigStep, PTL DEF Spec

-----------------------------------------------------------------------------
(* Failed logins.  While nothing has come in between, the entry in the map  *)
(* is the attempt's own, in time, in a running server, for a user who is    *)
(* not suspended; after the pop, the nonce taken is the nonce signed.       *)

Undisturbed(a) ==
  LET t == attempt[a] IN
  /\ t.pc = "signed" =>
       /\ config # None /\ ~suspended[t.user] /\ now <= t.until
       /\ challenges[t.user] = [nonce |-> t.nonce, expires_at |-> t.until]
  /\ t.pc = "user" => ~suspended[t.user] /\ t.popped = t.nonce
  /\ t.pc = "failed" => ~Honest(a)

DisturbInv == \A a \in Attempts : a \notin disturbed => Undisturbed(a)

\* A step that leaves an undisturbed attempt and what it counts on alone.
LEMMA UndisturbedFrame ==
  ASSUME NEW a \in Attempts, Undisturbed(a), attempt'[a] = attempt[a],
         UNCHANGED <<config, now, suspended>>,
         attempt[a].pc = "signed" =>
           challenges'[attempt[a].user] = challenges[attempt[a].user]
  PROVE  Undisturbed(a)'
BY DEF Undisturbed, Honest

\* One step preserves the invariant about disturbances.
LEMMA DisturbStep == TypeInv /\ DisturbInv /\ [Next]_vars => DisturbInv'
<1> SUFFICES ASSUME TypeInv, DisturbInv, [Next]_vars, NEW x \in Attempts,
                    x \notin disturbed'
             PROVE  Undisturbed(x)'
  BY DEF DisturbInv
<1> USE DEF TypeInv
<1>0. ASSUME x \notin disturbed PROVE Undisturbed(x)
  BY <1>0 DEF DisturbInv
<1>1. ASSUME NEW a \in Attempts, NEW u \in Users, NEW d \in Devices,
             NEW k \in Devices \cup {None}, NEW n \in Nonces,
             RequestChallenge(a, u, d, k, n)
      PROVE  Undisturbed(x)'
  <2>1. CASE x = a
    <3>1. ~suspended[u] /\ config # None
      BY <1>1, <2>1 DEF RequestChallenge
    <3>2. /\ attempt'[x].pc = "signed" /\ attempt'[x].user = u
          /\ attempt'[x].nonce = n /\ attempt'[x].until = ExpiresAt
      BY <1>1, <2>1 DEF RequestChallenge, TypeOK, Idle
    <3>3. challenges'[u] = [nonce |-> n, expires_at |-> ExpiresAt]
      BY <1>1 DEF RequestChallenge, TypeOK
    <3>4. now <= ExpiresAt
      BY DEF ExpiresAt, TypeOK
    <3> QED
      BY <1>1, <3>1, <3>2, <3>3, <3>4 DEF RequestChallenge, server, Undisturbed
  <2>2. CASE x # a
    <3>1. attempt'[x] = attempt[x] /\ x \notin disturbed
      BY <1>1, <2>2 DEF RequestChallenge, TypeOK
    <3>2. attempt[x].pc = "signed" => attempt[x].user # u
      BY <1>1, <2>2 DEF RequestChallenge, Counting
    <3>3. attempt[x].pc = "signed" =>
            challenges'[attempt[x].user] = challenges[attempt[x].user]
      BY <1>1, <3>2
      DEF RequestChallenge, TypeOK, AttemptsGood, GoodAttempt
    <3> QED
      BY <1>0, <1>1, <3>1, <3>3, UndisturbedFrame DEF RequestChallenge, server
  <2> QED
    BY <2>1, <2>2
<1>2. ASSUME NEW a \in Attempts, NEW b \in Attempts, Resend(a, b)
      PROVE  Undisturbed(x)'
  BY <1>0, <1>2, UndisturbedFrame DEF Resend, TypeOK, server
<1>3. ASSUME NEW a \in Attempts, VerifyPop(a) PROVE Undisturbed(x)'
  <2> DEFINE u == attempt[a].user
             good == Open(u) /\ now <= challenges[u].expires_at
  <2>1. Pop(a, good, TRUE) /\ u \in Users /\ x \notin disturbed
    BY <1>3 DEF VerifyPop, Pop, AttemptsGood, GoodAttempt
  <2>2. CASE x = a
    <3>1. /\ ~suspended[u] /\ now <= attempt[a].until
          /\ challenges[u] = [nonce |-> attempt[a].nonce,
                              expires_at |-> attempt[a].until]
      BY <1>0, <2>1, <2>2 DEF Undisturbed, Pop
    <3>2. attempt[a].nonce \in Nonces /\ attempt[a].until \in Nat
      BY <2>1 DEF Pop, AttemptsGood, GoodAttempt, Attempt
    <3>3. challenges[u] # None
      BY <3>1, <3>2 DEF Challenge
    <3>4. good /\ challenges[u].nonce = attempt[a].nonce
      BY <3>1, <3>3 DEF Open
    <3>5. /\ attempt'[x].pc = "user" /\ attempt'[x].user = u
          /\ attempt'[x].popped = attempt'[x].nonce
      BY <2>1, <2>2, <3>4 DEF Pop, TypeOK, Attempt
    <3> QED
      BY <2>1, <2>2, <3>1, <3>5 DEF Pop, Undisturbed
  <2>3. CASE x # a
    <3>1. attempt'[x] = attempt[x]
      BY <2>1, <2>3 DEF Pop, TypeOK
    <3>2. attempt[x].pc = "signed" => attempt[x].user # u
      BY <2>1, <2>3 DEF Pop, Counting
    <3>3. attempt[x].pc = "signed" =>
            challenges'[attempt[x].user] = challenges[attempt[x].user]
      BY <2>1, <3>2 DEF Pop, TypeOK, AttemptsGood, GoodAttempt
    <3> QED
      BY <1>0, <2>1, <3>1, <3>3, UndisturbedFrame DEF Pop, server
  <2> QED
    BY <2>2, <2>3
<1>4. ASSUME NEW a \in Attempts, VerifyUser(a) PROVE Undisturbed(x)'
  <2>1. x \notin disturbed
    BY <1>4 DEF VerifyUser, history
  <2>2. CASE x = a
    <3>1. ~suspended[attempt[x].user] /\ attempt[x].popped = attempt[x].nonce
      BY <1>0, <1>4, <2>1, <2>2 DEF VerifyUser, Undisturbed
    <3>2. CASE Honest(x)
      <4>1. attempt'[x].pc = "issue"
        BY <1>4, <2>2, <3>1, <3>2 DEF VerifyUser, Honest, Goto, TypeOK, Attempt
      <4> QED
        BY <4>1 DEF Undisturbed
    <3>3. CASE ~Honest(x)
      <4>1. attempt'[x].pc \in {"issue", "failed"} /\ ~Honest(x)'
        BY <1>4, <2>2, <3>3 DEF VerifyUser, Honest, Goto, TypeOK, Attempt
      <4> QED
        BY <4>1 DEF Undisturbed
    <3> QED
      BY <3>2, <3>3
  <2>3. CASE x # a
    BY <1>0, <1>4, <2>1, <2>3, UndisturbedFrame
    DEF VerifyUser, Goto, TypeOK, server
  <2> QED
    BY <2>2, <2>3
<1>5. ASSUME NEW a \in Attempts, VerifyIssue(a) PROVE Undisturbed(x)'
  <2>1. x \notin disturbed
    BY <1>5 DEF VerifyIssue, history
  <2>2. CASE x = a
    <3>1. attempt'[x].pc = "done"
      BY <1>5, <2>2 DEF VerifyIssue, Goto, TypeOK, Attempt
    <3> QED
      BY <3>1 DEF Undisturbed
  <2>3. CASE x # a
    BY <1>0, <1>5, <2>1, <2>3, UndisturbedFrame
    DEF VerifyIssue, Goto, TypeOK, server
  <2> QED
    BY <2>2, <2>3
<1>6. ASSUME NEW a \in Attempts, Unreachable(a) PROVE Undisturbed(x)'
  <2>1. x \notin disturbed /\ x # a
    BY <1>0, <1>6 DEF Unreachable, history, Undisturbed
  <2> QED
    BY <1>0, <1>6, <2>1, UndisturbedFrame
    DEF Unreachable, Goto, TypeOK, server
<1>7. ASSUME NEW a \in Attempts, Cancel(a) PROVE Undisturbed(x)'
  BY <1>0, <1>7, UndisturbedFrame DEF Cancel, Goto, TypeOK, server
<1>8. ASSUME NEW provided \in Values, NEW u \in Users, NEW b \in BOOLEAN,
             Administer(provided, u, b)
      PROVE  Undisturbed(x)'
  <2>1. x \notin disturbed /\ attempt[x].user # u
    BY <1>8 DEF Administer
  <2>2. attempt[x].pc \in {"signed", "user"} =>
          suspended'[attempt[x].user] = suspended[attempt[x].user]
    BY <1>8, <2>1 DEF Administer, TypeOK, AttemptsGood, GoodAttempt
  <2> QED
    BY <1>0, <1>8, <2>1, <2>2 DEF Administer, server, Undisturbed, Honest
<1>9. CASE Restart \/ \E s \in Sources : EditSources(s)
  BY <1>0, <1>9
  DEF Restart, Start, EditSources, Edit, history, Undisturbed, Honest
<1>10. CASE Crash
  BY <1>0, <1>10 DEF Crash, InFlight, Undisturbed, Honest
<1>11. CASE Tick
  BY <1>0, <1>11 DEF Tick, server, Undisturbed, Honest, TypeOK, Attempt
<1>12. CASE UNCHANGED vars
  BY <1>0, <1>12, UndisturbedFrame DEF vars, server, history
<1> QED
  BY <1>1, <1>2, <1>3, <1>4, <1>5, <1>6, <1>7, <1>8, <1>9, <1>10, <1>11, <1>12
  DEF Next, Resume

\* Whatever logins overlap, and however often the server restarts, a login with
\* the right key fails only for one of the reasons the history records.
THEOREM FailuresExplained == Spec => []FailedLoginsExplained
<1>1. Init => DisturbInv
  BY DEF Init, DisturbInv, Undisturbed, Idle
<1>2. DisturbInv => FailedLoginsExplained
  BY DEF DisturbInv, Undisturbed, FailedLoginsExplained
<1> QED
  BY <1>1, <1>2, TypeInit, TypeStep, DisturbStep, PTL DEF Spec

-----------------------------------------------------------------------------
(* One-time login.  A nonce that can still buy a token is in one place: in  *)
(* the map, under the user it was made for, or with the one handler that    *)
(* has popped it.  Once it has left the map it never returns.               *)

\* A handler holds nonce n.
Holds(a, n) == attempt[a].pc \in {"user", "issue"} /\ attempt[a].popped = n

\* The map has nonce n open for user u.
Offers(u, n) == challenges[u] # None /\ challenges[u].nonce = n

\* A token has been issued for nonce n.
Granted(n) == \E t \in tokens : t.nonce = n

\* Nonces in the map, in handlers and in signatures were made for their users.
NoncesOffered ==
  /\ \A u \in Users, n \in Nonces : Offers(u, n) => offered[n] = u
  /\ \A a \in Attempts, n \in Nonces : Holds(a, n) => offered[n] = attempt[a].user
  /\ \A n \in Nonces : Granted(n) => offered[n] # None

\* The map, a handler or a token: one of them, and one handler only.
NoncesApart ==
  \A n \in Nonces :
    /\ \A u \in Users : Offers(u, n) =>
         ~Granted(n) /\ \A a \in Attempts : ~Holds(a, n)
    /\ \A a \in Attempts : Holds(a, n) =>
         ~Granted(n) /\ \A b \in Attempts : Holds(b, n) => a = b

\* What verify() has checked when it is about to sign.
IssuesChecked ==
  \A a \in Attempts :
    LET t == attempt[a] IN
    t.pc = "issue" =>
      Owner[t.dev] = t.user /\ t.key = t.dev /\ t.nonce = t.popped

NonceInv == NoncesOffered /\ NoncesApart /\ IssuesChecked

\* The initial state satisfies the invariant about nonces.
LEMMA NonceInit == Init => NonceInv
BY DEF Init, NonceInv, NoncesOffered, NoncesApart, IssuesChecked, Holds, Offers,
       Granted, Idle

\* A step after which nonces are where they were, or are gone, is harmless.
LEMMA NonceFrame ==
  ASSUME NonceInv, offered' = offered, tokens' = tokens,
         \A u \in Users, n \in Nonces : Offers(u, n)' => Offers(u, n),
         \A a \in Attempts, n \in Nonces :
           Holds(a, n)' => Holds(a, n) /\ attempt'[a].user = attempt[a].user
  PROVE  NoncesOffered' /\ NoncesApart'
<1>1. \A n \in Nonces : Granted(n)' <=> Granted(n)
  BY DEF Granted
<1>2. NoncesOffered'
  BY <1>1 DEF NonceInv, NoncesOffered
<1>3. NoncesApart'
  BY <1>1 DEF NonceInv, NoncesApart
<1> QED
  BY <1>2, <1>3

\* VerifyIssue adds one token, for what the handler holds.
LEMMA IssueAdds ==
  ASSUME NEW a \in Attempts, VerifyIssue(a)
  PROVE  \E t : /\ tokens' = tokens \cup {t}
               /\ t.nonce = attempt[a].popped /\ t.dev = attempt[a].dev
               /\ t.by = a
<1> DEFINE t == [user |-> attempt[a].user, dev |-> attempt[a].dev,
                 nonce |-> attempt[a].popped, by |-> a]
<1>1. tokens' = tokens \cup {t}
  BY DEF VerifyIssue
<1>2. t.nonce = attempt[a].popped /\ t.dev = attempt[a].dev /\ t.by = a
  OBVIOUS
<1> HIDE DEF t
<1> QED
  BY <1>1, <1>2

\* One step preserves the invariant about nonces.
LEMMA NonceStep == TypeInv /\ NonceInv /\ [Next]_vars => NonceInv'
<1> SUFFICES ASSUME TypeInv, NonceInv, [Next]_vars PROVE NonceInv'
  OBVIOUS
<1> USE DEF TypeInv
<1>1. ASSUME NEW a \in Attempts, NEW u \in Users, NEW d \in Devices,
             NEW k \in Devices \cup {None}, NEW n \in Nonces,
             RequestChallenge(a, u, d, k, n)
      PROVE  NonceInv'
  <2>1. attempt'[a].pc = "signed"
        /\ \A b \in Attempts \ {a} : attempt'[b] = attempt[b]
    BY <1>1 DEF RequestChallenge, TypeOK, Idle
  <2>2. ~Granted(n) /\ (\A b \in Attempts : ~Holds(b, n))
    BY <1>1
    DEF RequestChallenge, NonceInv, NoncesOffered, Holds, AttemptsGood,
        GoodAttempt
  <2>3. \A b \in Attempts, m \in Nonces : Holds(b, m)' =>
          Holds(b, m) /\ b # a /\ m # n
    BY <2>1, <2>2 DEF Holds
  <2>4. \A v \in Users, m \in Nonces :
          Offers(v, m)' => (v = u /\ m = n) \/ (Offers(v, m) /\ m # n)
    <3>1. \A v \in Users : ~Offers(v, n)
      BY <1>1 DEF RequestChallenge, NonceInv, NoncesOffered
    <3> QED
      BY <1>1, <3>1 DEF RequestChallenge, Offers, TypeOK
  <2>5. \A m \in Nonces : Granted(m)' <=> Granted(m)
    BY <1>1 DEF RequestChallenge, Granted
  <2>6. offered'[n] = u /\ \A m \in Nonces \ {n} : offered'[m] = offered[m]
    BY <1>1 DEF RequestChallenge, TypeOK
  <2>7. NoncesOffered'
    BY <2>1, <2>2, <2>3, <2>4, <2>5, <2>6 DEF NonceInv, NoncesOffered
  <2>8. NoncesApart'
    BY <2>2, <2>3, <2>4, <2>5 DEF NonceInv, NoncesApart
  <2>9. IssuesChecked'
    BY <2>1 DEF NonceInv, IssuesChecked
  <2> QED
    BY <2>7, <2>8, <2>9 DEF NonceInv
<1>2. ASSUME NEW a \in Attempts, NEW b \in Attempts, Resend(a, b)
      PROVE  NonceInv'
  <2>1. attempt'[b].pc = "signed"
        /\ \A x \in Attempts \ {b} : attempt'[x] = attempt[x]
    BY <1>2 DEF Resend, TypeOK, Attempt
  <2>2. NoncesOffered' /\ NoncesApart'
    BY <1>2, <2>1, NonceFrame DEF Resend, Offers, Holds
  <2>3. IssuesChecked'
    BY <2>1 DEF NonceInv, IssuesChecked
  <2> QED
    BY <2>2, <2>3 DEF NonceInv
<1>3. ASSUME NEW a \in Attempts, VerifyPop(a) PROVE NonceInv'
  <2>1. PICK u \in Users : u = attempt[a].user
    BY <1>3 DEF VerifyPop, Pop, AttemptsGood, GoodAttempt
  <2>2. attempt[a].pc = "signed" /\ UNCHANGED <<tokens, offered>>
    BY <1>3 DEF VerifyPop, Pop
  <2>3. \A b \in Attempts \ {a} : attempt'[b] = attempt[b]
    BY <1>3 DEF VerifyPop, Pop, TypeOK
  <2>4. /\ attempt'[a].pc \in {"user", "failed"} /\ attempt'[a].user = u
        /\ attempt'[a].pc = "user" =>
             challenges[u] # None /\ attempt'[a].popped = challenges[u].nonce
    BY <1>3, <2>1 DEF VerifyPop, Pop, Open, TypeOK, Attempt
  <2>5. \A v \in Users, n \in Nonces : Offers(v, n)' => Offers(v, n) /\ v # u
    BY <1>3, <2>1 DEF VerifyPop, Pop, Offers, TypeOK
  <2>6. \A b \in Attempts, n \in Nonces : Holds(b, n)' =>
          /\ attempt'[b].user = attempt[b].user
          /\ (Holds(b, n) /\ b # a) \/ (Offers(u, n) /\ b = a)
    BY <2>1, <2>2, <2>3, <2>4 DEF Holds, Offers
  <2>7. \A n \in Nonces : Granted(n)' <=> Granted(n)
    BY <2>2 DEF Granted
  <2>8. NoncesOffered'
    BY <2>1, <2>2, <2>5, <2>6, <2>7 DEF NonceInv, NoncesOffered
  <2>9. NoncesApart'
    <3>1. ASSUME NEW n \in Nonces, NEW v \in Users, Offers(v, n)'
          PROVE  ~Granted(n)' /\ \A b \in Attempts : ~Holds(b, n)'
      <4>1. Offers(v, n) /\ ~Offers(u, n)
        BY <2>5, <3>1 DEF NonceInv, NoncesOffered
      <4> QED
        BY <2>6, <2>7, <4>1 DEF NonceInv, NoncesApart
    <3>2. ASSUME NEW n \in Nonces, NEW b \in Attempts, Holds(b, n)'
          PROVE  ~Granted(n)' /\ \A c \in Attempts : Holds(c, n)' => b = c
      BY <2>6, <2>7, <3>2 DEF NonceInv, NoncesApart
    <3> QED
      BY <3>1, <3>2 DEF NoncesApart
  <2>10. IssuesChecked'
    BY <2>3, <2>4 DEF NonceInv, IssuesChecked
  <2> QED
    BY <2>8, <2>9, <2>10 DEF NonceInv
<1>4. ASSUME NEW a \in Attempts, VerifyUser(a) PROVE NonceInv'
  <2>1. /\ attempt'[a].user = attempt[a].user
        /\ attempt'[a].popped = attempt[a].popped
        /\ attempt[a].pc = "user"
        /\ \A b \in Attempts \ {a} : attempt'[b] = attempt[b]
    BY <1>4 DEF VerifyUser, Goto, TypeOK, Attempt
  <2>2. NoncesOffered' /\ NoncesApart'
    BY <1>4, <2>1, NonceFrame DEF VerifyUser, Offers, Holds, history
  <2>3. IssuesChecked'
    BY <1>4, <2>1 DEF VerifyUser, Goto, NonceInv, IssuesChecked, TypeOK, Attempt
  <2> QED
    BY <2>2, <2>3 DEF NonceInv
<1>5. ASSUME NEW a \in Attempts, VerifyIssue(a) PROVE NonceInv'
  <2>1. PICK n \in Nonces : n = attempt[a].popped
    BY <1>5 DEF VerifyIssue, AttemptsGood, GoodAttempt
  <2>2. /\ attempt'[a].pc = "done" /\ attempt[a].pc = "issue"
        /\ \A b \in Attempts \ {a} : attempt'[b] = attempt[b]
    BY <1>5 DEF VerifyIssue, Goto, TypeOK, Attempt
  <2>3. \A b \in Attempts, m \in Nonces : Holds(b, m)' =>
          Holds(b, m) /\ b # a /\ attempt'[b] = attempt[b]
    BY <2>2 DEF Holds
  <2>4. \A m \in Nonces : Granted(m)' <=> Granted(m) \/ m = n
    <3>1. \E t : tokens' = tokens \cup {t} /\ t.nonce = n
      BY <1>5, <2>1, IssueAdds
    <3> QED
      BY <3>1 DEF Granted
  <2>5. \A v \in Users, m \in Nonces : Offers(v, m)' <=> Offers(v, m)
    BY <1>5 DEF VerifyIssue, Offers
  <2>6. Holds(a, n) /\ offered' = offered
    BY <1>5, <2>1, <2>2 DEF VerifyIssue, Holds, history
  <2>7. attempt[a].user # None
    BY <2>2 DEF AttemptsGood, GoodAttempt
  <2>8. NoncesOffered'
    BY <2>3, <2>4, <2>5, <2>6, <2>7 DEF NonceInv, NoncesOffered
  <2>9. NoncesApart'
    BY <2>3, <2>4, <2>5, <2>6 DEF NonceInv, NoncesApart
  <2>10. IssuesChecked'
    BY <2>2 DEF NonceInv, IssuesChecked
  <2> QED
    BY <2>8, <2>9, <2>10 DEF NonceInv
<1>6. ASSUME NEW a \in Attempts, Unreachable(a) \/ Cancel(a) PROVE NonceInv'
  <2>1. /\ attempt'[a].pc = "failed"
        /\ \A b \in Attempts \ {a} : attempt'[b] = attempt[b]
    BY <1>6 DEF Unreachable, Cancel, Goto, TypeOK, Attempt
  <2>2. NoncesOffered' /\ NoncesApart'
    BY <1>6, <2>1, NonceFrame DEF Unreachable, Cancel, Offers, Holds, history
  <2>3. IssuesChecked'
    BY <2>1 DEF NonceInv, IssuesChecked
  <2> QED
    BY <2>2, <2>3 DEF NonceInv
<1>7. CASE Crash
  <2>1. \A a \in Attempts : attempt'[a].pc \notin {"user", "issue"}
    BY <1>7 DEF Crash, TypeOK, Attempt
  <2>2. NoncesOffered' /\ NoncesApart'
    BY <1>7, <2>1, NonceFrame DEF Crash, Offers, Holds
  <2>3. IssuesChecked'
    BY <2>1 DEF IssuesChecked
  <2> QED
    BY <2>2, <2>3 DEF NonceInv
<1>8. ASSUME UNCHANGED <<attempt, challenges, tokens, offered>>
      PROVE  NonceInv'
  BY <1>8
  DEF NonceInv, NoncesOffered, NoncesApart, IssuesChecked, Holds, Offers,
      Granted
<1>9. CASE \/ \E provided \in Values, u \in Users, b \in BOOLEAN :
                Administer(provided, u, b)
           \/ \E s \in Sources : EditSources(s)
           \/ Restart \/ Tick \/ UNCHANGED vars
  BY <1>8, <1>9 DEF Administer, EditSources, Restart, Tick, vars, history
<1> QED
  BY <1>1, <1>2, <1>3, <1>4, <1>5, <1>6, <1>7, <1>9 DEF Next, Resume

\* The abstract login starts where the detailed one does.
LEMMA OneTimeInit == Init => OneTime!Init
BY DEF Init, OneTime!Init, Idle

\* RequestChallenge is an offer, VerifyIssue is a grant, and every other step
\* is none of the abstract login's business.
LEMMA OneTimeStep ==
  TypeInv /\ NonceInv /\ [Next]_vars => [OneTime!Next]_(OneTime!vars)
<1> DEFINE signed == {<<attempt[a].nonce, attempt[a].key>> :
                        a \in {b \in Attempts : attempt[b].pc # "idle"}}
           granted == {<<t.nonce, t.dev, t.by>> : t \in tokens}
<1> SUFFICES ASSUME TypeInv, NonceInv, [Next]_vars
             PROVE  OneTime!Next \/ (UNCHANGED <<offered, signed, granted>>)
  BY DEF OneTime!vars
<1> USE DEF TypeInv
<1>1. ASSUME NEW a \in Attempts, NEW u \in Users, NEW d \in Devices,
             NEW k \in Devices \cup {None}, NEW n \in Nonces,
             RequestChallenge(a, u, d, k, n)
      PROVE  OneTime!Next
  <2>1. /\ attempt[a].pc = "idle" /\ attempt'[a].pc = "signed"
        /\ attempt'[a].nonce = n /\ attempt'[a].key = k
        /\ \A b \in Attempts \ {a} : attempt'[b] = attempt[b]
    BY <1>1 DEF RequestChallenge, TypeOK, Idle
  <2>2. signed' = signed \cup {<<n, k>>}
    BY <2>1
  <2>3. granted' = granted
    BY <1>1 DEF RequestChallenge
  <2>4. OneTime!Offer(n, u, k)
    BY <1>1, <2>2, <2>3 DEF RequestChallenge, OneTime!Offer
  <2> QED
    BY <2>4 DEF OneTime!Next
<1>2. ASSUME NEW a \in Attempts, VerifyIssue(a) PROVE OneTime!Next
  <2>1. PICK n \in Nonces, d \in Devices :
               n = attempt[a].popped /\ d = attempt[a].dev
    BY <1>2 DEF VerifyIssue, AttemptsGood, GoodAttempt
  <2>2. /\ attempt[a].pc = "issue" /\ attempt'[a].pc = "done"
        /\ attempt'[a].nonce = attempt[a].nonce
        /\ attempt'[a].key = attempt[a].key
        /\ \A b \in Attempts \ {a} : attempt'[b] = attempt[b]
    BY <1>2 DEF VerifyIssue, Goto, TypeOK, Attempt
  <2>3. signed' = signed
    BY <2>2
  <2>4. granted' = granted \cup {<<n, d, a>>}
    <3>1. \E t : /\ tokens' = tokens \cup {t}
                /\ t.nonce = n /\ t.dev = d /\ t.by = a
      BY <1>2, <2>1, IssueAdds
    <3> QED
      BY <3>1
  <2>5. Owner[d] = attempt[a].user /\ attempt[a].key = d /\ attempt[a].nonce = n
    BY <2>1, <2>2 DEF NonceInv, IssuesChecked
  <2>6. Holds(a, n)
    BY <2>1, <2>2 DEF Holds
  <2>7. offered[n] = Owner[d] /\ ~Granted(n)
    BY <2>5, <2>6 DEF NonceInv, NoncesOffered, NoncesApart
  <2>8. <<n, d>> \in signed
    BY <2>2, <2>5
  <2>9. \A g \in granted : g[1] # n
    BY <2>7 DEF Granted
  <2>10. OneTime!Grant(n, d, a)
    BY <1>2, <2>3, <2>4, <2>7, <2>8, <2>9
    DEF VerifyIssue, history, OneTime!Grant
  <2> QED
    BY <2>10 DEF OneTime!Next
<1>3. ASSUME UNCHANGED <<tokens, offered>>,
             \A a \in Attempts :
               /\ attempt'[a].pc = "idle" <=> attempt[a].pc = "idle"
               /\ attempt'[a].nonce = attempt[a].nonce
               /\ attempt'[a].key = attempt[a].key
      PROVE  UNCHANGED <<offered, signed, granted>>
  BY <1>3
<1>4. ASSUME NEW a \in Attempts, NEW b \in Attempts, Resend(a, b)
      PROVE  UNCHANGED <<offered, signed, granted>>
  <2>1. /\ attempt[a].pc # "idle" /\ attempt[b].pc = "idle"
        /\ attempt'[b].pc = "signed"
        /\ attempt'[b].nonce = attempt[a].nonce
        /\ attempt'[b].key = attempt[a].key
        /\ \A x \in Attempts \ {b} : attempt'[x] = attempt[x]
    BY <1>4 DEF Resend, InFlight, TypeOK, Attempt
  <2>2. signed' = signed
    BY <2>1
  <2> QED
    BY <1>4, <2>2 DEF Resend
<1>5. ASSUME NEW a \in Attempts,
             VerifyPop(a) \/ VerifyUser(a) \/ Unreachable(a) \/ Cancel(a)
      PROVE  UNCHANGED <<offered, signed, granted>>
  <2>1. UNCHANGED <<tokens, offered>>
    BY <1>5 DEF VerifyPop, Pop, VerifyUser, Unreachable, Cancel, history
  <2>2. ASSUME NEW b \in Attempts
        PROVE  /\ attempt'[b].pc = "idle" <=> attempt[b].pc = "idle"
               /\ attempt'[b].nonce = attempt[b].nonce
               /\ attempt'[b].key = attempt[b].key
    BY <1>5
    DEF VerifyPop, Pop, VerifyUser, Unreachable, Cancel, InFlight, Goto, TypeOK,
        Attempt
  <2> QED
    BY <1>3, <2>1, <2>2
<1>6. CASE Crash
  <2>1. ASSUME NEW b \in Attempts
        PROVE  /\ attempt'[b].pc = "idle" <=> attempt[b].pc = "idle"
               /\ attempt'[b].nonce = attempt[b].nonce
               /\ attempt'[b].key = attempt[b].key
    BY <1>6 DEF Crash, TypeOK, Attempt
  <2> QED
    BY <1>3, <1>6, <2>1 DEF Crash
<1>7. CASE \/ \E provided \in Values, u \in Users, b \in BOOLEAN :
                Administer(provided, u, b)
           \/ \E s \in Sources : EditSources(s)
           \/ Restart \/ Tick \/ UNCHANGED vars
  BY <1>3, <1>7 DEF Administer, EditSources, Restart, Tick, vars, history
<1> QED
  BY <1>1, <1>2, <1>4, <1>5, <1>6, <1>7 DEF Next, Resume

\* The challenge map, popped before anything is checked, replaced by anybody
\* and lost in restarts, implements the one-time login.
THEOREM LoginImplementsOneTime == Spec => LoginIsOneTime
BY TypeInit, TypeStep, NonceInit, NonceStep, OneTimeInit, OneTimeStep, PTL
DEF Spec, LoginIsOneTime, OneTime!Spec
=============================================================================
