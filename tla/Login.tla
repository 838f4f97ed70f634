-------------------------------- MODULE Login --------------------------------
(***************************************************************************)
(* Challenge-response login: GET /auth/challenge, the client's signature,  *)
(* POST /auth/verify and its awaits, across restarts of the server.  The   *)
(* challenge map has one entry per user and is popped before anything is   *)
(* checked, so logins of one user get in each other's way.                 *)
(*                                                                         *)
(* An attempt is one call of the client's authenticate(), with the request *)
(* handler it keeps waiting; anybody may make one for any user, device and *)
(* key.  What verify() does with the relationships is in Access.           *)
(***************************************************************************)
EXTENDS Server

CONSTANTS
  Users,        \* registered users
  Devices,      \* registered devices, each with its key pair
  Owner,        \* device |-> user
  Nonces,       \* 32 random bytes, never the same twice
  Attempts,     \* calls of authenticate()
  ChallengeTtl, \* CHALLENGE_TTL_SECS
  MaxNow,       \* bound on the clock
  MaxFaults     \* bound on stops and dropped requests

Challenge == [nonce : Nonces, expires_at : Nat]

ASSUME LoginAssumption ==
  /\ Owner \in [Devices -> Users]
  /\ ChallengeTtl \in Nat /\ MaxNow \in Nat /\ MaxFaults \in Nat
  /\ None \notin Users \cup Nonces \cup Devices /\ None \notin Challenge

VARIABLES
  now,        \* unix_now()
  suspended,  \* users.suspended
  challenges, \* AppState.challenges
  attempt,    \* where each call of authenticate() stands
  tokens,     \* JWTs issued
  faults,     \* faults so far
  offered,    \* history: the user each nonce was made for
  admins,     \* history: x-admin-key values that were accepted
  disturbed   \* history: attempts that something outside them spoilt

history == <<offered, admins, disturbed>>
vars == <<server, now, suspended, challenges, attempt, tokens, faults,
          history>>

-----------------------------------------------------------------------------
\* nonce and by are history.
Token == [user : Users, dev : Devices, nonce : Nonces, by : Attempts]

\* signed: the client has signed its nonce and posts it; user, issue: awaits
\* of verify().
Stage == {"idle", "signed", "user", "issue", "done", "failed"}

\* key is the device whose private key signs, None for a key that no device
\* has; nonce is what is signed, popped what verify() took from the map, until
\* when the nonce was to expire.
Attempt == [pc : Stage, user : Users \cup {None}, dev : Devices \cup {None},
            key : Devices \cup {None}, nonce : Nonces \cup {None},
            popped : Nonces \cup {None}, until : Nat]

Idle == [pc |-> "idle", user |-> None, dev |-> None, key |-> None,
         nonce |-> None, popped |-> None, until |-> 0]

InFlight(a) == attempt[a].pc \in {"signed", "user", "issue"}

\* The other attempts that count on the entry of u in the challenge map.
Counting(u, a) ==
  {b \in Attempts \ {a} : attempt[b].pc = "signed" /\ attempt[b].user = u}

Goto(a, pc) == attempt' = [attempt EXCEPT ![a].pc = pc]

-----------------------------------------------------------------------------
(* GET /auth/challenge *)

\* Mutant: the sign of the time to live is wrong.
ExpiresBackwards == now - ChallengeTtl

ExpiresAt == now + ChallengeTtl

\* challenge() replaces the user's entry; the client signs the nonce.
RequestChallenge(a, u, d, k, n) ==
  /\ config # None
  /\ attempt[a].pc = "idle"
  /\ offered[n] = None
  /\ offered' = [offered EXCEPT ![n] = u]
  /\ challenges' = [challenges EXCEPT ![u] =
                      [nonce |-> n, expires_at |-> ExpiresAt]]
  /\ attempt' = [attempt EXCEPT ![a] =
                   [Idle EXCEPT !.pc = "signed", !.user = u, !.dev = d,
                                !.key = k, !.nonce = n,
                                !.until = ExpiresAt]]
  /\ disturbed' = disturbed \cup Counting(u, a)
                    \cup (IF suspended[u] THEN {a} ELSE {})
  /\ UNCHANGED <<server, now, suspended, tokens, faults, admins>>

\* A request to verify arrives a second time, as b.
Resend(a, b) ==
  /\ InFlight(a) \/ attempt[a].pc \in {"done", "failed"}
  /\ attempt[b].pc = "idle"
  /\ attempt' = [attempt EXCEPT ![b] =
                   [attempt[a] EXCEPT !.pc = "signed", !.popped = None]]
  /\ disturbed' = disturbed \cup {b}
  /\ UNCHANGED <<server, now, suspended, challenges, tokens, faults, offered,
                 admins>>

-----------------------------------------------------------------------------
(* POST /auth/verify *)

\* The entry of the user is taken (or left, if taken is FALSE), and found good
\* or not.
Pop(a, good, taken) ==
  LET u == attempt[a].user IN
  /\ config # None
  /\ attempt[a].pc = "signed"
  /\ challenges' = IF taken THEN [challenges EXCEPT ![u] = None] ELSE challenges
  /\ attempt' = IF good
                THEN [attempt EXCEPT ![a].pc = "user",
                                     ![a].popped = challenges[u].nonce]
                ELSE [attempt EXCEPT ![a].pc = "failed"]
  /\ disturbed' = disturbed \cup Counting(u, a)
  /\ UNCHANGED <<server, now, suspended, tokens, faults, offered, admins>>

Open(u) == challenges[u] # None

\* Mutants of VerifyPop: the entry is read and left; it has expired in the
\* second that is still allowed.
VerifyPopKeeps(a) ==
  LET u == attempt[a].user IN
  Pop(a, Open(u) /\ now <= challenges[u].expires_at, FALSE)
VerifyPopEarly(a) ==
  LET u == attempt[a].user IN
  Pop(a, Open(u) /\ now < challenges[u].expires_at, TRUE)

\* The challenge is popped before anything else is looked at.
VerifyPop(a) ==
  LET u == attempt[a].user IN
  Pop(a, Open(u) /\ now <= challenges[u].expires_at, TRUE)

\* get_user, and with it the device and its signature over the popped nonce.
VerifyUser(a) ==
  LET t == attempt[a] IN
  /\ t.pc = "user"
  /\ IF /\ ~suspended[t.user]
        /\ Owner[t.dev] = t.user
        /\ t.key = t.dev /\ t.nonce = t.popped
     THEN Goto(a, "issue")
     ELSE Goto(a, "failed")
  /\ UNCHANGED <<server, now, suspended, challenges, tokens, faults, history>>

\* The token is signed and returned.
VerifyIssue(a) ==
  LET t == attempt[a] IN
  /\ t.pc = "issue"
  /\ tokens' = tokens \cup
       {[user |-> t.user, dev |-> t.dev, nonce |-> t.popped, by |-> a]}
  /\ Goto(a, "done")
  /\ UNCHANGED <<server, now, suspended, challenges, faults, history>>

-----------------------------------------------------------------------------
(* The administrator, faults and time *)

\* suspend_user or unsuspend_user with the given x-admin-key.
Administer(provided, u, b) ==
  /\ RequireAdminKey(provided)
  /\ suspended' = [suspended EXCEPT ![u] = b]
  /\ admins' = admins \cup {provided}
  /\ disturbed' = disturbed \cup {a \in Attempts : attempt[a].user = u}
  /\ UNCHANGED <<server, now, challenges, attempt, tokens, faults, offered>>

Fault == faults < MaxFaults /\ faults' = faults + 1

\* The client or its request is cut off.
Cancel(a) ==
  /\ InFlight(a)
  /\ Fault
  /\ Goto(a, "failed")
  /\ disturbed' = disturbed \cup {a}
  /\ UNCHANGED <<server, now, suspended, challenges, tokens, offered, admins>>

\* The process stops: the challenge map and the handlers are gone, a client
\* that is between its two requests does not notice yet.
Crash ==
  /\ Stop
  /\ Fault
  /\ challenges' = [u \in Users |-> None]
  /\ attempt' = [a \in Attempts |->
                   IF attempt[a].pc \in {"user", "issue"}
                   THEN [attempt[a] EXCEPT !.pc = "failed"] ELSE attempt[a]]
  /\ disturbed' = disturbed \cup {a \in Attempts : InFlight(a)}
  /\ UNCHANGED <<now, suspended, tokens, offered, admins>>

\* Nobody listens: authenticate() raises.
Unreachable(a) ==
  /\ config = None
  /\ attempt[a].pc = "signed"
  /\ Goto(a, "failed")
  /\ UNCHANGED <<server, now, suspended, challenges, tokens, faults, history>>

Restart ==
  /\ Start
  /\ UNCHANGED <<now, suspended, challenges, attempt, tokens, faults, history>>

EditSources(s) ==
  /\ Edit(s)
  /\ UNCHANGED <<now, suspended, challenges, attempt, tokens, faults, history>>

\* Time runs out for those who have not posted in time.
Tick ==
  /\ now < MaxNow
  /\ now' = now + 1
  /\ disturbed' = disturbed \cup
       {a \in Attempts : attempt[a].pc = "signed" /\ now' > attempt[a].until}
  /\ UNCHANGED <<server, suspended, challenges, attempt, tokens, faults,
                 offered, admins>>

-----------------------------------------------------------------------------
Init ==
  /\ ServerInit
  /\ now = 0
  /\ suspended = [u \in Users |-> FALSE]
  /\ challenges = [u \in Users |-> None]
  /\ attempt = [a \in Attempts |-> Idle]
  /\ tokens = {}
  /\ faults = 0
  /\ offered = [n \in Nonces |-> None]
  /\ admins = {}
  /\ disturbed = {}

\* authenticate() goes on.
Resume(a) == VerifyPop(a) \/ VerifyUser(a) \/ VerifyIssue(a) \/ Unreachable(a)

Next ==
  \/ \E a \in Attempts :
       \/ \E u \in Users, d \in Devices, k \in Devices \cup {None}, n \in Nonces :
            RequestChallenge(a, u, d, k, n)
       \/ \E b \in Attempts : Resend(a, b)
       \/ Resume(a)
       \/ Cancel(a)
  \/ \E provided \in Values, u \in Users, b \in BOOLEAN :
       Administer(provided, u, b)
  \/ \E s \in Sources : EditSources(s)
  \/ Restart
  \/ Crash
  \/ Tick

Spec == Init /\ [][Next]_vars

-----------------------------------------------------------------------------
\* Every variable has the type its table, map or client gives it.
TypeOK ==
  /\ ServerTypeOK
  /\ now \in Nat
  /\ suspended \in [Users -> BOOLEAN]
  /\ challenges \in [Users -> Challenge \cup {None}]
  /\ attempt \in [Attempts -> Attempt]
  /\ tokens \subseteq Token
  /\ faults \in 0 .. MaxFaults
  /\ offered \in [Nonces -> Users \cup {None}]
  /\ admins \subseteq Values
  /\ disturbed \subseteq Attempts

\* The challenge map implements a one-time login: whatever challenges replace
\* each other, requests arrive twice or restarts empty the map, verify() issues
\* at most one token for a nonce, to a device of the user it was made for whose
\* key signed it.
OneTime == INSTANCE OneTimeLogin WITH
  signed <- {<<attempt[a].nonce, attempt[a].key>> :
               a \in {b \in Attempts : attempt[b].pc # "idle"}},
  granted <- {<<t.nonce, t.dev, t.by>> : t \in tokens}

LoginIsOneTime == OneTime!Spec

\* The right key for the right device.
Honest(a) == Owner[attempt[a].dev] = attempt[a].user
               /\ attempt[a].key = attempt[a].dev

\* A login with the right key fails only for a reason outside it: another
\* challenge or verify for the same user came between its two requests, it was
\* sent twice, its time ran out, the user was or is suspended, or a fault.
FailedLoginsExplained ==
  \A a \in Attempts :
    attempt[a].pc = "failed" /\ Honest(a) => a \in disturbed

\* A missing x-admin-key reads as the empty string and a missing api_key as
\* the empty string too; validate() keeps the two from ever meeting.
AdminNeedsKey == Empty \notin admins
=============================================================================
