------------------------------ MODULE Pairing ------------------------------
(***************************************************************************)
(* Two users of the client library pair up over the server: the calls      *)
(* initiate_exchange, respond_to_exchange and complete_exchange of         *)
(* smqtt_client.py, each a sequence of HTTP requests, composed with the    *)
(* handlers of Exchange that serve them.                                   *)
(*                                                                         *)
(* A client is synchronous: a user has one call under way, call[u], and    *)
(* the call has one request under way, in the slot p with task[p].user =   *)
(* u.  A peer learns the id of an exchange when it is announced, from the  *)
(* notification or from the initiator; if it never does, it never calls.   *)
(* A request that raise_for_status() rejects ends the call.                *)
(***************************************************************************)
EXTENDS Exchange

\* Keys are byte strings, which sorted() compares.
ASSUME PairingAssumption == Keys \subseteq Nat

VARIABLES
  call,          \* the client call of each user
  generated,     \* key pairs generated so far
  pending,       \* what initiate_exchange returned: user, id and key
  relationships, \* POST /relationships accepted, with the role of its user
  cut            \* history: ids of calls that a fault ended

client == <<call, generated, pending, relationships, cut>>
pairingVars == <<vars, client>>

-----------------------------------------------------------------------------
Roles == {"initiator", "responder"}

\* fetched: respond_to_exchange has the initiator's key; relate: the secret
\* is derived.  The others wait for the request they are named after.
CallStage == {"idle", "initiate", "fetched", "respond", "get", "relate"}

\* key is the caller's key, peer and peer_key are what the server said.
Call == [pc : CallStage, role : Roles, id : Ids \cup {None},
         key : Keys \cup {None}, peer : Users \cup {None},
         peer_key : Keys \cup {None}]

NoCall == [pc |-> "idle", role |-> "initiator", id |-> None, key |-> None,
           peer |-> None, peer_key |-> None]

\* A secret is named by its salt: the salt names the two key pairs, and with
\* them the raw Diffie-Hellman secret, which is the same from both ends.
Secret == Keys \X Keys
Topic == [from : Users, to : Users, topic_seed : Secret]
Relationship == [user : Users, peer : Users, publish_topic : Topic,
                 subscribe_topic : Topic, role : Roles, id : Ids]

\* X25519Private.generate().
Generate(u, k) ==
  /\ Holder[k] = u /\ k \notin generated
  /\ generated' = generated \cup {k}

SetCall(u, c) == call' = [call EXCEPT ![u] = c]
CallGoto(u, pc) == call' = [call EXCEPT ![u].pc = pc]
EndCall(u) == SetCall(u, NoCall)

\* Mutant: the salt starts with the caller's own key.
DeriveUnsorted(my_pub, peer_pub) == <<my_pub, peer_pub>>

\* SharedSecret.derive.
Derive(my_pub, peer_pub) ==
  IF my_pub <= peer_pub THEN <<my_pub, peer_pub>> ELSE <<peer_pub, my_pub>>

OutboundTopic(s, me, peer) == [from |-> me, to |-> peer, topic_seed |-> s]

InboundTopic(s, me, peer) == [from |-> peer, to |-> me, topic_seed |-> s]

-----------------------------------------------------------------------------
(* initiate_exchange *)

CallInitiate(p, u, v, k, id) ==
  /\ call[u].pc = "idle"
  /\ Generate(u, k)
  /\ InitiateInsert(p, u, v, k, id)
  /\ SetCall(u, [NoCall EXCEPT !.pc = "initiate", !.id = id, !.key = k])
  /\ UNCHANGED <<pending, relationships, cut>>

Initiated(p) ==
  LET u == task[p].user IN
  /\ InitiateNotify(p)
  /\ pending' = pending \cup
       {[user |-> u, id |-> task[p].id, key |-> task[p].key]}
  /\ EndCall(u)
  /\ UNCHANGED <<generated, relationships, cut>>

-----------------------------------------------------------------------------
(* respond_to_exchange *)

Announced(u, id) ==
  \E m \in published :
    m.to = u /\ m.type = "pending_exchange" /\ m.exchange_id = id

\* GET /exchange/:id by the responder, who then makes a key of its own.
Fetch(u, k, id) ==
  /\ call[u].pc = "idle"
  /\ Announced(u, id) /\ Exists(id)
  /\ Generate(u, k)
  /\ SetCall(u, [pc |-> "fetched", role |-> "responder", id |-> id, key |-> k,
                 peer |-> rows[id].initiator_id,
                 peer_key |-> rows[id].initiator_pubkey])
  /\ UNCHANGED <<vars, pending, relationships, cut>>

\* Mutant of Post: the secret can be derived now, and is.
PostUnneeded(p, u) ==
  /\ call[u].pc = "fetched"
  /\ CallGoto(u, "relate")
  /\ UNCHANGED <<vars, generated, pending, relationships, cut>>

\* POST /exchange/:id/respond ...
Post(p, u) ==
  /\ call[u].pc = "fetched"
  /\ RespondRead(p, u, call[u].key, call[u].id)
  /\ CallGoto(u, "respond")
  /\ UNCHANGED <<generated, pending, relationships, cut>>

\* ... is refused if the record is gone or has an answer ...
PostRefused(u) ==
  /\ call[u].pc = "fetched"
  /\ ~Exists(call[u].id) \/ Answered(call[u].id)
  /\ EndCall(u)
  /\ UNCHANGED <<vars, generated, pending, relationships, cut>>

\* ... or goes before the UPDATE ...
PostUpdate(p) ==
  /\ RespondUpdate(p)
  /\ IF Exists(task[p].id) THEN call' = call ELSE EndCall(task[p].user)
  /\ UNCHANGED <<generated, pending, relationships, cut>>

\* ... or is answered.
Posted(p) ==
  /\ RespondReply(p)
  /\ CallGoto(task[p].user, "relate")
  /\ UNCHANGED <<generated, pending, relationships, cut>>

-----------------------------------------------------------------------------
(* complete_exchange; it returns None as long as there is no answer *)

Ask(p, c, answered) ==
  /\ call[c.user].pc = "idle"
  /\ answered
  /\ GetRead(p, c.user, c.id)
  /\ SetCall(c.user, [NoCall EXCEPT !.pc = "get", !.id = c.id, !.key = c.key])
  /\ UNCHANGED <<generated, pending, relationships, cut>>

\* Mutant: None is returned for the wrong answer.
CompleteInverted(p, c) == Ask(p, c, ~Answered(c.id))

Complete(p, c) == Ask(p, c, Answered(c.id))

Receive(p, peer, peer_key) ==
  LET u == task[p].user IN
  /\ GetReply(p)
  /\ SetCall(u, [call[u] EXCEPT !.pc = "relate", !.peer = peer,
                               !.peer_key = peer_key])
  /\ UNCHANGED <<generated, pending, relationships, cut>>

\* Mutant: the fields of the answer are mixed up.
CompletedMixedUp(p) ==
  Receive(p, task[p].row.responder_pubkey, task[p].row.responder_pubkey)

Completed(p) ==
  Receive(p, task[p].row.responder_id, task[p].row.responder_pubkey)

\* _create_relationship.
Relate(u) ==
  LET c == call[u]
      s == Derive(c.key, c.peer_key) IN
  /\ c.pc = "relate"
  /\ relationships' = relationships \cup
       {[user |-> u, peer |-> c.peer, role |-> c.role, id |-> c.id,
         publish_topic |-> OutboundTopic(s, u, c.peer),
         subscribe_topic |-> InboundTopic(s, u, c.peer)]}
  /\ EndCall(u)
  /\ UNCHANGED <<vars, generated, pending, cut>>

-----------------------------------------------------------------------------
(* Faults *)

\* The calls of the users in S end with an exception.
CutCalls(S) ==
  /\ call' = [u \in Users |-> IF u \in S THEN NoCall ELSE call[u]]
  /\ cut' = cut \cup {call[u].id : u \in S}
  /\ UNCHANGED <<generated, pending, relationships>>

\* A request is dropped, or one of its database calls fails.
CancelRequest(p) == Cancel(p) /\ CutCalls({task[p].user})

\* initiate() announces the exchange and its answer does not arrive.
Unheard(p) ==
  /\ task[p].pc = "i_notify"
  /\ Fault
  /\ Publish(task[p].row.responder_id, "pending_exchange", task[p].id)
  /\ Return(p)
  /\ CutCalls({task[p].user})
  /\ UNCHANGED <<now, rows, replies, timer, purged, lost>>

\* The client ends between two requests, or the next one fails outright.
Abort(u) ==
  /\ call[u].pc \in {"fetched", "relate"}
  /\ Fault
  /\ CutCalls({u})
  /\ UNCHANGED <<now, rows, published, replies, task, timer, purged, lost>>

\* The server stops and starts again; clients between two requests carry on.
CrashServer ==
  Crash /\ CutCalls({task[p].user : p \in {q \in Procs : task[q].pc # "idle"}})

-----------------------------------------------------------------------------
PairingInit ==
  /\ Init
  /\ call = [u \in Users |-> NoCall]
  /\ generated = {}
  /\ pending = {}
  /\ relationships = {}
  /\ cut = {}

\* Steps of the server that no client notices.
Serve(p) ==
  /\ RespondNotify(p) \/ GetDelete(p)
  /\ UNCHANGED client

\* A call under way goes on.
Continue(u) ==
  \/ Relate(u)
  \/ PostRefused(u)
  \/ \E p \in Procs :
       \/ Post(p, u)
       \/ /\ task[p].user = u
          /\ Initiated(p) \/ PostUpdate(p) \/ Posted(p) \/ Completed(p)
             \/ Serve(p)

PairingNext ==
  \/ \E u \in Users :
       \/ \E p \in Procs, v \in Users \ {u}, k \in Keys, id \in Ids :
            CallInitiate(p, u, v, k, id)
       \/ \E k \in Keys, id \in Ids : Fetch(u, k, id)
       \/ Continue(u)
       \/ Abort(u)
  \/ \E p \in Procs :
       \/ \E c \in pending : Complete(p, c)
       \/ DeleteFails(p) /\ UNCHANGED client
       \/ CancelRequest(p)
       \/ Unheard(p)
  \/ CrashServer
  \/ (Purge \/ PurgeFails \/ Tick) /\ UNCHANGED client

PairingSpec == PairingInit /\ [][PairingNext]_pairingVars

\* The server runs the handler of a request to its end, a client runs
\* straight-line code, and who has started exchanges asks for an outcome that
\* is there again and again.  Nothing is assumed of the purge.
PairingFairSpec ==
  /\ PairingSpec
  /\ \A u \in Users : WF_pairingVars(Continue(u))
  /\ \A u \in Users : WF_pairingVars(
       \E p \in Procs, c \in pending : c.user = u /\ Complete(p, c))

-----------------------------------------------------------------------------
\* Every variable has the type its client object or table gives it.
PairingTypeOK ==
  /\ TypeOK
  /\ call \in [Users -> Call]
  /\ generated \subseteq Keys
  /\ pending \subseteq [user : Users, id : Ids, key : Keys]
  /\ relationships \subseteq Relationship
  /\ cut \subseteq Ids

\* The topics of a relationship, the initiator's first.
Channel(r) == IF r.role = "initiator"
              THEN <<r.publish_topic, r.subscribe_topic>>
              ELSE <<r.subscribe_topic, r.publish_topic>>

Channels ==
  {<<OutboundTopic(s, u, v), InboundTopic(s, u, v)>> :
     s \in {Derive(j, k) : j, k \in Keys}, u, v \in Users}

\* The ends of each exchange that have a relationship, and their channel.
Settled ==
  [id \in Ids |->
     {<<r.role, Channel(r)>> : r \in {q \in relationships : q.id = id}}]

\* "Both parties derive identical material independently" (smqtt_client.py) and
\* "topics match across both sides" (smoke_test.py): however requests, purge and
\* faults interleave, the two ends of an exchange register relationships with
\* one secret, and each publishes to what the other subscribes to.
Agreed == INSTANCE Agreement WITH Values <- Channels, settled <- Settled

PairsAgree == Agreed!Spec

Related(role, id) == \E r \in relationships : r.role = role /\ r.id = id

\* Somebody is still at work on the exchange.
Busy(id) == \E u \in Users : call[u].pc # "idle" /\ call[u].id = id

Spoilt(id) == id \in purged \cup lost \cup cut

\* The responder registers its relationship before the initiator can know of
\* it, in requests of their own.  One end is left with a relationship the
\* other does not have only while the answer waits to be fetched, or because
\* the exchange expired first or a fault ended a call.
OneSidedExplained ==
  \A id \in Ids :
    Related("initiator", id) # Related("responder", id) =>
      Busy(id) \/ Answered(id) \/ Spoilt(id)

\* The same for an initiator that keeps asking: it does get its end.  Ends that
\* are registered stay so, and what is spoilt stays spoilt, so that a moment at
\* which no responder is left alone comes again and again exactly if each of
\* them is joined in the end.
ResponderIsNotLeftAlone ==
  []<>(\A id \in Ids :
         Related("responder", id) => Related("initiator", id) \/ Spoilt(id))
=============================================================================
