----------------------------- MODULE HyperRelay -----------------------------
(***************************************************************************)
(* One topic of the hyper-nostr relay (server.js, swarm.js, db.js): the    *)
(* websocket connections, the swarm they are attached to, their            *)
(* subscriptions, the queries those start, and the event collection.       *)
(*                                                                         *)
(* All of it runs on one JavaScript event loop.  A handler runs without    *)
(* interruption up to its next await, so an action below is the code       *)
(* between two awaits: what was read before one may be stale after it.     *)
(* Topics share nothing, so one is enough.  A handler that throws ends the *)
(* process, as nothing catches it; such messages (no JSON, an event        *)
(* without tags) are not sent here.                                        *)
(***************************************************************************)
EXTENDS Naturals, FiniteSets, Functions

CONSTANTS
  Events,      \* events that clients publish
  Valid,       \* those that nostr-tools' validateEvent and verifySignature pass
  Kind,        \* kind, pubkey and created_at of each event
  PubKey,
  CreatedAt,
  Deletes,     \* the events named by the "e" tags of each event
  SameD,       \* SameD[e]: events whose "d" tag has the value e's has
  FilterSets,  \* the filter lists clients send, each a set of filters
  Conns,       \* websocket connections
  IdsOf,       \* the subscription ids each connection uses
  Started,     \* whether the topic is one of the starting topics
  RemoteDBs,   \* databases of other relays, each a set of events
  MaxReqs,     \* bound: REQ messages handled
  MaxEvents    \* bound: events received from clients and peers

Swarms == 1 .. Cardinality(Conns) + 1
Reqs == 1 .. MaxReqs
SubIds == UNION {IdsOf[c] : c \in Conns}

(* A document keeps the _id it was inserted with, <<n, e>> for event e by  *)
(* the n-th event received here, or by another relay (0), while updates    *)
(* put other events in it.                                                 *)
Docs == [_id : (0 .. MaxEvents) \X Events, event : Events]
Doc(n, e) == [_id |-> <<n, e>>, event |-> e]

(* A filter is given by the events that its ids, kinds, authors, since and *)
(* until accept, those with one of the values of each tag it names (what   *)
(* validateEvent asks of them), those with all the values (what a query    *)
(* asks: $all), and its limit.                                             *)
ASSUME HyperAssumption ==
  /\ \A fs \in FilterSets : \A f \in fs :
       /\ f.plain \subseteq Events /\ f.tagged \subseteq Events
       /\ f.alltags \subseteq Events /\ f.limit \in Nat
  /\ Valid \subseteq Events
  /\ Started \in BOOLEAN /\ MaxReqs \in Nat /\ MaxEvents \in Nat
  /\ RemoteDBs \subseteq SUBSET Events
  /\ IsFiniteSet(Conns)

VARIABLES
  conn,      \* each connection: "off", "creating", "aborted", "on" or "closed"
  swarm,     \* the swarm a connection is attached to (0: none)
  entry,     \* topics.get(topic): the registered swarm (0: none)
  made,      \* number of swarms whose creation has begun
  subs,      \* subscriptions of each swarm: id -> subscription (0: none)
  sub,       \* the subscription objects, by the REQ that made them
  reqs,      \* number of REQ messages handled
  queries,   \* queries that have not delivered yet
  view,      \* the documents of the event collection, as each swarm sees them
  writes,    \* the calls of handleEvent that have not ended
  linked,    \* remote databases that are inputs of each swarm's autobase
  received,  \* history: number of events received from clients and peers
  accepted,  \* history: events answered with OK
  removed    \* history: events deleted from or replaced in the collection

topicVars == <<conn, swarm, entry, made>>
subVars == <<subs, sub, reqs, queries>>
dbVars == <<view, writes, linked, accepted, removed, received>>
vars == <<conn, swarm, entry, made, subs, sub, reqs, queries, view, writes,
          linked, accepted, removed, received>>

-----------------------------------------------------------------------------
(* nostr_events.js                                                         *)
getEventType(kind) ==
  CASE kind = 5 -> "delete"
    [] kind \in {0, 3} -> "replaceable"
    [] kind < 10000 /\ kind \notin {0, 3, 5} -> "regular"
    [] kind >= 10000 /\ kind < 20000 -> "replaceable"
    [] kind >= 20000 /\ kind < 30000 -> "ephemeral"
    [] kind >= 30000 /\ kind < 40000 -> "parameterized replaceable"
    [] OTHER -> "undefined"

isPersistent(e) ==
  getEventType(Kind[e]) \in
    {"regular", "delete", "replaceable", "parameterized replaceable"}

(* validateEvent(event, filters): `a && b && filters ? match : true'.  An  *)
(* event that fails the checks passes, and of the conditions of a filter   *)
(* only the tags count, no other key being `in validateEvent'.             *)
validateEvent(e, fs) == e \in Valid => \E f \in fs : e \in f.tagged

(* What the client asks for: all the conditions of one of its filters.     *)
Matches(e, fs) == \E f \in fs : e \in f.plain /\ e \in f.tagged

(* db.js.  The queries differ from that in the tags.                       *)
buildQueries(e, fs) == \E f \in fs : e \in f.plain /\ e \in f.alltags

stored(s) == {d.event : d \in view[s]}
queryArray(s, fs) == {e \in stored(s) : fs = {} \/ buildQueries(e, fs)}

(* The first k by created_at, the newest first; of events of the same time *)
(* the one that the collection has first, whichever that is.               *)
Newest(S, k) ==
  {T \in SUBSET S :
     /\ Cardinality(T) = IF Cardinality(S) < k THEN Cardinality(S) ELSE k
     /\ \A e \in T, d \in S \ T : CreatedAt[e] >= CreatedAt[d]}

(* What a query may return.  No filter finds everything.  Math.max of a    *)
(* list of two or more limits is NaN, and only a limit > 0 cuts the result.*)
queryEvents(s, fs, hasLimit) ==
  LET limit == IF Cardinality(fs) = 1 THEN (CHOOSE f \in fs : TRUE).limit ELSE 0
  IN  IF hasLimit /\ limit > 0 THEN Newest(queryArray(s, fs), limit) ELSE {queryArray(s, fs)}

(* Mutant: what was sent is not remembered.                                *)
SendsAgain(o, E) ==
  [o EXCEPT !.sent = [e \in Events |-> @[e] + IF e \in E THEN 1 ELSE 0]]

(* sendEventTo, for a set of events: each one that is not in receivedEvents*)
(* is sent and added to it.  `sent' counts what went out.                  *)
sendEventsTo(o, E) ==
  [o EXCEPT !.receivedEvents = @ \cup E,
            !.sent = [e \in Events |-> @[e] + IF e \in E \ o.receivedEvents
                                               THEN 1 ELSE 0]]

(* streamEvent: every subscription of the swarm that the event passes.     *)
streamEvent(s, e) ==
  [r \in Reqs |->
     IF r \in Range(subs[s]) /\ validateEvent(e, sub[r].filters)
     THEN sendEventsTo(sub[r], {e}) ELSE sub[r]]

-----------------------------------------------------------------------------
NoSub == [conn |-> "none", id |-> "none", filters |-> {}, receivedEvents |-> {},
          sent |-> [e \in Events |-> 0], eose |-> 0, swarm |-> 0,
          open |-> FALSE, base |-> {}, due |-> {}]

(* The topics given on the command line are set up before the relay        *)
(* listens; any other has no swarm yet.                                    *)
Init ==
  /\ conn = [c \in Conns |-> "off"]
  /\ swarm = [c \in Conns |-> 0]
  /\ made = IF Started THEN 1 ELSE 0
  /\ entry = made
  /\ subs = [s \in Swarms |-> [i \in SubIds |-> 0]]
  /\ sub = [r \in Reqs |-> NoSub]
  /\ reqs = 0
  /\ queries = {}
  /\ received = 0 /\ writes = {} /\ accepted = {} /\ removed = {}
  /\ view = [s \in Swarms |-> {}]
  /\ linked = [s \in Swarms |-> {}]

(* wsHandler, up to the await of createSwarm if the topic has none.        *)
Connect(c) ==
  /\ conn[c] = "off"
  /\ \/ /\ entry # 0
        /\ conn' = [conn EXCEPT ![c] = "on"]
        /\ swarm' = [swarm EXCEPT ![c] = entry]
        /\ UNCHANGED made
     \/ /\ entry = 0
        /\ made' = made + 1
        /\ conn' = [conn EXCEPT ![c] = "creating"]
        /\ swarm' = [swarm EXCEPT ![c] = made']
  /\ UNCHANGED <<entry, subVars, dbVars>>

(* wsHandler after the await: the topic's entry is set, or set again, and  *)
(* the listeners are attached to the socket, open or not.                  *)
SwarmCreated(c) ==
  /\ conn[c] \in {"creating", "aborted"}
  /\ entry' = swarm[c]
  /\ conn' = [conn EXCEPT ![c] = IF @ = "creating" THEN "on" ELSE "closed"]
  /\ UNCHANGED <<swarm, made, subVars, dbVars>>

(* A socket that closes before its listeners are attached.                 *)
CloseEarly(c) ==
  /\ conn[c] = "creating"
  /\ conn' = [conn EXCEPT ![c] = "aborted"]
  /\ UNCHANGED <<swarm, entry, made, subVars, dbVars>>

(* Mutant: closing a socket leaves its subscriptions registered.           *)
CloseKeeps(c) ==
  /\ conn[c] = "on"
  /\ conn' = [conn EXCEPT ![c] = "closed"]
  /\ sub' = [r \in Reqs |-> IF sub[r].conn = c THEN [sub[r] EXCEPT !.open = FALSE] ELSE sub[r]]
  /\ UNCHANGED <<swarm, entry, made, subs, reqs, queries, dbVars>>

(* Mutant: closing a socket deletes all subscriptions of the topic.        *)
CloseClears(c) ==
  /\ conn[c] = "on"
  /\ conn' = [conn EXCEPT ![c] = "closed"]
  /\ subs' = [subs EXCEPT ![swarm[c]] = [i \in SubIds |-> 0]]
  /\ sub' = [r \in Reqs |-> IF sub[r].conn = c THEN [sub[r] EXCEPT !.open = FALSE] ELSE sub[r]]
  /\ UNCHANGED <<swarm, entry, made, reqs, queries, dbVars>>

(* 'close': the subscriptions of this socket are deleted.                  *)
CloseConn(c) ==
  /\ conn[c] = "on"
  /\ conn' = [conn EXCEPT ![c] = "closed"]
  /\ subs' = [subs EXCEPT ![swarm[c]] =
                [i \in SubIds |-> IF @[i] # 0 /\ sub[@[i]].conn = c THEN 0 ELSE @[i]]]
  /\ sub' = [r \in Reqs |-> IF sub[r].conn = c THEN [sub[r] EXCEPT !.open = FALSE] ELSE sub[r]]
  /\ UNCHANGED <<swarm, entry, made, reqs, queries, dbVars>>

(* History: the subscriptions that should get event e from now on are the  *)
(* ones their client holds open and whose filters it matches.              *)
Expect(e, subn) ==
  [r \in Reqs |->
     IF subn[r].open /\ e \in Valid /\ Matches(e, subn[r].filters)
     THEN [subn[r] EXCEPT !.due = @ \cup {e}] ELSE subn[r]]

(* An EVENT message: stream it, start storing it, answer OK.  The answer   *)
(* does not wait for the database.  An event of unknown kind gets a        *)
(* NOTICE; validateEvent without filters turns nothing away.               *)
ReceiveEvent(c, e) ==
  /\ conn[c] = "on"
  /\ received < MaxEvents
  /\ received' = received + 1
  /\ getEventType(Kind[e]) # "undefined"
  /\ sub' = Expect(e, streamEvent(swarm[c], e))
  /\ writes' = writes \cup
       IF isPersistent(e)
       THEN {[n |-> received', swarm |-> swarm[c], event |-> e, found |-> FALSE, ids |-> {}]}
       ELSE {}
  /\ accepted' = accepted \cup {e}
  /\ UNCHANGED <<topicVars, subs, reqs, queries, view, linked, removed>>

(* hyperdeebee, each of whose calls is taken as one step: update or delete *)
(* of the documents with the given _ids that the collection still has;     *)
(* each holds e afterwards for e in E.  Writes go to the local input,      *)
(* which all swarms of the topic read.                                     *)
Put(s, ids, E) ==
  LET here == {d._id : d \in view[s]} \cap ids
  IN  view' = [t \in Swarms |-> {d \in view[t] : d._id \notin here}
                                  \cup {[_id |-> i, event |-> e] : i \in here, e \in E}]
Insert(w) ==
  view' = [t \in Swarms |-> view[t] \cup {Doc(w.n, w.event)}]

(* Mutant of Found: a delete event is honoured whoever signed it.          *)
FoundByAnyone(s, e) ==
  {d._id : d \in {x \in view[s] :
     \/ getEventType(Kind[e]) = "delete" /\ x.event \in Deletes[e]
     \/ /\ PubKey[x.event] = PubKey[e] /\ Kind[x.event] = Kind[e]
        /\ getEventType(Kind[e]) # "delete"
        /\ getEventType(Kind[e]) = "replaceable" \/ x.event \in SameD[e]}}

(* The documents an event of each type acts on.                            *)
Found(s, e) ==
  {d._id : d \in {x \in view[s] :
     /\ PubKey[x.event] = PubKey[e]
     /\ \/ getEventType(Kind[e]) = "delete" /\ x.event \in Deletes[e]
        \/ getEventType(Kind[e]) = "replaceable" /\ Kind[x.event] = Kind[e]
        \/ /\ getEventType(Kind[e]) = "parameterized replaceable"
           /\ Kind[x.event] = Kind[e] /\ x.event \in SameD[e]}}

(* Mutant of Store: a replaceable event only ever replaces another.        *)
StoreUpdates(w) ==
  /\ getEventType(Kind[w.event]) \in {"regular", "replaceable"}
  /\ writes' = writes \ {w}
  /\ IF getEventType(Kind[w.event]) = "regular"
     THEN Insert(w) ELSE Put(w.swarm, Found(w.swarm, w.event), {w.event})

(* A regular event is inserted; a replaceable one goes into the document   *)
(* of the same author and kind, whichever of the two is newer, or is       *)
(* inserted if there is none.                                              *)
Store(w) ==
  /\ getEventType(Kind[w.event]) \in {"regular", "replaceable"}
  /\ writes' = writes \ {w}
  /\ LET ids == Found(w.swarm, w.event)
     IN  IF ids = {} THEN Insert(w) ELSE Put(w.swarm, ids, {w.event})

(* A delete or parameterized replaceable event: first find, with nothing   *)
(* left to do if there is nothing.  (For the latter, too: `originalEvents' *)
(* is a list, true even when it is empty, so that such an event only ever  *)
(* replaces one that is there.)                                            *)
Find(w) ==
  /\ getEventType(Kind[w.event]) \in {"delete", "parameterized replaceable"}
  /\ ~w.found
  /\ LET ids == Found(w.swarm, w.event)
     IN  writes' = (writes \ {w}) \cup
                     IF ids = {} THEN {} ELSE {[w EXCEPT !.found = TRUE, !.ids = ids]}
  /\ UNCHANGED view

(* Then delete or update one document after the other, by its _id, with    *)
(* an await in between: what it holds may have changed since it was found. *)
ChangeOne(w) ==
  /\ w.found
  /\ \E i \in w.ids :
       /\ Put(w.swarm, {i}, IF getEventType(Kind[w.event]) = "delete" THEN {} ELSE {w.event})
       /\ writes' = (writes \ {w}) \cup
                      IF w.ids = {i} THEN {} ELSE {[w EXCEPT !.ids = @ \ {i}]}

handleEvent(w) ==
  /\ w \in writes
  /\ Store(w) \/ Find(w) \/ ChangeOne(w)
  /\ removed' = removed \cup UNION {stored(s) \ stored(s)' : s \in Swarms}
  /\ UNCHANGED <<topicVars, subVars, linked, accepted, received>>

(* A REQ message: the subscription replaces whatever its id stood for, and *)
(* its query begins.                                                       *)
ReceiveReq(c, i, fs) ==
  LET r == reqs + 1
      own(o) == o.conn = c /\ o.id = i
  IN  /\ conn[c] = "on"
      /\ r \in Reqs
      /\ i \in IdsOf[c]
      /\ reqs' = r
      /\ subs' = [subs EXCEPT ![swarm[c]][i] = r]
      /\ sub' = [q \in Reqs |->
                   IF q = r
                   THEN [NoSub EXCEPT !.conn = c, !.id = i, !.filters = fs,
                           !.swarm = swarm[c], !.open = TRUE,
                           !.base = queryArray(swarm[c], fs)]
                   ELSE IF own(sub[q]) THEN [sub[q] EXCEPT !.open = FALSE] ELSE sub[q]]
      /\ queries' = queries \cup
           {[req |-> r, first |-> TRUE, phase |-> "update", result |-> {}]}
      /\ UNCHANGED <<topicVars, dbVars>>

(* A CLOSE message deletes the subscription with that id, whose ever it is.*)
ReceiveClose(c, i) ==
  /\ conn[c] = "on"
  /\ i \in IdsOf[c]
  /\ subs' = [subs EXCEPT ![swarm[c]][i] = 0]
  /\ sub' = [r \in Reqs |-> IF sub[r].conn = c /\ sub[r].id = i
                            THEN [sub[r] EXCEPT !.open = FALSE] ELSE sub[r]]
  /\ UNCHANGED <<topicVars, reqs, queries, dbVars>>

(* queryEvents reads the database, after waiting for view.update().        *)
RunQuery(q) ==
  /\ q \in queries
  /\ q.phase = "update"
  /\ \E E \in queryEvents(sub[q.req].swarm, sub[q.req].filters, q.first) :
       queries' = (queries \ {q}) \cup {[q EXCEPT !.phase = "found", !.result = E]}
  /\ UNCHANGED <<topicVars, subs, sub, reqs, dbVars>>

(* Mutant: EOSE does not wait for the events of the query.                 *)
EoseTooSoon(q) ==
  /\ q \in queries
  /\ q.phase = "found"
  /\ queries' = IF q.first THEN (queries \ {q}) \cup {[q EXCEPT !.first = FALSE]}
                           ELSE queries \ {q}
  /\ sub' = [sub EXCEPT ![q.req] =
               IF q.first THEN [@ EXCEPT !.eose = @ + 1] ELSE sendEventsTo(@, q.result)]
  /\ UNCHANGED <<topicVars, subs, reqs, dbVars>>

(* Mutant: a query whose subscription is gone is dropped.                  *)
DeliverIfRegistered(q) ==
  /\ q \in queries
  /\ q.phase = "found"
  /\ queries' = queries \ {q}
  /\ sub' = [sub EXCEPT ![q.req] =
               IF q.req \in Range(subs[@.swarm])
               THEN [sendEventsTo(@, q.result) EXCEPT !.eose = @ + IF q.first THEN 1 ELSE 0]
               ELSE @]
  /\ UNCHANGED <<topicVars, subs, reqs, dbVars>>

(* sendQueryToSubscription's then: the result goes to the subscription the *)
(* query was made for, still registered or not; a REQ ends with EOSE.      *)
DeliverQuery(q) ==
  /\ q \in queries
  /\ q.phase = "found"
  /\ queries' = queries \ {q}
  /\ LET o == sendEventsTo(sub[q.req], q.result)
     IN  sub' = [sub EXCEPT ![q.req] =
                   [o EXCEPT !.eose = @ + IF q.first THEN 1 ELSE 0]]
  /\ UNCHANGED <<topicVars, subs, reqs, dbVars>>

(* The events extension: a peer streams an event it has accepted.          *)
ReceiveFromPeer(s, e) ==
  /\ s \in 1..made
  /\ received < MaxEvents
  /\ received' = received + 1
  /\ sub' = streamEvent(s, e)
  /\ UNCHANGED <<topicVars, subs, reqs, queries, view, writes, linked, accepted, removed>>

(* Mutant: ids without a subscription are queried too.                     *)
NewDBAllIds(s, D) ==
  /\ s \in 1..made
  /\ D \notin linked[s]
  /\ linked' = [linked EXCEPT ![s] = @ \cup {D}]
  /\ view' = [view EXCEPT ![s] = @ \cup {Doc(0, e) : e \in D}]
  /\ queries' = queries \cup
       {[req |-> r, first |-> FALSE, phase |-> "update", result |-> {}]
          : r \in Range(subs[s])}
  /\ UNCHANGED <<topicVars, subs, sub, reqs, writes, accepted, removed,
                 received>>

(* handleNewDB after its awaits: the new input can be read, and every      *)
(* subscription is queried again, without a limit.                         *)
NewDB(s, D) ==
  /\ s \in 1..made
  /\ D \notin linked[s]
  /\ linked' = [linked EXCEPT ![s] = @ \cup {D}]
  /\ view' = [view EXCEPT ![s] = @ \cup {Doc(0, e) : e \in D}]
  /\ queries' = queries \cup
       {[req |-> r, first |-> FALSE, phase |-> "update", result |-> {}]
          : r \in Range(subs[s]) \ {0}}
  /\ UNCHANGED <<topicVars, subs, sub, reqs, writes, accepted, removed,
                 received>>

Next ==
  \/ \E c \in Conns : Connect(c) \/ SwarmCreated(c) \/ CloseEarly(c) \/ CloseConn(c)
  \/ \E c \in Conns, e \in Events : ReceiveEvent(c, e)
  \/ \E w \in writes : handleEvent(w)
  \/ \E c \in Conns, i \in SubIds, fs \in FilterSets : ReceiveReq(c, i, fs)
  \/ \E c \in Conns, i \in SubIds : ReceiveClose(c, i)
  \/ \E q \in queries : RunQuery(q) \/ DeliverQuery(q)
  \/ \E s \in Swarms, e \in UNION RemoteDBs : ReceiveFromPeer(s, e)
  \/ \E s \in Swarms, D \in RemoteDBs : NewDB(s, D)

(* The event loop resumes every handler whose promise has been resolved,   *)
(* and the database resolves its promises.  Clients and peers do as they   *)
(* like.                                                                   *)
Fairness ==
  /\ \A r \in Reqs : WF_vars(\E q \in queries : q.req = r /\ RunQuery(q))
  /\ \A r \in Reqs : WF_vars(\E q \in queries : q.req = r /\ DeliverQuery(q))
  /\ \A n \in 1 .. MaxEvents : WF_vars(\E w \in writes : w.n = n /\ handleEvent(w))

Spec == Init /\ [][Next]_vars
FairSpec == Spec /\ Fairness

-----------------------------------------------------------------------------
(* Type correctness of the connections, subscriptions and queries.         *)
TypeOK ==
  /\ conn \in [Conns -> {"off", "creating", "aborted", "on", "closed"}]
  /\ swarm \in [Conns -> 0 .. made] /\ entry \in 0 .. made
  /\ subs \in [Swarms -> [SubIds -> 0 .. reqs]]
  /\ queries \subseteq [req : 1 .. reqs, first : BOOLEAN,
                        phase : {"update", "found"}, result : SUBSET Events]
  /\ view \in [Swarms -> SUBSET Docs]
  /\ writes \subseteq [n : 1 .. received, swarm : 1 .. made, event : Events,
                       found : BOOLEAN, ids : SUBSET ((0 .. MaxEvents) \X Events)]

(* An event goes out at most once for one subscription, whether it is      *)
(* streamed, found by the REQ's query, or found again by the queries that  *)
(* a new database starts while others are still running.                   *)
SentOnce == \A r \in Reqs, e \in Events : sub[r].sent[e] <= 1

(* EOSE ends the stored events: when a REQ without limit has been answered *)
(* with EOSE, every event that was stored when the REQ came in and that it *)
(* queries for has been sent, unless it was deleted or replaced meanwhile. *)
EoseAfterStored ==
  \A r \in Reqs :
    (sub[r].eose > 0 /\ \A f \in sub[r].filters : f.limit = 0) =>
      \A e \in sub[r].base : sub[r].sent[e] > 0 \/ e \in removed

(* No subscription is left registered for a socket that is closed, so that *)
(* nothing is streamed or queried for it any more.                         *)
ClosedLeavesNothing ==
  \A s \in Swarms, i \in SubIds :
    subs[s][i] # 0 => conn[sub[subs[s][i]].conn] = "on"

(* A client that holds a subscription open gets every matching event that  *)
(* any client of the topic publishes after the REQ (NIP-01, which the      *)
(* relay announces).  True when the topic's swarm was made before the      *)
(* relay listens and the clients' subscription ids differ.                 *)
FutureEvents ==
  \A r \in Reqs :
    sub[r].open => \A e \in sub[r].due : sub[r].sent[e] > 0

(* Only its author takes an event out of the collection, by a delete event *)
(* or another version: also when the document that was found holds another *)
(* event by the time it is deleted or updated.                             *)
OnlyAuthorRemoves ==
  [][\A s \in Swarms : \A d \in stored(s) \ stored(s)' :
       \E w \in writes \ writes' : PubKey[w.event] = PubKey[d]]_vars

(* Every REQ is answered with one EOSE in the end, also when its           *)
(* subscription is closed or replaced while the query runs.                *)
EveryReqEnds ==
  \A r \in Reqs : (reqs >= r) ~> [](sub[r].eose = 1)

(* OK is sent before the database is asked; a regular or replaceable event *)
(* it was sent for is in the collection in the end, for every swarm of the *)
(* topic, unless a delete event or another version took it out, whatever   *)
(* deletes, updates and databases of other relays come in between.         *)
OkMeansStored ==
  \A e \in {x \in Events : getEventType(Kind[x]) \in {"regular", "replaceable"}} :
    (e \in accepted) ~> (e \in removed \/ \A s \in Swarms : e \in stored(s))
=============================================================================
