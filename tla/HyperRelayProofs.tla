------------------------- MODULE HyperRelayProofs -------------------------
(***************************************************************************)
(* The hyper-nostr relay, for any number of connections, subscriptions,    *)
(* events, authors and remote databases: however the handlers interleave   *)
(* at their awaits, no event goes out twice for a subscription, EOSE comes *)
(* after what was stored, closed sockets leave nothing behind, and only    *)
(* its author takes an event out of the collection.                        *)
(***************************************************************************)
EXTENDS HyperRelay, FiniteSetTheorems, TLAPS

(* The connections and swarms.  No more swarms are made than sockets have  *)
(* connected, and the one of the start.                                    *)
Connected == {c \in Conns : conn[c] # "off"}
TopicInv ==
  /\ conn \in [Conns -> {"off", "creating", "aborted", "on", "closed"}]
  /\ made \in Nat /\ made <= Cardinality(Connected) + 1
  /\ swarm \in [Conns -> 0 .. made] /\ entry \in 0 .. made
  /\ \A c \in Conns : conn[c] \in {"creating", "aborted", "on"} => swarm[c] # 0

(* The event collection.  The author of a document is that of the event it *)
(* was inserted with, whatever is put in it, and a handler that has found  *)
(* documents holds _ids of documents of its event's author only.           *)
Ids == (0 .. MaxEvents) \X Events
Write == [n : 1 .. received, swarm : 1 .. made, event : Events,
          found : BOOLEAN, ids : SUBSET Ids]
DbInv ==
  /\ received \in 0 .. MaxEvents
  /\ view \in [Swarms -> SUBSET Docs]
  /\ writes \subseteq Write
  /\ \A s \in Swarms : \A d \in view[s] : PubKey[d.event] = PubKey[d._id[2]]
  /\ \A w \in writes : \A i \in w.ids : PubKey[i[2]] = PubKey[w.event]

-----------------------------------------------------------------------------
(* There is a place for every swarm.                                       *)
LEMMA SwarmsEnough ==
  ASSUME TopicInv
  PROVE  1 .. made \subseteq Swarms
<1>1. IsFiniteSet(Conns)
  BY HyperAssumption
<1>2. Connected \in SUBSET Conns
  BY DEF Connected
<1>3. Cardinality(Connected) <= Cardinality(Conns)
  BY <1>1, <1>2, FS_Subset
<1>4. Cardinality(Connected) \in Nat /\ Cardinality(Conns) \in Nat
  BY <1>1, <1>2, FS_Subset, FS_CardinalityType
<1> QED BY <1>3, <1>4 DEF TopicInv, Swarms

(* A socket connects: one more is counted.                                 *)
LEMMA OneMore ==
  ASSUME TopicInv, NEW c \in Conns, conn[c] = "off",
         NEW j \in {"on", "creating"}, conn' = [conn EXCEPT ![c] = j]
  PROVE  /\ Cardinality(Connected') = Cardinality(Connected) + 1
         /\ Cardinality(Connected) \in Nat
<1>1. IsFiniteSet(Connected)
  BY HyperAssumption, FS_Subset DEF Connected
<1>2. Connected' = Connected \cup {c} /\ c \notin Connected
  BY DEF Connected, TopicInv
<1>3. Cardinality(Connected \cup {c}) = Cardinality(Connected) + 1
  BY <1>1, <1>2, FS_AddElement
<1> QED BY <1>1, <1>2, <1>3, FS_CardinalityType

(* Any other change of a connection leaves the count alone.                *)
LEMMA SameConnected ==
  ASSUME TopicInv, NEW c \in Conns, conn[c] # "off",
         NEW j \in {"on", "closed", "aborted"}, conn' = [conn EXCEPT ![c] = j],
         made' = made, swarm' = swarm, entry' \in 0 .. made,
         j \in {"on", "aborted"} => conn[c] \in {"creating", "aborted", "on"}
  PROVE  TopicInv'
<1>1. Connected' = Connected
  BY DEF Connected, TopicInv
<1> QED BY <1>1 DEF TopicInv

(* What a step may do to the connections: those that are attached stay, or *)
(* their socket closes.                                                    *)
Steady ==
  /\ made <= made'
  /\ \A c \in Conns : conn[c] = "on" =>
       /\ swarm'[c] = swarm[c]
       /\ conn'[c] = "on" \/ CloseConn(c)

LEMMA TopicStep ==
  ASSUME TopicInv, [Next]_vars
  PROVE  TopicInv' /\ Steady
<1>1. CASE UNCHANGED topicVars
  <2>1. TopicInv'
    BY <1>1 DEF TopicInv, topicVars, Connected
  <2> QED BY <1>1, <2>1 DEF Steady, topicVars, TopicInv
<1>2. ASSUME NEW c \in Conns, Connect(c) PROVE TopicInv' /\ Steady
  <2>1. CASE entry # 0
    <3>1. /\ conn[c] = "off" /\ conn' = [conn EXCEPT ![c] = "on"]
          /\ swarm' = [swarm EXCEPT ![c] = entry] /\ made' = made /\ entry' = entry
      BY <1>2, <2>1 DEF Connect
    <3>2. /\ Cardinality(Connected') = Cardinality(Connected) + 1
          /\ Cardinality(Connected) \in Nat
      BY <3>1, OneMore
    <3>3. TopicInv'
      BY <2>1, <3>1, <3>2 DEF TopicInv
    <3> QED BY <3>1, <3>3 DEF Steady, TopicInv
  <2>2. CASE entry = 0
    <3>1. /\ conn[c] = "off" /\ conn' = [conn EXCEPT ![c] = "creating"]
          /\ swarm' = [swarm EXCEPT ![c] = made'] /\ made' = made + 1 /\ entry' = entry
      BY <1>2, <2>2 DEF Connect
    <3>2. /\ Cardinality(Connected') = Cardinality(Connected) + 1
          /\ Cardinality(Connected) \in Nat
      BY <3>1, OneMore
    <3>3. TopicInv'
      BY <2>2, <3>1, <3>2 DEF TopicInv
    <3> QED BY <3>1, <3>3 DEF Steady, TopicInv
  <2> QED BY <2>1, <2>2
<1>3. ASSUME NEW c \in Conns, SwarmCreated(c) PROVE TopicInv' /\ Steady
  <2>1. PICK j \in {"on", "closed"} :
          /\ conn' = [conn EXCEPT ![c] = j]
          /\ conn[c] \in {"creating", "aborted"}
          /\ entry' = swarm[c] /\ swarm' = swarm /\ made' = made
    BY <1>3 DEF SwarmCreated, TopicInv
  <2>2. swarm[c] \in 0 .. made
    BY DEF TopicInv
  <2>3. TopicInv'
    BY <2>1, <2>2, SameConnected
  <2> QED BY <2>1, <2>3 DEF Steady, TopicInv
<1>4. ASSUME NEW c \in Conns, CloseEarly(c) PROVE TopicInv' /\ Steady
  <2>1. /\ conn' = [conn EXCEPT ![c] = "aborted"] /\ conn[c] = "creating"
        /\ entry' = entry /\ swarm' = swarm /\ made' = made
    BY <1>4 DEF CloseEarly
  <2>2. TopicInv'
    BY <2>1, SameConnected DEF TopicInv
  <2> QED BY <2>1, <2>2 DEF Steady, TopicInv
<1>5. ASSUME NEW c \in Conns, CloseConn(c) PROVE TopicInv' /\ Steady
  <2>1. /\ conn' = [conn EXCEPT ![c] = "closed"] /\ conn[c] = "on"
        /\ entry' = entry /\ swarm' = swarm /\ made' = made
    BY <1>5 DEF CloseConn
  <2>2. TopicInv'
    BY <2>1, SameConnected DEF TopicInv
  <2>3. \A d \in Conns : conn[d] = "on" => conn'[d] = "on" \/ d = c
    BY <2>1 DEF TopicInv
  <2> QED BY <1>5, <2>1, <2>2, <2>3 DEF Steady, TopicInv
<1>6. CASE UNCHANGED vars
  BY <1>1, <1>6 DEF vars, topicVars
<1>7. ASSUME NEW c \in Conns, NEW e \in Events, ReceiveEvent(c, e) PROVE UNCHANGED topicVars
  BY <1>7 DEF ReceiveEvent
<1>8. ASSUME NEW w \in writes, handleEvent(w) PROVE UNCHANGED topicVars
  BY <1>8 DEF handleEvent
<1>9. ASSUME NEW c \in Conns, NEW i \in SubIds, NEW fs \in FilterSets, ReceiveReq(c, i, fs)
      PROVE  UNCHANGED topicVars
  BY <1>9 DEF ReceiveReq
<1>10. ASSUME NEW c \in Conns, NEW i \in SubIds, ReceiveClose(c, i) PROVE UNCHANGED topicVars
  BY <1>10 DEF ReceiveClose
<1>11. ASSUME NEW q \in queries, RunQuery(q) \/ DeliverQuery(q) PROVE UNCHANGED topicVars
  BY <1>11 DEF RunQuery, DeliverQuery
<1>12. ASSUME NEW s \in Swarms, NEW e, ReceiveFromPeer(s, e) PROVE UNCHANGED topicVars
  BY <1>12 DEF ReceiveFromPeer
<1>13. ASSUME NEW s \in Swarms, NEW D, NewDB(s, D) PROVE UNCHANGED topicVars
  BY <1>13 DEF NewDB
<1> QED BY <1>1, <1>2, <1>3, <1>4, <1>5, <1>6, <1>7, <1>8, <1>9, <1>10, <1>11, <1>12, <1>13 DEF Next

-----------------------------------------------------------------------------
(* The collection.  An update or delete by _id keeps every document with   *)
(* its author if the event that is put in it has that author.              *)
Owned == \A s \in Swarms : \A d \in view[s] : PubKey[d.event] = PubKey[d._id[2]]

LEMMA PutOK ==
  ASSUME view \in [Swarms -> SUBSET Docs], Owned,
         NEW s \in Swarms, NEW ids \in SUBSET Ids, NEW E \in SUBSET Events,
         \A i \in ids, e \in E : PubKey[e] = PubKey[i[2]],
         Put(s, ids, E)
  PROVE  view' \in [Swarms -> SUBSET Docs] /\ Owned'
<1> DEFINE here == {d._id : d \in view[s]} \cap ids
           New == {[_id |-> i, event |-> e] : i \in here, e \in E}
           Old(t) == {d \in view[t] : d._id \notin here}
<1>1. view' = [t \in Swarms |-> Old(t) \cup New]
  BY DEF Put
<1>2. New \subseteq Docs /\ \A d \in New : PubKey[d.event] = PubKey[d._id[2]]
  BY DEF Docs, Ids
<1>3. \A t \in Swarms : Old(t) \subseteq view[t]
  OBVIOUS
<1> HIDE DEF New, Old
<1>4. \A t \in Swarms : view'[t] = Old(t) \cup New
  BY <1>1
<1> QED BY <1>1, <1>2, <1>3, <1>4 DEF Owned

LEMMA InsertOK ==
  ASSUME view \in [Swarms -> SUBSET Docs], Owned,
         NEW w, w.n \in 0 .. MaxEvents, w.event \in Events, Insert(w)
  PROVE  view' \in [Swarms -> SUBSET Docs] /\ Owned'
<1>1. Doc(w.n, w.event) \in Docs
  BY DEF Doc, Docs
<1>2. LET d == Doc(w.n, w.event) IN PubKey[d.event] = PubKey[d._id[2]]
  BY DEF Doc
<1>3. view' = [t \in Swarms |-> view[t] \cup {Doc(w.n, w.event)}]
  BY DEF Insert
<1> QED BY <1>1, <1>2, <1>3 DEF Owned

(* The documents that are found are of the event's author.                 *)
LEMMA FoundOwn ==
  ASSUME view \in [Swarms -> SUBSET Docs], Owned, NEW s \in Swarms, NEW e \in Events
  PROVE  /\ Found(s, e) \in SUBSET Ids
         /\ \A i \in Found(s, e) : PubKey[i[2]] = PubKey[e]
<1>1. \A i \in Found(s, e) : \E d \in view[s] : i = d._id /\ PubKey[d.event] = PubKey[e]
  BY DEF Found
<1> QED BY <1>1 DEF Owned, Docs, Ids

(* The records of the calls of handleEvent.                                *)
WritesOK ==
  /\ writes \subseteq Write
  /\ \A w \in writes : \A i \in w.ids : PubKey[i[2]] = PubKey[w.event]

LEMMA StoreOK ==
  ASSUME view \in [Swarms -> SUBSET Docs], Owned, WritesOK, TopicInv, received \in 0 .. MaxEvents,
         NEW w \in writes, Store(w), UNCHANGED <<made, received>>
  PROVE  view' \in [Swarms -> SUBSET Docs] /\ Owned' /\ WritesOK'
<1>1. w.swarm \in Swarms /\ w.event \in Events /\ w.n \in 0 .. MaxEvents
  BY HyperAssumption, SwarmsEnough DEF WritesOK, Write
<1>2. WritesOK'
  BY DEF Store, WritesOK, Write
<1>3. CASE Found(w.swarm, w.event) = {}
  <2>1. Insert(w)
    BY <1>3 DEF Store
  <2> QED BY <1>1, <1>2, <2>1, InsertOK
<1>4. CASE Found(w.swarm, w.event) # {}
  <2>1. Put(w.swarm, Found(w.swarm, w.event), {w.event})
    BY <1>4 DEF Store
  <2>2. /\ Found(w.swarm, w.event) \in SUBSET Ids
        /\ \A i \in Found(w.swarm, w.event) : PubKey[i[2]] = PubKey[w.event]
    BY <1>1, FoundOwn
  <2>3. {w.event} \in SUBSET Events
    BY <1>1
  <2>4. \A i \in Found(w.swarm, w.event), e \in {w.event} : PubKey[e] = PubKey[i[2]]
    BY <2>2
  <2>5. view' \in [Swarms -> SUBSET Docs] /\ Owned'
    BY ONLY view \in [Swarms -> SUBSET Docs], Owned, <1>1, <2>1, <2>2, <2>3, <2>4, PutOK
  <2> QED BY <1>2, <2>5
<1> QED BY <1>3, <1>4

LEMMA FindOK ==
  ASSUME view \in [Swarms -> SUBSET Docs], Owned, WritesOK, TopicInv,
         NEW w \in writes, Find(w), UNCHANGED <<made, received>>
  PROVE  view' \in [Swarms -> SUBSET Docs] /\ Owned' /\ WritesOK'
<1>1. w.swarm \in Swarms /\ w.event \in Events /\ w \in Write
  BY SwarmsEnough DEF WritesOK, Write
<1> DEFINE ids == Found(w.swarm, w.event)
           x == [w EXCEPT !.found = TRUE, !.ids = ids]
<1>2. ids \in SUBSET Ids /\ \A i \in ids : PubKey[i[2]] = PubKey[w.event]
  BY <1>1, FoundOwn
<1>3. writes' \subseteq writes \cup {x}
  BY DEF Find
<1> HIDE DEF ids
<1>4. x \in Write /\ x.ids = ids /\ x.event = w.event
  BY <1>1, <1>2 DEF Write
<1> HIDE DEF x
<1>5. Write' = Write
  BY DEF Write
<1>6. WritesOK'
  BY <1>2, <1>3, <1>4, <1>5 DEF WritesOK
<1> QED BY <1>6 DEF Find, Owned

LEMMA ChangeOK ==
  ASSUME view \in [Swarms -> SUBSET Docs], Owned, WritesOK, TopicInv,
         NEW w \in writes, ChangeOne(w), UNCHANGED <<made, received>>
  PROVE  view' \in [Swarms -> SUBSET Docs] /\ Owned' /\ WritesOK'
<1>1. w.swarm \in Swarms /\ w.event \in Events /\ w \in Write
  BY SwarmsEnough DEF WritesOK, Write
<1>2. PICK i \in w.ids :
        /\ Put(w.swarm, {i}, IF getEventType(Kind[w.event]) = "delete" THEN {} ELSE {w.event})
        /\ writes' \subseteq writes \cup {[w EXCEPT !.ids = @ \ {i}]}
  BY DEF ChangeOne
<1>3. {i} \in SUBSET Ids /\ PubKey[i[2]] = PubKey[w.event]
  BY <1>1, <1>2 DEF WritesOK, Write
<1>4. PICK E \in SUBSET {w.event} : Put(w.swarm, {i}, E)
  BY <1>2
<1>5. view' \in [Swarms -> SUBSET Docs] /\ Owned'
  BY <1>1, <1>3, <1>4, PutOK
<1> DEFINE x == [w EXCEPT !.ids = @ \ {i}]
<1>6. x \in Write /\ x.ids \subseteq w.ids /\ x.event = w.event
  BY <1>1 DEF Write
<1>7. Write' = Write /\ writes' \subseteq writes \cup {x}
  BY <1>2 DEF Write
<1> HIDE DEF x
<1>8. WritesOK'
  BY <1>6, <1>7 DEF WritesOK
<1> QED BY <1>5, <1>8

LEMMA DbStep ==
  ASSUME TopicInv, DbInv, [Next]_vars
  PROVE  DbInv'
<1>0. TopicInv' /\ made <= made' /\ made \in Nat
  BY TopicStep DEF Steady, TopicInv
<1> USE DEF Owned, WritesOK
<1>1. CASE UNCHANGED <<received, view, writes>>
  <2>1. Write \subseteq Write'
    BY <1>0, <1>1 DEF Write, TopicInv
  <2> QED BY <1>1, <2>1 DEF DbInv
<1>2. ASSUME NEW c \in Conns, NEW e \in Events, ReceiveEvent(c, e) PROVE DbInv'
  <2> DEFINE x == [n |-> received', swarm |-> swarm[c], event |-> e, found |-> FALSE, ids |-> {}]
  <2>1. /\ received' = received + 1 /\ received' \in 0 .. MaxEvents
        /\ view' = view /\ made' = made /\ writes' \subseteq writes \cup {x}
    BY <1>2, HyperAssumption DEF ReceiveEvent, topicVars, DbInv
  <2>2. swarm[c] \in 1 .. made
    BY <1>2 DEF ReceiveEvent, TopicInv
  <2>3. x \in Write' /\ x.ids = {}
    BY <2>1, <2>2 DEF Write, DbInv
  <2>4. Write \subseteq Write'
    BY <2>1 DEF Write, DbInv
  <2> HIDE DEF x
  <2>5. writes' \subseteq Write' /\ \A w \in writes' : \A i \in w.ids : PubKey[i[2]] = PubKey[w.event]
    BY <2>1, <2>3, <2>4 DEF DbInv
  <2> QED BY <2>1, <2>5 DEF DbInv
<1>3. ASSUME NEW w \in writes, handleEvent(w) PROVE DbInv'
  <2>1. UNCHANGED <<made, received>> /\ (Store(w) \/ Find(w) \/ ChangeOne(w))
    BY <1>3 DEF handleEvent, topicVars
  <2>2. view \in [Swarms -> SUBSET Docs] /\ Owned /\ WritesOK /\ received \in 0 .. MaxEvents
    BY DEF DbInv
  <2> HIDE DEF Owned, WritesOK
  <2>3. view' \in [Swarms -> SUBSET Docs] /\ Owned' /\ WritesOK'
    BY <2>1, <2>2, StoreOK, FindOK, ChangeOK
  <2> QED BY <2>1, <2>2, <2>3 DEF DbInv, Owned, WritesOK
<1>4. ASSUME NEW s \in Swarms, NEW D \in RemoteDBs, NewDB(s, D) PROVE DbInv'
  <2> DEFINE R == {Doc(0, e) : e \in D}
  <2>1. /\ view' = [view EXCEPT ![s] = @ \cup R]
        /\ received' = received /\ writes' = writes /\ made' = made
    BY <1>4 DEF NewDB, topicVars
  <2>2. R \subseteq Docs /\ \A d \in R : PubKey[d.event] = PubKey[d._id[2]]
    BY HyperAssumption DEF Doc, Docs
  <2> HIDE DEF R
  <2>3. view' \in [Swarms -> SUBSET Docs]
    BY <2>1, <2>2 DEF DbInv
  <2>4. ASSUME NEW t \in Swarms, NEW d \in view'[t] PROVE PubKey[d.event] = PubKey[d._id[2]]
    <3>1. d \in view[t] \cup R
      BY <2>1, <2>4 DEF DbInv
    <3> QED BY <2>2, <3>1 DEF DbInv
  <2>5. Write' = Write
    BY <2>1 DEF Write
  <2> QED BY <2>1, <2>3, <2>4, <2>5 DEF DbInv
<1>5. ASSUME NEW s \in Swarms, NEW e, ReceiveFromPeer(s, e) PROVE DbInv'
  <2>1. /\ received' = received + 1 /\ received' \in 0 .. MaxEvents
        /\ view' = view /\ writes' = writes /\ made' = made
    BY <1>5, HyperAssumption DEF ReceiveFromPeer, topicVars, DbInv
  <2>2. Write \subseteq Write'
    BY <2>1 DEF Write, DbInv
  <2> QED BY <2>1, <2>2 DEF DbInv
<1>6. CASE UNCHANGED vars
  BY <1>1, <1>6 DEF vars
<1>7. ASSUME NEW c \in Conns, Connect(c) \/ SwarmCreated(c) \/ CloseEarly(c) \/ CloseConn(c)
      PROVE  UNCHANGED dbVars
  BY <1>7 DEF Connect, SwarmCreated, CloseEarly, CloseConn
<1>8. ASSUME NEW c \in Conns, NEW i \in SubIds, NEW fs \in FilterSets, ReceiveReq(c, i, fs)
      PROVE  UNCHANGED dbVars
  BY <1>8 DEF ReceiveReq
<1>9. ASSUME NEW c \in Conns, NEW i \in SubIds, ReceiveClose(c, i) PROVE UNCHANGED dbVars
  BY <1>9 DEF ReceiveClose
<1>10. ASSUME NEW q \in queries, RunQuery(q) \/ DeliverQuery(q) PROVE UNCHANGED dbVars
  BY <1>10 DEF RunQuery, DeliverQuery
<1>11. CASE UNCHANGED dbVars
  BY <1>1, <1>11 DEF dbVars
<1> QED BY <1>2, <1>3, <1>4, <1>5, <1>6, <1>7, <1>8, <1>9, <1>10, <1>11 DEF Next

-----------------------------------------------------------------------------
(* The subscriptions.  receivedEvents holds exactly what was sent.         *)
Subscription ==
  [conn : Conns \cup {"none"}, id : SubIds \cup {"none"},
   filters : FilterSets \cup {{}}, receivedEvents : SUBSET Events,
   sent : [Events -> Nat], eose : Nat, swarm : Swarms \cup {0},
   open : BOOLEAN, base : SUBSET Events, due : SUBSET Events]
Query == [req : 1 .. reqs, first : BOOLEAN, phase : {"update", "found"},
          result : SUBSET Events]
Once(o) == \A e \in Events : o.sent[e] = IF e \in o.receivedEvents THEN 1 ELSE 0

SubTypes ==
  /\ reqs \in 0 .. MaxReqs
  /\ subs \in [Swarms -> [SubIds -> 0 .. reqs]]
  /\ sub \in [Reqs -> Subscription]
  /\ queries \subseteq Query
  /\ \A r \in Reqs : Once(sub[r])
  /\ \A r \in 1 .. reqs : sub[r].conn \in Conns /\ sub[r].swarm \in 1 .. made

(* A registered subscription belongs to an open socket of that swarm.      *)
RegInv ==
  \A s \in Swarms, i \in SubIds : subs[s][i] # 0 =>
    /\ conn[sub[subs[s][i]].conn] = "on"
    /\ swarm[sub[subs[s][i]].conn] = s

(* What was stored at the REQ is still stored or was removed; the results  *)
(* of the queries have it, and after EOSE it has been sent.                *)
NoLimit(fs) == \A f \in fs : f.limit = 0
Asked(e, fs) == fs = {} \/ buildQueries(e, fs)
BaseInv ==
  \A r \in 1 .. reqs : \A e \in sub[r].base :
    Asked(e, sub[r].filters) /\ e \in stored(sub[r].swarm) \cup removed
ResultInv ==
  \A q \in queries : (q.phase = "found" /\ NoLimit(sub[q.req].filters))
    => sub[q.req].base \subseteq q.result \cup removed
EoseInv ==
  \A r \in 1 .. reqs : (sub[r].eose > 0 /\ NoLimit(sub[r].filters))
    => sub[r].base \subseteq sub[r].receivedEvents \cup removed

FreshInv == \A r \in Reqs \ (1 .. reqs) : sub[r].base = {}

SubsInv == SubTypes /\ RegInv /\ BaseInv /\ ResultInv /\ EoseInv /\ FreshInv

(* What a step that answers no REQ may do to a subscription object.        *)
Same(o, p) ==
  /\ p \in Subscription /\ Once(p)
  /\ p.conn = o.conn /\ p.swarm = o.swarm /\ p.filters = o.filters
  /\ p.base = o.base /\ p.id = o.id
  /\ o.receivedEvents \subseteq p.receivedEvents

LEMMA SendSame ==
  ASSUME NEW o \in Subscription, Once(o), NEW E \in SUBSET Events
  PROVE  LET p == sendEventsTo(o, E)
         IN  Same(o, p) /\ p.eose = o.eose /\ p.receivedEvents = o.receivedEvents \cup E
             /\ p.open = o.open /\ p.due = o.due
<1> DEFINE p == sendEventsTo(o, E)
           n == [e \in Events |-> o.sent[e] + IF e \in E \ o.receivedEvents THEN 1 ELSE 0]
<1>1. p = [o EXCEPT !.receivedEvents = o.receivedEvents \cup E, !.sent = n]
  BY DEF sendEventsTo, Subscription
<1>2. n \in [Events -> Nat]
  BY DEF Subscription
<1>3. \A e \in Events : n[e] = IF e \in o.receivedEvents \cup E THEN 1 ELSE 0
  BY DEF Once, Subscription
<1> HIDE DEF n, p
<1>4. p \in Subscription
  BY <1>1, <1>2 DEF Subscription
<1>5. p.sent = n /\ p.receivedEvents = o.receivedEvents \cup E
  BY <1>1 DEF Subscription
<1>6. Once(p)
  BY <1>3, <1>5 DEF Once
<1>7. /\ p.conn = o.conn /\ p.swarm = o.swarm /\ p.filters = o.filters
      /\ p.base = o.base /\ p.id = o.id /\ p.eose = o.eose
      /\ p.open = o.open /\ p.due = o.due
  BY <1>1 DEF Subscription
<1>8. Same(o, p) /\ p.eose = o.eose /\ p.receivedEvents = o.receivedEvents \cup E
      /\ p.open = o.open /\ p.due = o.due
  BY <1>4, <1>5, <1>6, <1>7 DEF Same
<1> QED BY <1>8 DEF p

LEMMA ShutSame ==
  ASSUME NEW o \in Subscription, Once(o)
  PROVE  LET p == [o EXCEPT !.open = FALSE]
         IN  Same(o, p) /\ p.eose = o.eose /\ Same(o, o)
  BY DEF Same, Once, Subscription

LEMMA DueSame ==
  ASSUME NEW o \in Subscription, Once(o), NEW e \in Events
  PROVE  LET p == [o EXCEPT !.due = @ \cup {e}]
         IN  Same(o, p) /\ p.eose = o.eose
  BY DEF Same, Once, Subscription

LEMMA SameTrans ==
  ASSUME NEW o, NEW p, NEW q, Same(o, p), Same(p, q)
  PROVE  Same(o, q)
  BY DEF Same

(* An EOSE more or less changes nothing of that.                           *)
LEMMA EndSame ==
  ASSUME NEW o \in Subscription, Once(o), NEW n \in Nat
  PROVE  LET p == [o EXCEPT !.eose = n]
         IN  Same(o, p) /\ p.eose = n /\ p.receivedEvents = o.receivedEvents
             /\ p.open = o.open /\ p.due = o.due
  BY DEF Same, Once, Subscription

-----------------------------------------------------------------------------
(* What a query finds is stored; without a limit it finds all that match.  *)
LEMMA QueryStored ==
  ASSUME NEW s, NEW fs, NEW h \in BOOLEAN, NEW E \in queryEvents(s, fs, h)
  PROVE  E \subseteq stored(s)
  BY DEF queryEvents, Newest, queryArray

LEMMA QueryAll ==
  ASSUME NEW s, NEW fs, NEW h \in BOOLEAN, h => NoLimit(fs)
  PROVE  queryEvents(s, fs, h) = {{e \in stored(s) : Asked(e, fs)}}
<1> DEFINE limit == IF Cardinality(fs) = 1 THEN (CHOOSE f \in fs : TRUE).limit ELSE 0
<1>1. ASSUME h PROVE limit = 0
  <2>1. CASE Cardinality(fs) = 1
    <3>1. fs # {}
      BY <2>1, FS_EmptySet
    <3>2. (CHOOSE f \in fs : TRUE) \in fs
      BY <3>1
    <3> QED BY <1>1, <2>1, <3>2 DEF NoLimit
  <2> QED BY <2>1
<1>2. ~(h /\ limit > 0)
  BY <1>1
<1> QED BY <1>2 DEF queryEvents, queryArray, Asked

LEMMA StoredEvents ==
  ASSUME view \in [Swarms -> SUBSET Docs], NEW s \in Swarms
  PROVE  stored(s) \subseteq Events
  BY DEF stored, Docs

(* An event is only taken out of a collection into removed.                *)
StoredKept ==
  /\ removed \subseteq removed'
  /\ \A s \in Swarms : stored(s) \subseteq stored(s)' \cup removed'

LEMMA StoredStep ==
  ASSUME DbInv, [Next]_vars
  PROVE  StoredKept
<1>1. CASE UNCHANGED <<view, removed>>
  BY <1>1 DEF StoredKept, stored
<1>2. ASSUME NEW w \in writes, handleEvent(w) PROVE StoredKept
  <2>1. removed' = removed \cup UNION {stored(s) \ stored(s)' : s \in Swarms}
    BY <1>2 DEF handleEvent
  <2> QED BY <2>1 DEF StoredKept
<1>3. ASSUME NEW s \in Swarms, NEW D \in RemoteDBs, NewDB(s, D) PROVE StoredKept
  <2>1. removed' = removed /\ view' = [view EXCEPT ![s] = @ \cup {Doc(0, e) : e \in D}]
    BY <1>3 DEF NewDB
  <2>2. \A t \in Swarms : view[t] \subseteq view'[t]
    BY <2>1 DEF DbInv
  <2> QED BY <2>1, <2>2 DEF StoredKept, stored
<1>4. CASE UNCHANGED vars
  BY <1>1, <1>4 DEF vars
<1>5. ASSUME NEW c \in Conns, Connect(c) \/ SwarmCreated(c) \/ CloseEarly(c) \/ CloseConn(c)
      PROVE  UNCHANGED <<view, removed>>
  BY <1>5 DEF Connect, SwarmCreated, CloseEarly, CloseConn, dbVars
<1>6. ASSUME NEW c \in Conns, NEW i \in SubIds, NEW fs \in FilterSets, ReceiveReq(c, i, fs)
      PROVE  UNCHANGED <<view, removed>>
  BY <1>6 DEF ReceiveReq, dbVars
<1>7. ASSUME NEW c \in Conns, NEW i \in SubIds, ReceiveClose(c, i) PROVE UNCHANGED <<view, removed>>
  BY <1>7 DEF ReceiveClose, dbVars
<1>8. ASSUME NEW q \in queries, RunQuery(q) \/ DeliverQuery(q) PROVE UNCHANGED <<view, removed>>
  BY <1>8 DEF RunQuery, DeliverQuery, dbVars
<1>9. ASSUME NEW c \in Conns, NEW e \in Events, ReceiveEvent(c, e) PROVE UNCHANGED <<view, removed>>
  BY <1>9 DEF ReceiveEvent
<1>10. ASSUME NEW s \in Swarms, NEW e, ReceiveFromPeer(s, e) PROVE UNCHANGED <<view, removed>>
  BY <1>10 DEF ReceiveFromPeer
<1> QED BY <1>1, <1>2, <1>3, <1>4, <1>5, <1>6, <1>7, <1>8, <1>9, <1>10 DEF Next

-----------------------------------------------------------------------------
(* A step that makes no subscription object keeps what is said of them,    *)
(* provided the subscriptions that are registered, the queries and the     *)
(* answers fit.                                                            *)
LEMMA SubsFrame ==
  ASSUME SubsInv, TopicInv, made' \in Nat, made <= made', StoredKept, reqs' = reqs,
         sub' \in [Reqs -> Subscription], \A r \in Reqs : Same(sub[r], sub'[r]),
         subs' \in [Swarms -> [SubIds -> 0 .. reqs]],
         \A s \in Swarms, i \in SubIds : subs'[s][i] # 0 =>
           /\ conn'[sub[subs'[s][i]].conn] = "on"
           /\ swarm'[sub[subs'[s][i]].conn] = s,
         queries' \subseteq Query,
         \A q \in queries' : (q.phase = "found" /\ NoLimit(sub[q.req].filters))
           => sub[q.req].base \subseteq q.result \cup removed',
         \A r \in 1 .. reqs : (sub'[r].eose > 0 /\ NoLimit(sub[r].filters))
           => sub[r].base \subseteq sub'[r].receivedEvents \cup removed'
  PROVE  SubsInv'
<1>0. 1 .. reqs \subseteq Reqs
  BY HyperAssumption DEF SubsInv, SubTypes, Reqs
<1>1. \A r \in Reqs : /\ sub'[r].conn = sub[r].conn /\ sub'[r].swarm = sub[r].swarm
                      /\ sub'[r].filters = sub[r].filters /\ sub'[r].base = sub[r].base
                      /\ Once(sub'[r])
  BY DEF Same
<1>2. SubTypes'
  <2>1. Query' = Query
    BY DEF Query
  <2>2. \A r \in Reqs : Once(sub[r])'
    BY <1>1 DEF Once
  <2>3. \A r \in 1 .. reqs : sub'[r].conn \in Conns /\ sub'[r].swarm \in 1 .. made'
    <3>1. made \in Nat
      BY DEF TopicInv
    <3> QED BY <1>0, <1>1, <3>1 DEF SubsInv, SubTypes
  <2> QED BY <2>1, <2>2, <2>3 DEF SubTypes, SubsInv
<1>3. RegInv'
  <2> SUFFICES ASSUME NEW s \in Swarms, NEW i \in SubIds, subs'[s][i] # 0
               PROVE  /\ conn'[sub'[subs'[s][i]].conn] = "on"
                      /\ swarm'[sub'[subs'[s][i]].conn] = s
    BY DEF RegInv
  <2>1. subs'[s][i] \in Reqs
    BY <1>0 DEF SubsInv, SubTypes
  <2>2. sub'[subs'[s][i]].conn = sub[subs'[s][i]].conn
    BY <1>1, <2>1
  <2> QED BY <2>2
<1>4. BaseInv'
  <2> SUFFICES ASSUME NEW r \in 1 .. reqs, NEW e \in sub'[r].base
               PROVE  /\ Asked(e, sub'[r].filters)
                      /\ e \in {d.event : d \in view'[sub'[r].swarm]} \cup removed'
    BY DEF BaseInv, stored
  <2>1. r \in Reqs /\ sub'[r].swarm = sub[r].swarm /\ e \in sub[r].base
        /\ sub'[r].filters = sub[r].filters
    BY <1>0, <1>1
  <2>2. Asked(e, sub[r].filters) /\ e \in stored(sub[r].swarm) \cup removed
    BY <2>1 DEF SubsInv, BaseInv
  <2>3. PICK s \in Swarms : s = sub[r].swarm
    BY SwarmsEnough DEF SubsInv, SubTypes
  <2>4. e \in stored(s)' \cup removed'
    BY <2>2, <2>3 DEF StoredKept
  <2>5. e \in {d.event : d \in view'[s]} \cup removed'
    BY <2>4 DEF stored
  <2> QED BY <2>1, <2>2, <2>3, <2>5
<1>5. ResultInv'
  <2> SUFFICES ASSUME NEW q \in queries', q.phase = "found", NoLimit(sub'[q.req].filters)
               PROVE  sub'[q.req].base \subseteq q.result \cup removed'
    BY DEF ResultInv
  <2>1. q.req \in Reqs
    BY <1>0 DEF Query
  <2> QED BY <1>1, <2>1
<1>6. EoseInv'
  <2> SUFFICES ASSUME NEW r \in 1 .. reqs, sub'[r].eose > 0, NoLimit(sub'[r].filters)
               PROVE  sub'[r].base \subseteq sub'[r].receivedEvents \cup removed'
    BY DEF EoseInv
  <2> QED BY <1>0, <1>1
<1>7. FreshInv'
  BY <1>1 DEF FreshInv, SubsInv
<1> QED BY <1>2, <1>3, <1>4, <1>5, <1>6, <1>7 DEF SubsInv

(* In particular one that changes neither queries nor EOSEs, and closes no *)
(* socket whose subscriptions stay.                                        *)
LEMMA SubsQuiet ==
  ASSUME SubsInv, TopicInv, made' \in Nat, made <= made', StoredKept,
         reqs' = reqs, queries' = queries,
         sub' \in [Reqs -> Subscription],
         \A r \in Reqs : Same(sub[r], sub'[r]) /\ sub'[r].eose = sub[r].eose,
         subs' \in [Swarms -> [SubIds -> 0 .. reqs]],
         \A s \in Swarms, i \in SubIds : subs'[s][i] \in {0, subs[s][i]},
         \A s \in Swarms, i \in SubIds : subs'[s][i] # 0 =>
           conn'[sub[subs[s][i]].conn] = "on" /\ swarm'[sub[subs[s][i]].conn] = swarm[sub[subs[s][i]].conn]
  PROVE  SubsInv'
<1>0. 1 .. reqs \subseteq Reqs
  BY HyperAssumption DEF SubsInv, SubTypes, Reqs
<1>1. ASSUME NEW s \in Swarms, NEW i \in SubIds, subs'[s][i] # 0
      PROVE  conn'[sub[subs'[s][i]].conn] = "on" /\ swarm'[sub[subs'[s][i]].conn] = s
  <2>1. subs'[s][i] = subs[s][i]
    BY <1>1
  <2> QED BY <1>1, <2>1 DEF SubsInv, RegInv
<1>2. ASSUME NEW q \in queries', q.phase = "found", NoLimit(sub[q.req].filters)
      PROVE  sub[q.req].base \subseteq q.result \cup removed'
  BY <1>2 DEF SubsInv, ResultInv, StoredKept
<1>3. ASSUME NEW r \in 1 .. reqs, sub'[r].eose > 0, NoLimit(sub[r].filters)
      PROVE  sub[r].base \subseteq sub'[r].receivedEvents \cup removed'
  <2>1. r \in Reqs /\ sub[r].eose > 0 /\ sub[r].receivedEvents \subseteq sub'[r].receivedEvents
    BY <1>0, <1>3 DEF Same
  <2> QED BY <1>3, <2>1 DEF SubsInv, EoseInv, StoredKept
<1>4. queries' \subseteq Query
  BY DEF SubsInv, SubTypes
<1> QED BY <1>1, <1>2, <1>3, <1>4, SubsFrame

(* Streaming an event.                                                     *)
LEMMA StreamSame ==
  ASSUME SubsInv, NEW s \in Swarms, NEW e \in Events
  PROVE  /\ streamEvent(s, e) \in [Reqs -> Subscription]
         /\ \A r \in Reqs : LET p == streamEvent(s, e)[r]
                             IN  Same(sub[r], p) /\ p.eose = sub[r].eose
                                 /\ p.open = sub[r].open /\ p.due = sub[r].due
<1>1. ASSUME NEW r \in Reqs
      PROVE  LET p == streamEvent(s, e)[r]
             IN  /\ p \in Subscription /\ Same(sub[r], p) /\ p.eose = sub[r].eose
                 /\ p.open = sub[r].open /\ p.due = sub[r].due
  <2>1. sub[r] \in Subscription /\ Once(sub[r])
    BY DEF SubsInv, SubTypes
  <2>2. CASE streamEvent(s, e)[r] = sub[r]
    BY <2>1, <2>2 DEF Same
  <2>3. CASE streamEvent(s, e)[r] = sendEventsTo(sub[r], {e})
    <3>1. Same(sub[r], sendEventsTo(sub[r], {e})) /\ sendEventsTo(sub[r], {e}).eose = sub[r].eose
          /\ sendEventsTo(sub[r], {e}).open = sub[r].open /\ sendEventsTo(sub[r], {e}).due = sub[r].due
      BY <2>1, SendSame
    <3> QED BY <2>3, <3>1 DEF Same
  <2> QED BY <2>2, <2>3 DEF streamEvent
<1>2. streamEvent(s, e) = [r \in Reqs |-> streamEvent(s, e)[r]]
  BY DEF streamEvent
<1> QED BY <1>1, <1>2

LEMMA ExpectSame ==
  ASSUME NEW f \in [Reqs -> Subscription], \A r \in Reqs : Once(f[r]), NEW e \in Events
  PROVE  /\ Expect(e, f) \in [Reqs -> Subscription]
         /\ \A r \in Reqs : Same(f[r], Expect(e, f)[r]) /\ Expect(e, f)[r].eose = f[r].eose
<1>1. ASSUME NEW r \in Reqs
      PROVE  /\ Expect(e, f)[r] \in Subscription
             /\ Same(f[r], Expect(e, f)[r]) /\ Expect(e, f)[r].eose = f[r].eose
  <2>1. CASE Expect(e, f)[r] = f[r]
    BY <2>1 DEF Same
  <2>2. CASE Expect(e, f)[r] = [f[r] EXCEPT !.due = @ \cup {e}]
    <3>1. Same(f[r], Expect(e, f)[r]) /\ Expect(e, f)[r].eose = f[r].eose
      BY <2>2, DueSame
    <3> QED BY <3>1 DEF Same
  <2> QED BY <2>1, <2>2 DEF Expect
<1>2. Expect(e, f) = [r \in Reqs |-> Expect(e, f)[r]]
  BY DEF Expect
<1> QED BY <1>1, <1>2

-----------------------------------------------------------------------------
(* An attached socket has a swarm.                                         *)
LEMMA Attached ==
  ASSUME TopicInv, NEW c \in Conns, conn[c] = "on"
  PROVE  swarm[c] \in 1 .. made /\ swarm[c] \in Swarms
<1>1. swarm[c] \in 1 .. made
  BY DEF TopicInv
<1> QED BY <1>1, SwarmsEnough

(* The steps that change subscriptions or queries.                         *)
LEMMA CloseConnOK ==
  ASSUME SubsInv, TopicInv, StoredKept, NEW c \in Conns, CloseConn(c)
  PROVE  SubsInv'
<1>0. 1 .. reqs \subseteq Reqs
  BY HyperAssumption DEF SubsInv, SubTypes, Reqs
<1>1. /\ conn' = [conn EXCEPT ![c] = "closed"] /\ swarm' = swarm /\ made' = made
      /\ reqs' = reqs /\ queries' = queries
      /\ sub' = [r \in Reqs |-> IF sub[r].conn = c THEN [sub[r] EXCEPT !.open = FALSE] ELSE sub[r]]
      /\ subs' = [subs EXCEPT ![swarm[c]] =
                     [i \in SubIds |-> IF @[i] # 0 /\ sub[@[i]].conn = c THEN 0 ELSE @[i]]]
  BY DEF CloseConn
<1>2. ASSUME NEW r \in Reqs
      PROVE  sub'[r] \in Subscription /\ Same(sub[r], sub'[r]) /\ sub'[r].eose = sub[r].eose
  <2>1. sub[r] \in Subscription /\ Once(sub[r])
    BY DEF SubsInv, SubTypes
  <2>2. sub'[r] = sub[r] \/ sub'[r] = [sub[r] EXCEPT !.open = FALSE]
    BY <1>1
  <2> QED BY <2>1, <2>2, ShutSame DEF Same
<1>3. sub' \in [Reqs -> Subscription]
  BY <1>1, <1>2
<1>4. /\ subs' \in [Swarms -> [SubIds -> 0 .. reqs]]
      /\ \A s \in Swarms, i \in SubIds : subs'[s][i] \in {0, subs[s][i]}
      /\ \A i \in SubIds : subs'[swarm[c]][i] # 0 => sub[subs[swarm[c]][i]].conn # c
  <2>1. swarm[c] \in Swarms
    BY Attached DEF CloseConn
  <2> DEFINE old == subs[swarm[c]]
             new == [i \in SubIds |-> IF old[i] # 0 /\ sub[old[i]].conn = c THEN 0 ELSE old[i]]
  <2>2. subs \in [Swarms -> [SubIds -> 0 .. reqs]] /\ reqs \in Nat
    BY DEF SubsInv, SubTypes
  <2>3. new \in [SubIds -> 0 .. reqs] /\ \A i \in SubIds : new[i] \in {0, old[i]}
    BY <2>1, <2>2
  <2>4. \A i \in SubIds : new[i] # 0 => sub[old[i]].conn # c
    OBVIOUS
  <2>5. subs' = [subs EXCEPT ![swarm[c]] = new]
    BY <1>1, <2>1, <2>2
  <2> HIDE DEF new
  <2> QED BY <2>1, <2>2, <2>3, <2>4, <2>5
<1>5. ASSUME NEW s \in Swarms, NEW i \in SubIds, subs'[s][i] # 0
      PROVE  conn'[sub[subs[s][i]].conn] = "on" /\ swarm'[sub[subs[s][i]].conn] = swarm[sub[subs[s][i]].conn]
  <2>1. subs'[s][i] = subs[s][i] /\ subs[s][i] # 0
    BY <1>4, <1>5
  <2>2. conn[sub[subs[s][i]].conn] = "on" /\ swarm[sub[subs[s][i]].conn] = s
    BY <2>1 DEF SubsInv, RegInv
  <2>3. sub[subs[s][i]].conn # c
    BY <1>4, <1>5, <2>2
  <2>4. subs[s][i] \in 1 .. reqs
    BY <2>1 DEF SubsInv, SubTypes
  <2>5. sub[subs[s][i]].conn \in Conns
    BY <2>4 DEF SubsInv, SubTypes
  <2> QED BY <1>1, <2>2, <2>3, <2>5 DEF TopicInv
<1>6. made' \in Nat /\ made <= made'
  BY <1>1 DEF TopicInv
<1> QED BY <1>1, <1>2, <1>3, <1>4, <1>5, <1>6, SubsQuiet

LEMMA ReceiveCloseOK ==
  ASSUME SubsInv, TopicInv, StoredKept, NEW c \in Conns, NEW k \in SubIds, ReceiveClose(c, k)
  PROVE  SubsInv'
<1>1. /\ conn' = conn /\ swarm' = swarm /\ made' = made
      /\ reqs' = reqs /\ queries' = queries
      /\ sub' = [r \in Reqs |-> IF sub[r].conn = c /\ sub[r].id = k
                                THEN [sub[r] EXCEPT !.open = FALSE] ELSE sub[r]]
      /\ subs' = [subs EXCEPT ![swarm[c]][k] = 0]
  BY DEF ReceiveClose, topicVars
<1>2. ASSUME NEW r \in Reqs
      PROVE  sub'[r] \in Subscription /\ Same(sub[r], sub'[r]) /\ sub'[r].eose = sub[r].eose
  <2>1. sub[r] \in Subscription /\ Once(sub[r])
    BY DEF SubsInv, SubTypes
  <2>2. sub'[r] = sub[r] \/ sub'[r] = [sub[r] EXCEPT !.open = FALSE]
    BY <1>1
  <2> QED BY <2>1, <2>2, ShutSame DEF Same
<1>3. sub' \in [Reqs -> Subscription]
  BY <1>1, <1>2
<1>4. /\ subs' \in [Swarms -> [SubIds -> 0 .. reqs]]
      /\ \A s \in Swarms, i \in SubIds : subs'[s][i] \in {0, subs[s][i]}
  <2>1. swarm[c] \in Swarms
    BY Attached DEF ReceiveClose
  <2> QED BY <1>1, <2>1 DEF SubsInv, SubTypes
<1>5. ASSUME NEW s \in Swarms, NEW i \in SubIds, subs'[s][i] # 0
      PROVE  conn'[sub[subs[s][i]].conn] = "on" /\ swarm'[sub[subs[s][i]].conn] = swarm[sub[subs[s][i]].conn]
  <2>1. subs[s][i] # 0
    BY <1>4, <1>5
  <2> QED BY <1>1, <2>1 DEF SubsInv, RegInv
<1>6. made' \in Nat /\ made <= made'
  BY <1>1 DEF TopicInv
<1> QED BY <1>1, <1>2, <1>3, <1>4, <1>5, <1>6, SubsQuiet

(* A step that leaves the map of subscriptions and the sockets alone.      *)
LEMMA Registered ==
  ASSUME SubsInv, conn' = conn, swarm' = swarm, subs' = subs, reqs' = reqs
  PROVE  /\ subs' \in [Swarms -> [SubIds -> 0 .. reqs]]
         /\ \A s \in Swarms, i \in SubIds : subs'[s][i] \in {0, subs[s][i]}
         /\ \A s \in Swarms, i \in SubIds : subs'[s][i] # 0 =>
               /\ conn'[sub[subs[s][i]].conn] = "on"
               /\ swarm'[sub[subs[s][i]].conn] = swarm[sub[subs[s][i]].conn]
               /\ swarm'[sub[subs[s][i]].conn] = s
  BY DEF SubsInv, SubTypes, RegInv

LEMMA ReceiveEventOK ==
  ASSUME SubsInv, TopicInv, StoredKept, NEW c \in Conns, NEW e \in Events, ReceiveEvent(c, e)
  PROVE  SubsInv'
<1>1. /\ conn' = conn /\ swarm' = swarm /\ made' = made /\ reqs' = reqs
      /\ queries' = queries /\ subs' = subs /\ sub' = Expect(e, streamEvent(swarm[c], e))
  BY DEF ReceiveEvent, topicVars
<1>2. swarm[c] \in Swarms
  BY Attached DEF ReceiveEvent
<1> DEFINE f == streamEvent(swarm[c], e)
<1>3. f \in [Reqs -> Subscription] /\ \A r \in Reqs : Same(sub[r], f[r]) /\ f[r].eose = sub[r].eose
  BY <1>2, StreamSame
<1> HIDE DEF f
<1>4. \A r \in Reqs : Once(f[r])
  BY <1>3 DEF Same
<1>5. /\ Expect(e, f) \in [Reqs -> Subscription]
      /\ \A r \in Reqs : Same(f[r], Expect(e, f)[r]) /\ Expect(e, f)[r].eose = f[r].eose
  BY <1>3, <1>4, ExpectSame
<1>6. sub' = Expect(e, f)
  BY <1>1 DEF f
<1>7. sub' \in [Reqs -> Subscription]
      /\ \A r \in Reqs : Same(sub[r], sub'[r]) /\ sub'[r].eose = sub[r].eose
  BY <1>3, <1>5, <1>6, SameTrans
<1>8. made' \in Nat /\ made <= made'
  BY <1>1 DEF TopicInv
<1> QED BY <1>1, <1>7, <1>8, Registered, SubsQuiet

LEMMA ReceiveFromPeerOK ==
  ASSUME SubsInv, TopicInv, StoredKept, NEW s \in Swarms, NEW e \in Events, ReceiveFromPeer(s, e)
  PROVE  SubsInv'
<1>1. /\ conn' = conn /\ swarm' = swarm /\ made' = made /\ reqs' = reqs
      /\ queries' = queries /\ subs' = subs /\ sub' = streamEvent(s, e)
  BY DEF ReceiveFromPeer, topicVars
<1>2. sub' \in [Reqs -> Subscription]
      /\ \A r \in Reqs : Same(sub[r], sub'[r]) /\ sub'[r].eose = sub[r].eose
  BY <1>1, StreamSame
<1>3. made' \in Nat /\ made <= made'
  BY <1>1 DEF TopicInv
<1> QED BY <1>1, <1>2, <1>3, Registered, SubsQuiet

LEMMA NewDBOK ==
  ASSUME SubsInv, TopicInv, StoredKept, NEW s \in Swarms, NEW D, NewDB(s, D)
  PROVE  SubsInv'
<1>1. /\ conn' = conn /\ swarm' = swarm /\ made' = made /\ reqs' = reqs
      /\ subs' = subs /\ sub' = sub
      /\ queries' = queries \cup
           {[req |-> r, first |-> FALSE, phase |-> "update", result |-> {}]
              : r \in Range(subs[s]) \ {0}}
  BY DEF NewDB, topicVars
<1>2. Range(subs[s]) \ {0} \subseteq 1 .. reqs
  <2>1. subs[s] \in [SubIds -> 0 .. reqs] /\ reqs \in Nat
    BY DEF SubsInv, SubTypes
  <2> QED BY <2>1 DEF Range
<1>3. /\ queries' \subseteq Query
      /\ \A q \in queries' : q.phase = "found" => q \in queries
  <2> DEFINE New == {[req |-> r, first |-> FALSE, phase |-> "update", result |-> {}]
                       : r \in Range(subs[s]) \ {0}}
  <2>1. ASSUME NEW q \in New PROVE q \in Query /\ q.phase # "found"
    <3>1. PICK r \in 1 .. reqs :
            q = [req |-> r, first |-> FALSE, phase |-> "update", result |-> {}]
      BY <1>2, <2>1
    <3> QED BY <3>1 DEF Query
  <2> HIDE DEF New
  <2>2. queries' = queries \cup New /\ queries \subseteq Query
    BY <1>1 DEF SubsInv, SubTypes, New
  <2> QED BY <2>1, <2>2
<1>4. ASSUME NEW q \in queries', q.phase = "found", NoLimit(sub[q.req].filters)
      PROVE  sub[q.req].base \subseteq q.result \cup removed'
  BY <1>3, <1>4 DEF SubsInv, ResultInv, StoredKept
<1>5. \A r \in 1 .. reqs : (sub'[r].eose > 0 /\ NoLimit(sub[r].filters))
        => sub[r].base \subseteq sub'[r].receivedEvents \cup removed'
  BY <1>1 DEF SubsInv, EoseInv, StoredKept
<1>6. sub' \in [Reqs -> Subscription] /\ \A r \in Reqs : Same(sub[r], sub'[r])
  BY <1>1 DEF SubsInv, SubTypes, Same
<1>7. made' \in Nat /\ made <= made'
  BY <1>1 DEF TopicInv
<1>8. \A t \in Swarms, i \in SubIds : subs'[t][i] # 0 =>
        conn'[sub[subs'[t][i]].conn] = "on" /\ swarm'[sub[subs'[t][i]].conn] = t
  BY <1>1 DEF SubsInv, RegInv
<1>9. subs' \in [Swarms -> [SubIds -> 0 .. reqs]]
  BY <1>1 DEF SubsInv, SubTypes
<1> QED BY <1>1, <1>3, <1>4, <1>5, <1>6, <1>7, <1>8, <1>9, SubsFrame

(* A query reads the collection: without a limit, all of what was stored   *)
(* when the REQ came in that has not been removed.                         *)
LEMMA RunQueryOK ==
  ASSUME SubsInv, TopicInv, DbInv, StoredKept, NEW q \in queries, RunQuery(q)
  PROVE  SubsInv'
<1> DEFINE o == sub[q.req]
<1>0. PICK res \in queryEvents(o.swarm, o.filters, q.first) :
        queries' = (queries \ {q}) \cup {[q EXCEPT !.phase = "found", !.result = res]}
  BY DEF RunQuery
<1> DEFINE x == [q EXCEPT !.phase = "found", !.result = res]
<1>1. /\ conn' = conn /\ swarm' = swarm /\ made' = made /\ reqs' = reqs
      /\ subs' = subs /\ sub' = sub /\ removed' = removed
      /\ queries' = (queries \ {q}) \cup {x}
  BY <1>0 DEF RunQuery, topicVars, dbVars
<1>2. q \in Query /\ q.req \in 1 .. reqs /\ q.first \in BOOLEAN
  BY DEF SubsInv, SubTypes, Query
<1>3. o.swarm \in Swarms
  BY <1>2, SwarmsEnough DEF SubsInv, SubTypes
<1>4. res \in SUBSET Events
  BY <1>0, <1>2, <1>3, QueryStored, StoredEvents DEF DbInv
<1>5. ASSUME NoLimit(o.filters) PROVE o.base \subseteq res \cup removed
  <2>1. res = {e \in stored(o.swarm) : Asked(e, o.filters)}
    BY <1>0, <1>2, <1>5, QueryAll
  <2> QED BY <1>2, <2>1 DEF SubsInv, BaseInv
<1>6. x \in Query /\ x.req = q.req /\ x.result = res
  BY <1>2, <1>4 DEF Query
<1> HIDE DEF x
<1>7. queries' \subseteq Query
  BY <1>1, <1>6 DEF SubsInv, SubTypes
<1>8. ASSUME NEW y \in queries', y.phase = "found", NoLimit(sub[y.req].filters)
      PROVE  sub[y.req].base \subseteq y.result \cup removed'
  <2>1. CASE y = x
    BY <1>1, <1>5, <1>6, <1>8, <2>1
  <2>2. CASE y \in queries
    BY <1>1, <1>8, <2>2 DEF SubsInv, ResultInv
  <2> QED BY <1>1, <2>1, <2>2
<1>9. \A r \in 1 .. reqs : (sub'[r].eose > 0 /\ NoLimit(sub[r].filters))
        => sub[r].base \subseteq sub'[r].receivedEvents \cup removed'
  BY <1>1 DEF SubsInv, EoseInv
<1>10. sub' \in [Reqs -> Subscription] /\ \A r \in Reqs : Same(sub[r], sub'[r])
  BY <1>1 DEF SubsInv, SubTypes, Same
<1>11. made' \in Nat /\ made <= made'
  BY <1>1 DEF TopicInv
<1>12. \A t \in Swarms, i \in SubIds : subs'[t][i] # 0 =>
        conn'[sub[subs'[t][i]].conn] = "on" /\ swarm'[sub[subs'[t][i]].conn] = t
  BY <1>1 DEF SubsInv, RegInv
<1>13. subs' \in [Swarms -> [SubIds -> 0 .. reqs]]
  BY <1>1 DEF SubsInv, SubTypes
<1> QED BY <1>1, <1>7, <1>8, <1>9, <1>10, <1>11, <1>12, <1>13, SubsFrame

(* The result is sent, then EOSE.                                          *)
LEMMA DeliverQueryOK ==
  ASSUME SubsInv, TopicInv, StoredKept, NEW q \in queries, DeliverQuery(q)
  PROVE  SubsInv'
<1> DEFINE o == sub[q.req]
           p == sendEventsTo(o, q.result)
           n == p.eose + IF q.first THEN 1 ELSE 0
           x == [p EXCEPT !.eose = n]
<1>0. 1 .. reqs \subseteq Reqs
  BY HyperAssumption DEF SubsInv, SubTypes, Reqs
<1>1. q.req \in Reqs /\ q.req \in 1 .. reqs /\ q.result \in SUBSET Events /\ q.first \in BOOLEAN
  BY <1>0 DEF SubsInv, SubTypes, Query
<1>2. o \in Subscription /\ Once(o)
  BY <1>1 DEF SubsInv, SubTypes
<1>3. Same(o, p) /\ p.eose = o.eose /\ p.receivedEvents = o.receivedEvents \cup q.result
  BY <1>1, <1>2, SendSame
<1>4. p \in Subscription /\ Once(p)
  BY <1>3 DEF Same
<1>5. /\ conn' = conn /\ swarm' = swarm /\ made' = made /\ reqs' = reqs
      /\ subs' = subs /\ removed' = removed
      /\ queries' = queries \ {q} /\ q.phase = "found"
  BY DEF DeliverQuery, topicVars, dbVars
<1>5a. sub' = [sub EXCEPT ![q.req] = [p EXCEPT !.eose = p.eose + IF q.first THEN 1 ELSE 0]]
  BY <1>4 DEF DeliverQuery
<1> HIDE DEF p
<1>6. n \in Nat
  BY <1>1, <1>4 DEF Subscription
<1>7. sub' = [sub EXCEPT ![q.req] = x]
  BY <1>5a
<1> HIDE DEF n
<1>8. Same(p, x) /\ x.receivedEvents = p.receivedEvents
  BY <1>4, <1>6, EndSame
<1>9. Same(o, x) /\ x \in Subscription
  BY <1>3, <1>8, SameTrans DEF Same
<1> HIDE DEF x
<1>10. sub' \in [Reqs -> Subscription] /\ sub'[q.req] = x /\ \A r \in Reqs \ {q.req} : sub'[r] = sub[r]
  BY <1>1, <1>7, <1>9 DEF SubsInv, SubTypes
<1>11. ASSUME NEW r \in Reqs PROVE Same(sub[r], sub'[r])
  <2>1. CASE r = q.req
    BY <1>9, <1>10, <2>1
  <2>2. CASE r # q.req
    <3>1. sub'[r] = sub[r] /\ sub[r] \in Subscription /\ Once(sub[r])
      BY <1>10, <2>2 DEF SubsInv, SubTypes
    <3> QED BY <3>1, ShutSame
  <2> QED BY <2>1, <2>2
<1>12. ASSUME NEW r \in 1 .. reqs, sub'[r].eose > 0, NoLimit(sub[r].filters)
       PROVE  sub[r].base \subseteq sub'[r].receivedEvents \cup removed'
  <2>1. CASE r = q.req
    BY <1>3, <1>5, <1>8, <1>10, <1>12, <2>1 DEF SubsInv, ResultInv
  <2>2. CASE r # q.req
    BY <1>0, <1>5, <1>10, <1>12, <2>2 DEF SubsInv, EoseInv
  <2> QED BY <2>1, <2>2
<1>13. \A y \in queries' : (y.phase = "found" /\ NoLimit(sub[y.req].filters))
         => sub[y.req].base \subseteq y.result \cup removed'
  BY <1>5 DEF SubsInv, ResultInv
<1>14. queries' \subseteq Query
  BY <1>5 DEF SubsInv, SubTypes
<1>15. made' \in Nat /\ made <= made'
  BY <1>5 DEF TopicInv
<1>16. \A t \in Swarms, i \in SubIds : subs'[t][i] # 0 =>
        conn'[sub[subs'[t][i]].conn] = "on" /\ swarm'[sub[subs'[t][i]].conn] = t
  BY <1>5 DEF SubsInv, RegInv
<1>17. subs' \in [Swarms -> [SubIds -> 0 .. reqs]]
  BY <1>5 DEF SubsInv, SubTypes
<1> QED BY <1>5, <1>10, <1>11, <1>12, <1>13, <1>14, <1>15, <1>16, <1>17, SubsFrame

(* A REQ makes a subscription object of its own.                           *)
LEMMA ReceiveReqOK ==
  ASSUME SubsInv, TopicInv, DbInv, NEW c \in Conns, NEW k \in SubIds,
         NEW fs \in FilterSets, ReceiveReq(c, k, fs)
  PROVE  SubsInv'
<1> DEFINE r == reqs + 1
           base == queryArray(swarm[c], fs)
           x == [NoSub EXCEPT !.conn = c, !.id = k, !.filters = fs,
                   !.swarm = swarm[c], !.open = TRUE, !.base = base]
           y == [req |-> r, first |-> TRUE, phase |-> "update", result |-> {}]
<1>1. /\ conn' = conn /\ swarm' = swarm /\ made' = made /\ view' = view /\ removed' = removed
      /\ conn[c] = "on" /\ r \in Reqs /\ reqs' = r
      /\ subs' = [subs EXCEPT ![swarm[c]][k] = r]
      /\ queries' = queries \cup {y}
      /\ sub' = [q \in Reqs |->
                   IF q = r THEN x
                   ELSE IF sub[q].conn = c /\ sub[q].id = k
                        THEN [sub[q] EXCEPT !.open = FALSE] ELSE sub[q]]
  BY DEF ReceiveReq, topicVars, dbVars
<1>2. swarm[c] \in 1 .. made /\ swarm[c] \in Swarms
  BY <1>1, Attached
<1>3. base \in SUBSET Events /\ base = {e \in stored(swarm[c]) : Asked(e, fs)}
  <2>1. base = {e \in stored(swarm[c]) : Asked(e, fs)}
    BY DEF queryArray, Asked
  <2> QED BY <1>2, <2>1, StoredEvents DEF DbInv
<1> HIDE DEF base
<1>4. NoSub \in Subscription
  BY DEF NoSub, Subscription
<1>5. /\ x \in Subscription /\ x.conn = c /\ x.swarm = swarm[c] /\ x.filters = fs
      /\ x.base = base /\ x.id = k /\ x.open = TRUE /\ x.due = {}
  BY <1>2, <1>3, <1>4 DEF Subscription, NoSub
<1>6. Once(x) /\ x.eose = 0
  BY DEF Once, NoSub
<1> HIDE DEF x
<1>7. reqs \in Nat /\ r \in 0 .. MaxReqs /\ 1 .. reqs \subseteq Reqs /\ r \notin 1 .. reqs
  BY <1>1, HyperAssumption DEF SubsInv, SubTypes, Reqs
<1>8. ASSUME NEW q \in Reqs, q # r
      PROVE  Same(sub[q], sub'[q]) /\ sub'[q].eose = sub[q].eose
  <2>1. sub[q] \in Subscription /\ Once(sub[q])
    BY DEF SubsInv, SubTypes
  <2>2. sub'[q] = sub[q] \/ sub'[q] = [sub[q] EXCEPT !.open = FALSE]
    BY <1>1, <1>8
  <2> QED BY <2>1, <2>2, ShutSame
<1>9. sub'[r] = x
  BY <1>1
<1>10. sub' \in [Reqs -> Subscription] /\ \A q \in Reqs : Once(sub'[q])
  BY <1>1, <1>5, <1>6, <1>8, <1>9 DEF Same
<1>11. \A q \in 1 .. reqs :
         /\ sub'[q].conn = sub[q].conn /\ sub'[q].swarm = sub[q].swarm
         /\ sub'[q].filters = sub[q].filters /\ sub'[q].base = sub[q].base
         /\ sub'[q].eose = sub[q].eose /\ sub[q].receivedEvents \subseteq sub'[q].receivedEvents
  BY <1>7, <1>8 DEF Same
<1>12. \A q \in 1 .. r : q \in 1 .. reqs \/ q = r
  BY <1>7
<1> HIDE DEF r
<1>13. SubTypes'
  <2>1. /\ subs \in [Swarms -> [SubIds -> 0 .. reqs]] /\ 0 .. reqs \subseteq 0 .. r
        /\ r \in 0 .. r
    BY <1>7 DEF SubsInv, SubTypes, r
  <2>2. subs' \in [Swarms -> [SubIds -> 0 .. r]]
    BY <1>1, <1>2, <2>1
  <2>3. Query \subseteq Query' /\ y \in Query'
    BY <1>1, <1>7 DEF Query, r
  <2>4. queries' \subseteq Query'
    BY <1>1, <2>3 DEF SubsInv, SubTypes
  <2>5. \A q \in 1 .. r : sub'[q].conn \in Conns /\ sub'[q].swarm \in 1 .. made'
    BY <1>1, <1>2, <1>5, <1>9, <1>11, <1>12 DEF SubsInv, SubTypes
  <2>6. \A q \in Reqs : Once(sub[q])'
    BY <1>10 DEF Once
  <2> QED BY <1>1, <1>7, <1>10, <2>2, <2>4, <2>5, <2>6 DEF SubTypes
<1>14. RegInv'
  <2> SUFFICES ASSUME NEW s \in Swarms, NEW i \in SubIds, subs'[s][i] # 0
               PROVE  /\ conn'[sub'[subs'[s][i]].conn] = "on"
                      /\ swarm'[sub'[subs'[s][i]].conn] = s
    BY DEF RegInv
  <2>1. CASE s = swarm[c] /\ i = k
    <3>1. subs'[s][i] = r
      BY <1>1, <1>2, <2>1 DEF SubsInv, SubTypes
    <3> QED BY <1>1, <1>5, <1>9, <2>1, <3>1
  <2>2. CASE ~(s = swarm[c] /\ i = k)
    <3>1. subs'[s][i] = subs[s][i]
      BY <1>1, <1>2, <2>2 DEF SubsInv, SubTypes
    <3>2. subs[s][i] \in 1 .. reqs
      BY <1>7, <3>1 DEF SubsInv, SubTypes
    <3>3. sub'[subs[s][i]].conn = sub[subs[s][i]].conn
      BY <1>11, <3>2
    <3> QED BY <1>1, <3>1, <3>3 DEF SubsInv, RegInv
  <2> QED BY <2>1, <2>2
<1>15. BaseInv'
  <2> SUFFICES ASSUME NEW q \in 1 .. r, NEW e \in sub'[q].base
               PROVE  /\ Asked(e, sub'[q].filters)
                      /\ e \in {d.event : d \in view'[sub'[q].swarm]} \cup removed'
    BY <1>1 DEF BaseInv, stored
  <2>1. CASE q = r
    BY <1>1, <1>3, <1>5, <1>9, <2>1 DEF stored
  <2>2. CASE q \in 1 .. reqs
    BY <1>1, <1>11, <2>2 DEF SubsInv, BaseInv, stored
  <2> QED BY <1>12, <2>1, <2>2
<1>16. ResultInv'
  <2> SUFFICES ASSUME NEW q \in queries', q.phase = "found", NoLimit(sub'[q.req].filters)
               PROVE  sub'[q.req].base \subseteq q.result \cup removed'
    BY DEF ResultInv
  <2>1. q \in queries
    BY <1>1
  <2>2. q.req \in 1 .. reqs
    BY <2>1 DEF SubsInv, SubTypes, Query
  <2> QED BY <1>1, <1>11, <2>1, <2>2 DEF SubsInv, ResultInv
<1>17. EoseInv'
  <2> SUFFICES ASSUME NEW q \in 1 .. r, sub'[q].eose > 0, NoLimit(sub'[q].filters)
               PROVE  sub'[q].base \subseteq sub'[q].receivedEvents \cup removed'
    BY <1>1 DEF EoseInv
  <2>1. q # r
    BY <1>6, <1>9
  <2>2. q \in 1 .. reqs
    BY <1>12, <2>1
  <2> QED BY <1>1, <1>11, <2>2 DEF SubsInv, EoseInv
<1>18. FreshInv'
  <2> SUFFICES ASSUME NEW q \in Reqs \ (1 .. r) PROVE sub'[q].base = {}
    BY <1>1 DEF FreshInv
  <2>1. q # r /\ q \notin 1 .. reqs
    BY <1>7 DEF r, Reqs
  <2> QED BY <1>8, <2>1 DEF SubsInv, FreshInv, Same
<1> QED BY <1>13, <1>14, <1>15, <1>16, <1>17, <1>18 DEF SubsInv

LEMMA SubsStep ==
  ASSUME TopicInv, DbInv, SubsInv, [Next]_vars
  PROVE  SubsInv'
<1>0. TopicInv' /\ Steady /\ StoredKept /\ made' \in Nat /\ made <= made'
  BY TopicStep, StoredStep DEF TopicInv, Steady
<1>1. ASSUME UNCHANGED subVars,
             \A c \in Conns : conn[c] = "on" => conn'[c] = "on" /\ swarm'[c] = swarm[c]
      PROVE  SubsInv'
  <2>1. reqs' = reqs /\ queries' = queries /\ sub' = sub /\ subs' = subs
    BY <1>1 DEF subVars
  <2>2. /\ sub' \in [Reqs -> Subscription]
        /\ \A r \in Reqs : Same(sub[r], sub'[r]) /\ sub'[r].eose = sub[r].eose
    BY <2>1 DEF SubsInv, SubTypes, Same
  <2>3. /\ subs' \in [Swarms -> [SubIds -> 0 .. reqs]]
        /\ \A s \in Swarms, i \in SubIds : subs'[s][i] \in {0, subs[s][i]}
    BY <2>1 DEF SubsInv, SubTypes
  <2>4. ASSUME NEW s \in Swarms, NEW i \in SubIds, subs'[s][i] # 0
        PROVE  /\ conn'[sub[subs[s][i]].conn] = "on"
               /\ swarm'[sub[subs[s][i]].conn] = swarm[sub[subs[s][i]].conn]
    <3>1. subs[s][i] \in 1 .. reqs
      BY <2>1, <2>4 DEF SubsInv, SubTypes
    <3>2. sub[subs[s][i]].conn \in Conns /\ conn[sub[subs[s][i]].conn] = "on"
      BY <2>1, <2>4, <3>1 DEF SubsInv, SubTypes, RegInv
    <3> QED BY <1>1, <3>2
  <2> QED BY <1>0, <2>1, <2>2, <2>3, <2>4, SubsQuiet
<1>2. CASE UNCHANGED vars
  BY <1>1, <1>2 DEF vars, subVars
<1>3. ASSUME NEW c \in Conns, Connect(c) \/ SwarmCreated(c) \/ CloseEarly(c) PROVE SubsInv'
  <2>1. UNCHANGED subVars
    BY <1>3 DEF Connect, SwarmCreated, CloseEarly
  <2>2. \A d \in Conns : conn[d] = "on" => conn'[d] = "on" /\ swarm'[d] = swarm[d]
    BY <1>3 DEF Connect, SwarmCreated, CloseEarly, TopicInv
  <2> QED BY <1>1, <2>1, <2>2
<1>4. ASSUME NEW w \in writes, handleEvent(w) PROVE SubsInv'
  <2>1. UNCHANGED subVars /\ conn' = conn /\ swarm' = swarm
    BY <1>4 DEF handleEvent, topicVars
  <2> QED BY <1>1, <2>1
<1>5. ASSUME NEW s \in Swarms, NEW e \in UNION RemoteDBs, ReceiveFromPeer(s, e) PROVE SubsInv'
  <2>1. e \in Events
    BY HyperAssumption
  <2> QED BY <1>0, <1>5, <2>1, ReceiveFromPeerOK
<1> QED BY <1>0, <1>2, <1>3, <1>4, <1>5, CloseConnOK, ReceiveEventOK, ReceiveReqOK,
           ReceiveCloseOK, RunQueryOK, DeliverQueryOK, NewDBOK DEF Next

-----------------------------------------------------------------------------
RelayInv == TopicInv /\ DbInv /\ SubsInv

LEMMA RelayInit == Init => RelayInv
<1> SUFFICES ASSUME Init PROVE RelayInv
  OBVIOUS
<1>1. TopicInv
  <2>1. IsFiniteSet(Connected)
    BY HyperAssumption, FS_Subset DEF Connected
  <2>2. Cardinality(Connected) \in Nat
    BY <2>1, FS_CardinalityType
  <2> QED BY <2>2 DEF Init, TopicInv
<1>2. DbInv
  BY HyperAssumption DEF Init, DbInv
<1>3. NoSub \in Subscription /\ Once(NoSub)
  BY DEF NoSub, Subscription, Once
<1>4. SubTypes
  BY <1>3, HyperAssumption DEF Init, SubTypes
<1>5. RegInv /\ BaseInv /\ ResultInv /\ EoseInv /\ FreshInv
  BY DEF Init, RegInv, BaseInv, ResultInv, EoseInv, FreshInv, NoSub
<1> QED BY <1>1, <1>2, <1>4, <1>5 DEF RelayInv, SubsInv

(* The inductive invariant of the relay.                                   *)
THEOREM RelayInductive == Spec => []RelayInv
<1>1. RelayInv /\ [Next]_vars => RelayInv'
  BY TopicStep, DbStep, SubsStep DEF RelayInv
<1> QED BY RelayInit, <1>1, PTL DEF Spec

(* Type correctness of connections, subscriptions, queries, documents and  *)
(* handlers.                                                               *)
THEOREM RelayTypes == Spec => []TypeOK
<1>1. RelayInv => TypeOK
  BY DEF RelayInv, TopicInv, DbInv, SubsInv, SubTypes, TypeOK, Write, Query, Ids
<1> QED BY RelayInductive, <1>1, PTL

(* No event goes out twice for one subscription, however streamed events   *)
(* and the queries of REQs and of new databases interleave.                *)
THEOREM SendsOnce == Spec => []SentOnce
<1>1. RelayInv => SentOnce
  BY DEF RelayInv, SubsInv, SubTypes, Once, SentOnce
<1> QED BY RelayInductive, <1>1, PTL

(* EOSE of a REQ without limit comes after all that was stored when the    *)
(* REQ came in and has not been removed.                                   *)
THEOREM EoseEndsStored == Spec => []EoseAfterStored
<1>1. RelayInv => EoseAfterStored
  <2> SUFFICES ASSUME RelayInv, NEW r \in Reqs, sub[r].eose > 0,
                      \A f \in sub[r].filters : f.limit = 0, NEW e \in sub[r].base
               PROVE  sub[r].sent[e] > 0 \/ e \in removed
    BY DEF EoseAfterStored
  <2>1. CASE r \in 1 .. reqs
    <3>1. e \in sub[r].receivedEvents \cup removed
      BY <2>1 DEF RelayInv, SubsInv, EoseInv, NoLimit
    <3>2. e \in Events
      BY DEF RelayInv, SubsInv, SubTypes, Subscription
    <3> QED BY <3>1, <3>2 DEF RelayInv, SubsInv, SubTypes, Once
  <2>2. CASE r \notin 1 .. reqs
    BY <2>2 DEF RelayInv, SubsInv, FreshInv
  <2> QED BY <2>1, <2>2
<1> QED BY RelayInductive, <1>1, PTL

(* A closed socket leaves no subscription registered.                      *)
THEOREM ClosedIsGone == Spec => []ClosedLeavesNothing
<1>1. RelayInv => ClosedLeavesNothing
  BY DEF RelayInv, SubsInv, RegInv, ClosedLeavesNothing
<1> QED BY RelayInductive, <1>1, PTL

-----------------------------------------------------------------------------
(* Who removes what.  Every event that a step takes out of the collection  *)
(* was in a document of the author for whom the step is taken.             *)
LEMMA PutRemoves ==
  ASSUME DbInv, NEW s \in Swarms, NEW ids, NEW E, NEW a,
         \A i \in ids : PubKey[i[2]] = a, Put(s, ids, E),
         NEW t \in Swarms, NEW e \in stored(t) \ stored(t)'
  PROVE  PubKey[e] = a
<1>1. PICK d \in view[t] : d.event = e
  BY DEF stored
<1>2. d \notin view'[t]
  BY <1>1 DEF stored
<1>3. d._id \in ids
  BY <1>2 DEF Put
<1>4. PubKey[d.event] = PubKey[d._id[2]]
  BY DEF DbInv
<1> QED BY <1>1, <1>3, <1>4

LEMMA InsertRemoves ==
  ASSUME DbInv, NEW w, Insert(w), NEW t \in Swarms
  PROVE  stored(t) \subseteq stored(t)'
<1>1. view[t] \subseteq view'[t]
  BY DEF Insert
<1> QED BY <1>1 DEF stored

LEMMA HandlerRemoves ==
  ASSUME TopicInv, DbInv, NEW w \in writes, handleEvent(w),
         NEW t \in Swarms, NEW e \in stored(t) \ stored(t)'
  PROVE  w \notin writes' /\ PubKey[e] = PubKey[w.event]
<1>1. w.swarm \in Swarms /\ w.event \in Events /\ w \in Write
  BY SwarmsEnough DEF DbInv, Write
<1>2. CASE Store(w)
  <2>1. w \notin writes'
    BY <1>2 DEF Store
  <2>2. CASE Insert(w)
    BY <2>2, InsertRemoves
  <2>3. CASE Put(w.swarm, Found(w.swarm, w.event), {w.event})
    <3>1. \A i \in Found(w.swarm, w.event) : PubKey[i[2]] = PubKey[w.event]
      BY <1>1, FoundOwn DEF DbInv, Owned
    <3>2. PICK d \in view[t] : d.event = e
      BY DEF stored
    <3>3. d \notin view'[t]
      BY <3>2 DEF stored
    <3>4. d._id \in Found(w.swarm, w.event)
      <4> HIDE DEF Found
      <4> QED BY ONLY <2>3, <3>3, d \in view[t], t \in Swarms DEF Put
    <3>5. PubKey[e] = PubKey[w.event]
      <4>1. PubKey[d.event] = PubKey[d._id[2]]
        BY DEF DbInv
      <4> QED BY ONLY <3>1, <3>2, <3>4, <4>1
    <3> QED BY <2>1, <3>5
  <2> QED BY <1>2, <2>2, <2>3 DEF Store
<1>3. CASE Find(w)
  BY <1>3 DEF Find, stored
<1>4. CASE ChangeOne(w)
  <2>1. PICK i \in w.ids :
          /\ Put(w.swarm, {i}, IF getEventType(Kind[w.event]) = "delete" THEN {} ELSE {w.event})
          /\ writes' = (writes \ {w}) \cup
                         IF w.ids = {i} THEN {} ELSE {[w EXCEPT !.ids = @ \ {i}]}
    BY <1>4 DEF ChangeOne
  <2>2. [w EXCEPT !.ids = @ \ {i}] # w
    <3>1. [w EXCEPT !.ids = @ \ {i}].ids = w.ids \ {i}
      BY <1>1 DEF Write
    <3> QED BY <3>1
  <2>3. w \notin writes'
    BY <2>1, <2>2
  <2>4. \A j \in {i} : PubKey[j[2]] = PubKey[w.event]
    BY DEF DbInv
  <2>5. PICK E : Put(w.swarm, {i}, E)
    BY <2>1
  <2>6. PubKey[e] = PubKey[w.event]
    BY ONLY DbInv, <1>1, <2>4, <2>5, t \in Swarms, e \in stored(t) \ stored(t)', PutRemoves
  <2> QED BY <2>3, <2>6
<1> QED BY <1>2, <1>3, <1>4 DEF handleEvent

(* Only an event's author takes it out of the collection, whatever the     *)
(* documents hold by the time a handler gets to change them.               *)
THEOREM AuthorsRemove == Spec => OnlyAuthorRemoves
<1>1. ASSUME RelayInv, [Next]_vars
      PROVE  \A s \in Swarms : \A d \in stored(s) \ stored(s)' :
               \E w \in writes \ writes' : PubKey[w.event] = PubKey[d]
  <2>1. CASE UNCHANGED view
    BY <2>1 DEF stored
  <2>2. ASSUME NEW w \in writes, handleEvent(w)
        PROVE  \A s \in Swarms : \A d \in stored(s) \ stored(s)' :
                 \E x \in writes \ writes' : PubKey[x.event] = PubKey[d]
    BY <1>1, <2>2, HandlerRemoves DEF RelayInv
  <2>3. ASSUME NEW s \in Swarms, NEW D, NewDB(s, D)
        PROVE  \A t \in Swarms : stored(t) \subseteq stored(t)'
    <3>1. \A t \in Swarms : view[t] \subseteq view'[t]
      BY <1>1, <2>3 DEF NewDB, RelayInv, DbInv
    <3> QED BY <3>1 DEF stored
  <2>4. CASE UNCHANGED vars
    BY <2>1, <2>4 DEF vars
  <2>5. ASSUME NEW c \in Conns, Connect(c) \/ SwarmCreated(c) \/ CloseEarly(c) \/ CloseConn(c)
        PROVE  UNCHANGED view
    BY <2>5 DEF Connect, SwarmCreated, CloseEarly, CloseConn, dbVars
  <2>6. ASSUME NEW c \in Conns, NEW i \in SubIds, NEW fs \in FilterSets, ReceiveReq(c, i, fs)
        PROVE  UNCHANGED view
    BY <2>6 DEF ReceiveReq, dbVars
  <2>7. ASSUME NEW c \in Conns, NEW i \in SubIds, ReceiveClose(c, i) PROVE UNCHANGED view
    BY <2>7 DEF ReceiveClose, dbVars
  <2>8. ASSUME NEW q \in queries, RunQuery(q) \/ DeliverQuery(q) PROVE UNCHANGED view
    BY <2>8 DEF RunQuery, DeliverQuery, dbVars
  <2>9. ASSUME NEW c \in Conns, NEW e \in Events, ReceiveEvent(c, e) PROVE UNCHANGED view
    BY <2>9 DEF ReceiveEvent
  <2>10. ASSUME NEW s \in Swarms, NEW e, ReceiveFromPeer(s, e) PROVE UNCHANGED view
    BY <2>10 DEF ReceiveFromPeer
  <2> QED BY <1>1, <2>1, <2>2, <2>3, <2>4, <2>5, <2>6, <2>7, <2>8, <2>9, <2>10 DEF Next
<1>2. RelayInv /\ [Next]_vars =>
        [\A s \in Swarms : \A d \in stored(s) \ stored(s)' :
           \E w \in writes \ writes' : PubKey[w.event] = PubKey[d]]_vars
  BY <1>1
<1> QED BY RelayInductive, <1>2, PTL DEF Spec, OnlyAuthorRemoves

-----------------------------------------------------------------------------
(* Future events.  The relay keeps NIP-01's promise if the topic was set   *)
(* up at the start and no two sockets use the same subscription id.        *)
Apart ==
  /\ Started = TRUE
  /\ \A c, d \in Conns : c # d => IdsOf[c] \cap IdsOf[d] = {}

(* There is one swarm then, and a subscription its client holds open is    *)
(* the one registered under its id, and has got what it is due.            *)
OneSwarm == made = 1 /\ entry = 1 /\ \A c \in Conns : conn[c] \notin {"creating", "aborted"}
Served(r) ==
  /\ r \in 1 .. reqs
  /\ subs[1][sub[r].id] = r /\ sub[r].id \in IdsOf[sub[r].conn]
  /\ sub[r].due \subseteq sub[r].receivedEvents
OpenInv == \A r \in Reqs : sub[r].open => Served(r)

LEMMA OneSwarmStep ==
  ASSUME TopicInv, OneSwarm, [Next]_vars
  PROVE  OneSwarm'
<1>1. CASE UNCHANGED topicVars
  BY <1>1 DEF OneSwarm, topicVars
<1>2. ASSUME NEW c \in Conns, Connect(c) \/ SwarmCreated(c) \/ CloseEarly(c) \/ CloseConn(c)
      PROVE  OneSwarm'
  BY <1>2 DEF Connect, SwarmCreated, CloseEarly, CloseConn, OneSwarm, TopicInv
<1>3. CASE UNCHANGED vars
  BY <1>1, <1>3 DEF vars, topicVars
<1>4. ASSUME NEW c \in Conns, NEW e \in Events, ReceiveEvent(c, e) PROVE UNCHANGED topicVars
  BY <1>4 DEF ReceiveEvent
<1>5. ASSUME NEW w \in writes, handleEvent(w) PROVE UNCHANGED topicVars
  BY <1>5 DEF handleEvent
<1>6. ASSUME NEW c \in Conns, NEW i \in SubIds, NEW fs \in FilterSets, ReceiveReq(c, i, fs)
      PROVE  UNCHANGED topicVars
  BY <1>6 DEF ReceiveReq
<1>7. ASSUME NEW c \in Conns, NEW i \in SubIds, ReceiveClose(c, i) PROVE UNCHANGED topicVars
  BY <1>7 DEF ReceiveClose
<1>8. ASSUME NEW q \in queries, RunQuery(q) \/ DeliverQuery(q) PROVE UNCHANGED topicVars
  BY <1>8 DEF RunQuery, DeliverQuery
<1>9. ASSUME NEW s \in Swarms, NEW e, ReceiveFromPeer(s, e) \/ NewDB(s, e) PROVE UNCHANGED topicVars
  BY <1>9 DEF ReceiveFromPeer, NewDB
<1> QED BY <1>1, <1>2, <1>3, <1>4, <1>5, <1>6, <1>7, <1>8, <1>9 DEF Next

(* Every socket's swarm is that one.                                       *)
LEMMA AllInOne ==
  ASSUME TopicInv, OneSwarm, NEW c \in Conns, conn[c] = "on"
  PROVE  swarm[c] = 1 /\ 1 \in Swarms
  BY Attached DEF OneSwarm

(* A subscription is as it was but for what it has received.               *)
LEMMA StaysServed ==
  ASSUME SubsInv, OpenInv, NEW r \in Reqs, Same(sub[r], sub'[r]),
         1 .. reqs \subseteq 1 .. reqs',
         sub[r].open, sub'[r].due = sub[r].due, subs'[1][sub[r].id] = subs[1][sub[r].id]
  PROVE  Served(r)'
<1>1. /\ sub'[r].id = sub[r].id /\ sub'[r].conn = sub[r].conn
      /\ sub[r].receivedEvents \subseteq sub'[r].receivedEvents
  BY DEF Same
<1>2. Served(r)
  BY DEF OpenInv
<1>3. /\ r \in 1 .. reqs'
      /\ subs'[1][sub'[r].id] = r /\ sub'[r].id \in IdsOf[sub'[r].conn]
      /\ sub'[r].due \subseteq sub'[r].receivedEvents
  BY <1>1, <1>2 DEF Served
<1> QED BY <1>3 DEF Served

LEMMA OpenClose ==
  ASSUME TopicInv, OneSwarm, SubsInv, OpenInv, NEW c \in Conns, CloseConn(c)
  PROVE  OpenInv'
<1>1. /\ conn[c] = "on" /\ reqs' = reqs
      /\ sub' = [r \in Reqs |-> IF sub[r].conn = c THEN [sub[r] EXCEPT !.open = FALSE] ELSE sub[r]]
      /\ subs' = [subs EXCEPT ![swarm[c]] =
                     [i \in SubIds |-> IF @[i] # 0 /\ sub[@[i]].conn = c THEN 0 ELSE @[i]]]
  BY DEF CloseConn
<1>2. swarm[c] = 1 /\ 1 \in Swarms
  BY <1>1, AllInOne
<1> SUFFICES ASSUME NEW r \in Reqs, sub'[r].open PROVE Served(r)'
  BY DEF OpenInv
<1>3. sub[r] \in Subscription /\ Once(sub[r])
  BY DEF SubsInv, SubTypes
<1>4. sub[r].conn # c /\ sub'[r] = sub[r]
  BY <1>1, <1>3 DEF Subscription
<1>5. Served(r) /\ sub[r].id \in SubIds
  <2>1. Served(r)
    BY <1>4 DEF OpenInv
  <2>2. sub[r].conn \in Conns
    BY <2>1 DEF Served, SubsInv, SubTypes
  <2> QED BY <2>1, <2>2 DEF Served, SubIds
<1>6. subs'[1][sub[r].id] = subs[1][sub[r].id]
  <2>1. subs[1][sub[r].id] = r
    BY <1>5 DEF Served
  <2>2. subs'[1][sub[r].id] = IF subs[1][sub[r].id] # 0 /\ sub[subs[1][sub[r].id]].conn = c
                              THEN 0 ELSE subs[1][sub[r].id]
    BY <1>1, <1>2, <1>5 DEF SubsInv, SubTypes
  <2> QED BY <1>4, <2>1, <2>2
<1>7. Same(sub[r], sub'[r])
  BY <1>3, <1>4, ShutSame
<1> QED BY <1>1, <1>4, <1>6, <1>7, StaysServed

(* A socket's own REQ or CLOSE with an id touches no other socket's        *)
(* subscription.                                                           *)
LEMMA OthersApart ==
  ASSUME Apart, SubsInv, OpenInv, NEW c \in Conns, NEW k \in IdsOf[c],
         NEW r \in Reqs, sub[r].open, ~(sub[r].conn = c /\ sub[r].id = k)
  PROVE  sub[r].id # k /\ sub[r].id \in SubIds
<1>1. Served(r)
  BY DEF OpenInv
<1>2. sub[r].conn \in Conns
  BY <1>1 DEF Served, SubsInv, SubTypes
<1>3. sub[r].id \in SubIds
  BY <1>1, <1>2 DEF Served, SubIds
<1>4. ASSUME sub[r].id = k PROVE FALSE
  <2>1. sub[r].conn # c
    BY <1>4
  <2>2. k \in IdsOf[sub[r].conn] \cap IdsOf[c]
    BY <1>1, <1>4 DEF Served
  <2> QED BY <1>2, <2>1, <2>2 DEF Apart
<1> QED BY <1>3, <1>4

LEMMA OpenReceiveClose ==
  ASSUME Apart, TopicInv, OneSwarm, SubsInv, OpenInv, NEW c \in Conns, NEW k \in SubIds,
         ReceiveClose(c, k)
  PROVE  OpenInv'
<1>1. /\ conn[c] = "on" /\ k \in IdsOf[c] /\ reqs' = reqs
      /\ sub' = [r \in Reqs |-> IF sub[r].conn = c /\ sub[r].id = k
                                THEN [sub[r] EXCEPT !.open = FALSE] ELSE sub[r]]
      /\ subs' = [subs EXCEPT ![swarm[c]][k] = 0]
  BY DEF ReceiveClose
<1>2. swarm[c] = 1 /\ 1 \in Swarms
  BY <1>1, AllInOne
<1> SUFFICES ASSUME NEW r \in Reqs, sub'[r].open PROVE Served(r)'
  BY DEF OpenInv
<1>3. sub[r] \in Subscription /\ Once(sub[r])
  BY DEF SubsInv, SubTypes
<1>4. ~(sub[r].conn = c /\ sub[r].id = k) /\ sub'[r] = sub[r]
  BY <1>1, <1>3 DEF Subscription
<1>5. sub[r].id # k /\ sub[r].id \in SubIds
  BY <1>1, <1>4, OthersApart
<1>6. subs'[1][sub[r].id] = subs[1][sub[r].id]
  BY <1>1, <1>2, <1>5 DEF SubsInv, SubTypes
<1>7. Same(sub[r], sub'[r])
  BY <1>3, <1>4, ShutSame
<1> QED BY <1>1, <1>4, <1>6, <1>7, StaysServed

LEMMA OpenReceiveReq ==
  ASSUME Apart, TopicInv, OneSwarm, SubsInv, OpenInv, NEW c \in Conns, NEW k \in SubIds,
         NEW fs \in FilterSets, ReceiveReq(c, k, fs)
  PROVE  OpenInv'
<1> DEFINE n == reqs + 1
           base == queryArray(swarm[c], fs)
           x == [NoSub EXCEPT !.conn = c, !.id = k, !.filters = fs,
                   !.swarm = swarm[c], !.open = TRUE, !.base = base]
<1>1. /\ conn[c] = "on" /\ k \in IdsOf[c] /\ reqs' = n /\ n \in Reqs
      /\ sub' = [q \in Reqs |->
                   IF q = n THEN x
                   ELSE IF sub[q].conn = c /\ sub[q].id = k
                        THEN [sub[q] EXCEPT !.open = FALSE] ELSE sub[q]]
      /\ subs' = [subs EXCEPT ![swarm[c]][k] = n]
  BY DEF ReceiveReq
<1>2. swarm[c] = 1 /\ 1 \in Swarms
  BY <1>1, AllInOne
<1>3. x.conn = c /\ x.id = k /\ x.due = {}
  BY DEF NoSub
<1> HIDE DEF x
<1>4. reqs \in Nat /\ n \in 1 .. n /\ 1 .. reqs \subseteq 1 .. n
  BY DEF SubsInv, SubTypes
<1> HIDE DEF n
<1> SUFFICES ASSUME NEW r \in Reqs, sub'[r].open PROVE Served(r)'
  BY DEF OpenInv
<1>5. CASE r = n
  <2>1. sub'[r] = x
    BY <1>1, <1>5
  <2>2. subs'[1][k] = n
    BY <1>1, <1>2 DEF SubsInv, SubTypes
  <2>3. /\ r \in 1 .. reqs' /\ subs'[1][sub'[r].id] = r /\ sub'[r].id \in IdsOf[sub'[r].conn]
        /\ sub'[r].due \subseteq sub'[r].receivedEvents
    BY <1>1, <1>3, <1>4, <1>5, <2>1, <2>2
  <2> QED BY <2>3 DEF Served
<1>6. CASE r # n
  <2>1. sub[r] \in Subscription /\ Once(sub[r])
    BY DEF SubsInv, SubTypes
  <2>2. ~(sub[r].conn = c /\ sub[r].id = k) /\ sub'[r] = sub[r]
    BY <1>1, <1>6, <2>1 DEF Subscription
  <2>3. sub[r].id # k /\ sub[r].id \in SubIds
    BY <1>1, <2>2, OthersApart
  <2>4. subs'[1][sub[r].id] = subs[1][sub[r].id]
    BY <1>1, <1>2, <2>3 DEF SubsInv, SubTypes
  <2>5. Same(sub[r], sub'[r])
    BY <2>1, <2>2, ShutSame
  <2> QED BY <1>1, <1>4, <2>2, <2>4, <2>5, StaysServed
<1> QED BY <1>5, <1>6

(* A published event is streamed to every open subscription it matches.    *)
LEMMA OpenReceiveEvent ==
  ASSUME TopicInv, OneSwarm, SubsInv, OpenInv, NEW c \in Conns, NEW e \in Events,
         ReceiveEvent(c, e)
  PROVE  OpenInv'
<1>1. /\ conn[c] = "on" /\ reqs' = reqs /\ subs' = subs
      /\ sub' = Expect(e, streamEvent(swarm[c], e))
  BY DEF ReceiveEvent
<1>2. swarm[c] = 1 /\ 1 \in Swarms
  BY <1>1, AllInOne
<1> SUFFICES ASSUME NEW r \in Reqs, sub'[r].open PROVE Served(r)'
  BY DEF OpenInv
<1> DEFINE f == streamEvent(1, e)
           p == f[r]
<1>3. sub[r] \in Subscription /\ Once(sub[r])
  BY DEF SubsInv, SubTypes
<1>4. f \in [Reqs -> Subscription] /\ Same(sub[r], p) /\ p.open = sub[r].open /\ p.due = sub[r].due
  BY <1>2, StreamSame
<1>5. p = IF r \in Range(subs[1]) /\ validateEvent(e, sub[r].filters)
          THEN sendEventsTo(sub[r], {e}) ELSE sub[r]
  BY DEF streamEvent
<1>6. sub'[r] = IF p.open /\ e \in Valid /\ Matches(e, p.filters)
                THEN [p EXCEPT !.due = @ \cup {e}] ELSE p
  BY <1>1, <1>2 DEF Expect
<1> HIDE DEF f, p
<1>7. p \in Subscription /\ Once(p) /\ p.filters = sub[r].filters
  BY <1>4 DEF Same
<1>8. CASE sub'[r] = p
  <2>1. sub[r].open
    BY <1>4, <1>8
  <2> QED BY <1>1, <1>4, <1>8, <2>1, StaysServed
<1>9. CASE /\ sub'[r] = [p EXCEPT !.due = @ \cup {e}]
           /\ p.open /\ e \in Valid /\ Matches(e, p.filters)
  <2>1. Served(r)
    BY <1>4, <1>9 DEF OpenInv
  <2>2. sub[r].id \in SubIds
    BY <2>1 DEF Served, SubsInv, SubTypes, SubIds
  <2>3. r \in Range(subs[1])
    <3>1. subs[1] \in [SubIds -> 0 .. reqs]
      BY <1>2 DEF SubsInv, SubTypes
    <3> QED BY <2>1, <2>2, <3>1 DEF Served, Range
  <2>4. validateEvent(e, sub[r].filters)
    BY <1>7, <1>9 DEF validateEvent, Matches
  <2>5. p = sendEventsTo(sub[r], {e})
    BY <1>5, <2>3, <2>4
  <2>6. p.receivedEvents = sub[r].receivedEvents \cup {e}
    BY <1>3, <2>5, SendSame
  <2>7. /\ sub'[r].id = p.id /\ sub'[r].conn = p.conn /\ sub'[r].due = p.due \cup {e}
        /\ sub'[r].receivedEvents = p.receivedEvents
    BY <1>7, <1>9 DEF Subscription
  <2>8. /\ r \in 1 .. reqs' /\ subs'[1][sub'[r].id] = r /\ sub'[r].id \in IdsOf[sub'[r].conn]
        /\ sub'[r].due \subseteq sub'[r].receivedEvents
    BY <1>1, <1>4, <2>1, <2>6, <2>7 DEF Served, Same
  <2> QED BY <2>8 DEF Served
<1> QED BY <1>6, <1>8, <1>9

LEMMA OpenFromPeer ==
  ASSUME SubsInv, OpenInv, NEW s \in Swarms, NEW e \in Events, ReceiveFromPeer(s, e)
  PROVE  OpenInv'
<1>1. reqs' = reqs /\ subs' = subs /\ sub' = streamEvent(s, e)
  BY DEF ReceiveFromPeer
<1> SUFFICES ASSUME NEW r \in Reqs, sub'[r].open PROVE Served(r)'
  BY DEF OpenInv
<1>2. Same(sub[r], sub'[r]) /\ sub'[r].open = sub[r].open /\ sub'[r].due = sub[r].due
  BY <1>1, StreamSame
<1> QED BY <1>1, <1>2, StaysServed

LEMMA OpenDeliver ==
  ASSUME SubsInv, OpenInv, NEW q \in queries, DeliverQuery(q)
  PROVE  OpenInv'
<1> DEFINE o == sub[q.req]
           p == sendEventsTo(o, q.result)
           n == p.eose + IF q.first THEN 1 ELSE 0
           x == [p EXCEPT !.eose = n]
<1>1. reqs' = reqs /\ subs' = subs /\ sub' = [sub EXCEPT ![q.req] = x]
  BY DEF DeliverQuery
<1>2. q.req \in Reqs /\ q.result \in SUBSET Events /\ q.first \in BOOLEAN
  BY HyperAssumption DEF SubsInv, SubTypes, Query, Reqs
<1>3. o \in Subscription /\ Once(o)
  BY <1>2 DEF SubsInv, SubTypes
<1>4. Same(o, p) /\ p.open = o.open /\ p.due = o.due
  BY <1>2, <1>3, SendSame
<1>5. p \in Subscription /\ Once(p)
  BY <1>4 DEF Same
<1> HIDE DEF p
<1>6. n \in Nat
  BY <1>2, <1>5 DEF Subscription
<1> HIDE DEF n
<1>7. Same(p, x) /\ x.open = p.open /\ x.due = p.due
  BY <1>5, <1>6, EndSame
<1>8. Same(o, x)
  BY <1>4, <1>7, SameTrans
<1> HIDE DEF x
<1> SUFFICES ASSUME NEW r \in Reqs, sub'[r].open PROVE Served(r)'
  BY DEF OpenInv
<1>9. CASE r = q.req
  <2>1. sub'[r] = x
    BY <1>1, <1>2, <1>9 DEF SubsInv, SubTypes
  <2>2. Same(sub[r], sub'[r]) /\ sub'[r].open = sub[r].open /\ sub'[r].due = sub[r].due
    BY <1>4, <1>7, <1>8, <1>9, <2>1
  <2> QED BY <1>1, <2>2, StaysServed
<1>10. CASE r # q.req
  <2>1. sub'[r] = sub[r]
    BY <1>1, <1>10 DEF SubsInv, SubTypes
  <2>2. Same(sub[r], sub'[r])
    BY <2>1, ShutSame DEF SubsInv, SubTypes
  <2> QED BY <1>1, <2>1, <2>2, StaysServed
<1> QED BY <1>9, <1>10

LEMMA OpenStep ==
  ASSUME Apart, RelayInv, OneSwarm, OpenInv, [Next]_vars
  PROVE  OpenInv'
<1> USE DEF RelayInv
<1>1. CASE UNCHANGED <<sub, subs, reqs>>
  BY <1>1 DEF OpenInv, Served
<1>2. CASE UNCHANGED vars
  BY <1>1, <1>2 DEF vars
<1>3. ASSUME NEW c \in Conns, Connect(c) \/ SwarmCreated(c) \/ CloseEarly(c)
      PROVE  UNCHANGED <<sub, subs, reqs>>
  BY <1>3 DEF Connect, SwarmCreated, CloseEarly, subVars
<1>4. ASSUME NEW w \in writes, handleEvent(w) PROVE UNCHANGED <<sub, subs, reqs>>
  BY <1>4 DEF handleEvent, subVars
<1>5. ASSUME NEW q \in queries, RunQuery(q) PROVE UNCHANGED <<sub, subs, reqs>>
  BY <1>5 DEF RunQuery
<1>6. ASSUME NEW s \in Swarms, NEW D, NewDB(s, D) PROVE UNCHANGED <<sub, subs, reqs>>
  BY <1>6 DEF NewDB
<1>7. ASSUME NEW s \in Swarms, NEW e \in UNION RemoteDBs, ReceiveFromPeer(s, e) PROVE OpenInv'
  <2>1. e \in Events
    BY HyperAssumption
  <2> QED BY <1>7, <2>1, OpenFromPeer
<1> QED BY <1>1, <1>2, <1>3, <1>4, <1>5, <1>6, <1>7, OpenClose, OpenReceiveClose,
           OpenReceiveReq, OpenReceiveEvent, OpenDeliver DEF Next

(* A client that holds a subscription open gets every matching event that  *)
(* is published after the REQ, if the topic was set up at the start and    *)
(* no two sockets use the same id.                                         *)
THEOREM FutureReaches ==
  ASSUME Apart
  PROVE  Spec => []FutureEvents
<1>1. Init => OneSwarm /\ OpenInv
  BY DEF Apart, Init, OneSwarm, OpenInv, NoSub
<1>2. RelayInv /\ OneSwarm /\ OpenInv /\ [Next]_vars => OneSwarm' /\ OpenInv'
  BY OneSwarmStep, OpenStep DEF RelayInv
<1>3. RelayInv /\ OpenInv => FutureEvents
  <2> SUFFICES ASSUME RelayInv, OpenInv, NEW r \in Reqs, sub[r].open, NEW e \in sub[r].due
               PROVE  sub[r].sent[e] > 0
    BY DEF FutureEvents
  <2>1. e \in sub[r].receivedEvents
    BY DEF OpenInv, Served
  <2>2. e \in Events
    BY DEF RelayInv, SubsInv, SubTypes, Subscription
  <2> QED BY <2>1, <2>2 DEF RelayInv, SubsInv, SubTypes, Once
<1> QED BY RelayInductive, <1>1, <1>2, <1>3, PTL DEF Spec
=============================================================================
