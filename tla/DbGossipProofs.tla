--------------------------- MODULE DbGossipProofs ---------------------------
(***************************************************************************)
(* Proofs about DbGossip, for any set of relays, any connections and any   *)
(* number of restarts: the types, that no database is added twice, and     *)
(* that knownDBs and the inputs of the autobase agree.                     *)
(***************************************************************************)
EXTENDS DbGossip, TLAPS

(* Two suspended handlers of a relay are never adding the same url, and a  *)
(* url being added is neither the relay's own nor already an input.        *)
JobInv ==
  /\ \A j, k \in jobs : j.node = k.node /\ j.url = k.url => j = k
  /\ \A j \in jobs : j.url # j.node /\ inputs[j.node][j.url] = 0

GossipInv == TypeOK /\ JobInv /\ AddedOnce /\ KnownAreAdded

(* A url that is not in knownDBs is not the relay's own, not an input and  *)
(* not being added; adding it to the list and to the jobs keeps the books. *)
LEMMA NewUrl ==
  ASSUME TypeOK, KnownAreAdded, NEW n \in Nodes, NEW u \in Nodes \ known[n]
  PROVE  /\ u # n
         /\ inputs[n][u] = 0
         /\ \A j \in jobs : ~(j.node = n /\ j.url = u)
<1>1. known[n] = {n} \cup {v \in Nodes : inputs[n][v] > 0}
                     \cup {j.url : j \in {k \in jobs : k.node = n}}
  BY DEF KnownAreAdded
<1>2. inputs[n][u] \in Nat
  BY DEF TypeOK
<1> QED BY <1>1, <1>2

(* Both ends of a channel are relays.                                    *)
LEMMA ChannelEnds ==
  ASSUME NEW p \in Channels
  PROVE  p[1] \in Nodes /\ p[2] \in Nodes
BY DEF Channels

(* A broadcast of well-formed messages leaves the channels well formed.  *)
LEMMA BroadcastType ==
  ASSUME NEW ch \in [Channels -> Seq(Messages)], NEW n, NEW msgs \in Seq(Messages)
  PROVE  Broadcast(ch, n, msgs) \in [Channels -> Seq(Messages)]
BY DEF Broadcast

(* The two messages relays send are well formed.                         *)
LEMMA SendTypes ==
  ASSUME TypeOK, NEW n \in Nodes
  PROVE  <<DBs(n)>> \in Seq(Messages) /\ <<RequestSync, DBs(n)>> \in Seq(Messages)
<1>1. DBs(n) \in Messages /\ RequestSync \in Messages
  BY DEF DBs, RequestSync, Messages, TypeOK
<1> QED BY <1>1

(* Taking a message off a channel leaves the channels well formed.       *)
LEMMA TakenType ==
  ASSUME TypeOK, NEW p \in Channels, chan[p] # << >>
  PROVE  /\ Taken(p) \in [Channels -> Seq(Messages)]
         /\ Head(chan[p]).dbs \subseteq Nodes
<1>1. chan[p] \in Seq(Messages)
  BY DEF TypeOK
<1>2. Tail(chan[p]) \in Seq(Messages) /\ Head(chan[p]) \in Messages
  BY <1>1
<1> QED BY <1>2 DEF Taken, TypeOK, Messages

(* What StartAdding does to the lists and the jobs of a relay.             *)
LEMMA StartAddingInv ==
  ASSUME TypeOK, KnownAreAdded, NEW n \in Nodes, NEW urls \in SUBSET Nodes,
         NEW js \in SUBSET jobs, StartAdding(n, urls, js)
  PROVE  \E u \in urls \ known[n] :
           /\ known' = [known EXCEPT ![n] = known[n] \cup {u}]
           /\ known' \in [Nodes -> SUBSET Nodes]
           /\ jobs' \in SUBSET Jobs
           /\ jobs' = js \cup {[node |-> n, url |-> u, rest |-> urls \ {u}]}
<1>1. PICK u \in urls \ known[n] :
        /\ known' = [known EXCEPT ![n] = known[n] \cup {u}]
        /\ jobs' = js \cup {[node |-> n, url |-> u, rest |-> urls \ {u}]}
  BY DEF StartAdding
<1>2. known' \in [Nodes -> SUBSET Nodes]
  BY <1>1 DEF TypeOK
<1>3. jobs' \in SUBSET Jobs
  <2>1. [node |-> n, url |-> u, rest |-> urls \ {u}] \in Jobs
    BY DEF Jobs
  <2>2. js \in SUBSET Jobs
    BY DEF TypeOK
  <2> QED BY <1>1, <2>1, <2>2
<1> QED BY <1>1, <1>2, <1>3

(* The books agree at the start.                                         *)
LEMMA InitGossipInv == Init => GossipInv
<1> SUFFICES ASSUME Init PROVE GossipInv
  OBVIOUS
<1>1. TypeOK
  BY DEF Init, TypeOK
<1>2. JobInv /\ AddedOnce
  BY DEF Init, JobInv, AddedOnce
<1>3. KnownAreAdded
  BY DEF Init, KnownAreAdded
<1> QED BY <1>1, <1>2, <1>3 DEF GossipInv

(* Every step keeps the types.                                           *)
LEMMA NextTypeOK ==
  ASSUME TypeOK, KnownAreAdded, [Next]_vars
  PROVE  TypeOK'
<1>1. CASE UNCHANGED vars
  BY <1>1 DEF TypeOK, vars
<1>2. ASSUME NEW l \in Links, Connect(l) PROVE TypeOK'
  <2>1. {x \in l \X l : x[1] # x[2]} \subseteq Channels
    <3>1. PICK n, m \in Nodes : n # m /\ l = {n, m}
      BY GossipAssumption
    <3>2. ASSUME NEW x \in l \X l, x[1] # x[2] PROVE x \in Channels
      BY <3>1, <3>2 DEF Channels
    <3> QED BY <3>2
  <2> QED BY <1>2, <2>1 DEF Connect, TypeOK, state
<1>3. ASSUME NEW ls, Sever(ls)
      PROVE  /\ up' \in SUBSET Links /\ adds' \in SUBSET Channels
             /\ chan' \in [Channels -> Seq(Messages)]
  <2>1. << >> \in Seq(Messages)
    OBVIOUS
  <2> QED BY <1>3, <2>1 DEF Sever, TypeOK
<1>4. ASSUME NEW l \in Links, Disconnect(l) PROVE TypeOK'
  BY <1>3, <1>4 DEF Disconnect, TypeOK, state
<1>5. ASSUME NEW x \in adds, InitConnection(x) PROVE TypeOK'
  <2>1. x[1] \in Nodes
    BY ChannelEnds DEF TypeOK
  <2>2. chan' \in [Channels -> Seq(Messages)]
    BY <1>5, <2>1, SendTypes, BroadcastType DEF InitConnection, TypeOK
  <2> QED BY <1>5, <2>2 DEF InitConnection, TypeOK, state
<1>6. ASSUME NEW p \in Channels, ReceiveRequest(p) PROVE TypeOK'
  <2>1. p[2] \in Nodes
    BY ChannelEnds
  <2>2. chan' \in [Channels -> Seq(Messages)]
    BY <1>6, <2>1, TakenType, SendTypes, BroadcastType DEF ReceiveRequest
  <2> QED BY <1>6, <2>2 DEF ReceiveRequest, TypeOK, state
<1>7. ASSUME NEW p \in Channels, ReceiveDBs(p) PROVE TypeOK'
  <2>1. /\ p[2] \in Nodes
        /\ chan' \in [Channels -> Seq(Messages)]
        /\ Head(chan[p]).dbs \subseteq Nodes
    BY <1>7, ChannelEnds, TakenType DEF ReceiveDBs
  <2>2. known' \in [Nodes -> SUBSET Nodes] /\ jobs' \in SUBSET Jobs
    <3>1. CASE UNCHANGED <<known, jobs>>
      BY <3>1 DEF TypeOK
    <3>2. CASE StartAdding(p[2], Head(chan[p]).dbs, jobs)
      BY <2>1, <3>2, StartAddingInv
    <3> QED BY <1>7, <3>1, <3>2 DEF ReceiveDBs
  <2> QED BY <1>7, <2>1, <2>2 DEF ReceiveDBs, TypeOK
<1>8. ASSUME NEW j \in jobs, FinishAdding(j) PROVE TypeOK'
  <2>1. j.node \in Nodes /\ j.url \in Nodes /\ j.rest \in SUBSET Nodes
    BY DEF TypeOK, Jobs
  <2>2. inputs' \in [Nodes -> [Nodes -> Nat]]
    <3>1. [inputs[j.node] EXCEPT ![j.url] = inputs[j.node][j.url] + 1] \in [Nodes -> Nat]
      BY <2>1 DEF TypeOK
    <3> QED BY <1>8, <2>1, <3>1 DEF FinishAdding, TypeOK
  <2>3. /\ known' \in [Nodes -> SUBSET Nodes] /\ jobs' \in SUBSET Jobs
        /\ chan' \in [Channels -> Seq(Messages)]
    <3>1. CASE StartAdding(j.node, j.rest, jobs \ {j}) /\ UNCHANGED chan
      <4>1. jobs \ {j} \in SUBSET jobs
        OBVIOUS
      <4> QED BY <2>1, <3>1, <4>1, StartAddingInv DEF TypeOK
    <3>2. CASE jobs' = jobs \ {j} /\ UNCHANGED known
               /\ chan' = Broadcast(chan, j.node, <<DBs(j.node)>>)
      BY <2>1, <3>2, SendTypes, BroadcastType DEF TypeOK
    <3> QED BY <1>8, <3>1, <3>2 DEF FinishAdding
  <2> QED BY <1>8, <2>2, <2>3 DEF FinishAdding, TypeOK
<1>9. ASSUME NEW n \in Nodes, Crash(n) PROVE TypeOK'
  BY <1>3, <1>9 DEF Crash, Restart, TypeOK
<1> QED BY <1>1, <1>2, <1>4, <1>5, <1>6, <1>7, <1>8, <1>9 DEF Next

(* A relay takes up a url that is not in its list: the books still agree.  *)
LEMMA AddUrlInv ==
  ASSUME GossipInv, NEW n \in Nodes, NEW u \in Nodes \ known[n], NEW rest,
         known' = [known EXCEPT ![n] = known[n] \cup {u}],
         jobs' = jobs \cup {[node |-> n, url |-> u, rest |-> rest]},
         inputs' = inputs
  PROVE  JobInv' /\ AddedOnce' /\ KnownAreAdded'
<1> DEFINE j0 == [node |-> n, url |-> u, rest |-> rest]
<1>1. u # n /\ inputs[n][u] = 0 /\ \A j \in jobs : ~(j.node = n /\ j.url = u)
  BY NewUrl DEF GossipInv
<1>2. JobInv'
  BY <1>1 DEF JobInv, GossipInv
<1>3. AddedOnce'
  BY DEF AddedOnce, GossipInv
<1>4. ASSUME NEW m \in Nodes
      PROVE  known'[m] = {m} \cup {v \in Nodes : inputs'[m][v] > 0}
                             \cup {j.url : j \in {k \in jobs' : k.node = m}}
  <2>1. known[m] = {m} \cup {v \in Nodes : inputs[m][v] > 0}
                       \cup {j.url : j \in {k \in jobs : k.node = m}}
    BY DEF GossipInv, KnownAreAdded
  <2>2. CASE m = n
    <3>1. known'[m] = known[m] \cup {u}
      BY <2>2 DEF GossipInv, TypeOK
    <3>2. {j.url : j \in {k \in jobs' : k.node = m}}
            = {j.url : j \in {k \in jobs : k.node = m}} \cup {u}
      <4>1. {k \in jobs' : k.node = m} = {k \in jobs : k.node = m} \cup {j0}
        BY <2>2
      <4>2. j0.url = u
        OBVIOUS
      <4> HIDE DEF j0
      <4> QED BY <4>1, <4>2
    <3> QED BY <2>1, <3>1, <3>2
  <2>3. CASE m # n
    <3>1. known'[m] = known[m]
      BY <2>3 DEF GossipInv, TypeOK
    <3>2. {k \in jobs' : k.node = m} = {k \in jobs : k.node = m}
      BY <2>3
    <3> QED BY <2>1, <3>1, <3>2
  <2> QED BY <2>2, <2>3
<1>5. KnownAreAdded'
  BY <1>4 DEF KnownAreAdded
<1> QED BY <1>2, <1>3, <1>5

(* The same at the end of an addInput: its url moves from the jobs to the  *)
(* inputs, and the handler may take up one more.                           *)
LEMMA FinishInv ==
  ASSUME GossipInv, NEW j \in jobs, FinishAdding(j)
  PROVE  JobInv' /\ AddedOnce' /\ KnownAreAdded'
<1> DEFINE n == j.node
<1>0. n \in Nodes /\ j.url \in Nodes /\ j.rest \in SUBSET Nodes
  BY DEF GossipInv, TypeOK, Jobs
<1>1. j.url # n /\ inputs[n][j.url] = 0
  BY DEF GossipInv, JobInv
<1>2. /\ inputs'[n][j.url] = 1
      /\ \A m, v \in Nodes : (m # n \/ v # j.url) => inputs'[m][v] = inputs[m][v]
  BY <1>0, <1>1 DEF FinishAdding, GossipInv, TypeOK
<1>3. AddedOnce'
  BY <1>0, <1>1, <1>2 DEF AddedOnce, GossipInv
<1>4. ASSUME NEW m \in Nodes
      PROVE  known[m] = {m} \cup {v \in Nodes : inputs'[m][v] > 0}
                            \cup {k.url : k \in {i \in jobs \ {j} : i.node = m}}
  <2>1. known[m] = {m} \cup {v \in Nodes : inputs[m][v] > 0}
                       \cup {k.url : k \in {i \in jobs : i.node = m}}
    BY DEF GossipInv, KnownAreAdded
  <2>2. CASE m = n
    <3>1. {v \in Nodes : inputs'[m][v] > 0} = {v \in Nodes : inputs[m][v] > 0} \cup {j.url}
      BY <1>0, <1>2, <2>2
    <3>2. {i \in jobs : i.node = m} = {i \in jobs \ {j} : i.node = m} \cup {j}
      BY <2>2
    <3> QED BY <2>1, <3>1, <3>2
  <2>3. CASE m # n
    <3>1. {v \in Nodes : inputs'[m][v] > 0} = {v \in Nodes : inputs[m][v] > 0}
      BY <1>2, <2>3
    <3>2. {i \in jobs : i.node = m} = {i \in jobs \ {j} : i.node = m}
      BY <2>3
    <3> QED BY <2>1, <3>1, <3>2
  <2> QED BY <2>2, <2>3
<1>5. /\ \A i, k \in jobs \ {j} : i.node = k.node /\ i.url = k.url => i = k
      /\ \A k \in jobs \ {j} : k.url # k.node /\ inputs'[k.node][k.url] = 0
  <2>1. \A k \in jobs : k.node \in Nodes /\ k.url \in Nodes
    BY DEF GossipInv, TypeOK, Jobs
  <2> QED BY <1>2, <2>1 DEF GossipInv, JobInv
<1>6. CASE jobs' = jobs \ {j} /\ known' = known
  <2>1. JobInv'
    BY <1>5, <1>6 DEF JobInv
  <2>2. KnownAreAdded'
    BY <1>4, <1>6 DEF KnownAreAdded
  <2> QED BY <1>3, <2>1, <2>2
<1>7. CASE StartAdding(n, j.rest, jobs \ {j})
  <2>1. PICK u \in j.rest \ known[n] :
          /\ known' = [known EXCEPT ![n] = known[n] \cup {u}]
          /\ jobs' = (jobs \ {j}) \cup {[node |-> n, url |-> u, rest |-> j.rest \ {u}]}
    BY <1>7 DEF StartAdding
  <2> DEFINE j0 == [node |-> n, url |-> u, rest |-> j.rest \ {u}]
  <2>2. /\ u \in Nodes /\ u # n /\ inputs[n][u] = 0
        /\ \A k \in jobs : ~(k.node = n /\ k.url = u)
    BY <1>0, NewUrl DEF GossipInv
  <2>3. inputs'[n][u] = 0
    BY <1>0, <1>2, <2>2
  <2>4. JobInv'
    <3>1. jobs' = (jobs \ {j}) \cup {j0} /\ j0.node = n /\ j0.url = u
      BY <2>1
    <3>2. \A k \in jobs' : k.url # k.node /\ inputs'[k.node][k.url] = 0
      BY <1>5, <2>2, <2>3, <3>1
    <3>3. ASSUME NEW i \in jobs', NEW k \in jobs', i.node = k.node, i.url = k.url
          PROVE  i = k
      <4> HIDE DEF j0
      <4> QED BY <1>5, <2>2, <3>1, <3>3
    <3> QED BY <3>2, <3>3 DEF JobInv
  <2>5. ASSUME NEW m \in Nodes
        PROVE  known'[m] = {m} \cup {v \in Nodes : inputs'[m][v] > 0}
                               \cup {k.url : k \in {i \in jobs' : i.node = m}}
    <3>1. CASE m = n
      <4>1. known'[m] = known[m] \cup {u}
        BY <1>0, <2>1, <3>1 DEF GossipInv, TypeOK
      <4>2. {i \in jobs' : i.node = m} = {i \in jobs \ {j} : i.node = m} \cup {j0}
        BY <2>1, <3>1
      <4>3. j0.url = u
        OBVIOUS
      <4> HIDE DEF j0
      <4> QED BY <1>4, <4>1, <4>2, <4>3
    <3>2. CASE m # n
      <4>1. known'[m] = known[m]
        BY <2>1, <3>2 DEF GossipInv, TypeOK
      <4>2. {i \in jobs' : i.node = m} = {i \in jobs \ {j} : i.node = m}
        BY <2>1, <3>2
      <4> QED BY <1>4, <4>1, <4>2
    <3> QED BY <3>1, <3>2
  <2>6. KnownAreAdded'
    BY <2>5 DEF KnownAreAdded
  <2> QED BY <1>3, <2>4, <2>6
<1> QED BY <1>6, <1>7 DEF FinishAdding

(* Every step keeps the books.                                           *)
LEMMA NextGossipInv ==
  ASSUME GossipInv, [Next]_vars
  PROVE  GossipInv'
<1>1. TypeOK'
  BY NextTypeOK DEF GossipInv
<1> SUFFICES JobInv' /\ AddedOnce' /\ KnownAreAdded'
  BY <1>1 DEF GossipInv
<1>2. CASE UNCHANGED state
  BY <1>2 DEF state, GossipInv, JobInv, AddedOnce, KnownAreAdded
<1>3. ASSUME NEW p \in Channels, ReceiveDBs(p)
      PROVE  JobInv' /\ AddedOnce' /\ KnownAreAdded'
  <2>1. p[2] \in Nodes /\ Head(chan[p]).dbs \subseteq Nodes
    BY <1>3, ChannelEnds, TakenType DEF ReceiveDBs, GossipInv
  <2>2. CASE UNCHANGED <<known, jobs>>
    BY <1>2, <1>3, <2>2 DEF ReceiveDBs, state
  <2>3. CASE StartAdding(p[2], Head(chan[p]).dbs, jobs)
    <3>1. PICK u \in Head(chan[p]).dbs \ known[p[2]] :
            /\ known' = [known EXCEPT ![p[2]] = known[p[2]] \cup {u}]
            /\ jobs' = jobs \cup {[node |-> p[2], url |-> u,
                                   rest |-> Head(chan[p]).dbs \ {u}]}
      BY <2>3 DEF StartAdding
    <3>2. inputs' = inputs
      BY <1>3 DEF ReceiveDBs
    <3> QED BY <2>1, <3>1, <3>2, AddUrlInv
  <2> QED BY <1>3, <2>2, <2>3 DEF ReceiveDBs
<1>4. ASSUME NEW j \in jobs, FinishAdding(j)
      PROVE  JobInv' /\ AddedOnce' /\ KnownAreAdded'
  BY <1>4, FinishInv
<1>5. ASSUME NEW n \in Nodes, Crash(n)
      PROVE  JobInv' /\ AddedOnce' /\ KnownAreAdded'
  <2>1. /\ known' = [known EXCEPT ![n] = {n}]
        /\ inputs' = [inputs EXCEPT ![n] = [u \in Nodes |-> 0]]
        /\ jobs' = {j \in jobs : j.node # n}
    BY <1>5 DEF Crash, Restart
  <2>2. JobInv' /\ AddedOnce'
    BY <2>1 DEF GossipInv, JobInv, AddedOnce, TypeOK, Jobs
  <2>3. ASSUME NEW m \in Nodes
        PROVE  known'[m] = {m} \cup {v \in Nodes : inputs'[m][v] > 0}
                               \cup {j.url : j \in {k \in jobs' : k.node = m}}
    <3>1. CASE m = n
      <4>1. known'[m] = {m} /\ \A v \in Nodes : inputs'[m][v] = 0
        BY <2>1, <3>1 DEF GossipInv, TypeOK
      <4>2. {k \in jobs' : k.node = m} = {}
        BY <2>1, <3>1
      <4> QED BY <4>1, <4>2
    <3>2. CASE m # n
      <4>1. known'[m] = known[m] /\ inputs'[m] = inputs[m]
        BY <2>1, <3>2 DEF GossipInv, TypeOK
      <4>2. {k \in jobs' : k.node = m} = {k \in jobs : k.node = m}
        BY <2>1, <3>2
      <4> QED BY <4>1, <4>2 DEF GossipInv, KnownAreAdded
    <3> QED BY <3>1, <3>2
  <2>4. KnownAreAdded'
    BY <2>3 DEF KnownAreAdded
  <2> QED BY <2>2, <2>4
<1>6. CASE \/ \E l \in Links : Connect(l) \/ Disconnect(l)
           \/ \E x \in adds : InitConnection(x)
           \/ \E p \in Channels : ReceiveRequest(p)
           \/ UNCHANGED vars
  BY <1>2, <1>6 DEF Connect, Disconnect, InitConnection, ReceiveRequest, vars, state
<1> QED BY <1>3, <1>4, <1>5, <1>6 DEF Next

(* The inductive invariant holds in every reachable state.                 *)
THEOREM GossipInductive == Spec => []GossipInv
BY InitGossipInv, NextGossipInv, PTL DEF Spec

(* Types of the relays' state and of the messages between them.            *)
THEOREM GossipTypes == Spec => []TypeOK
<1>1. GossipInv => TypeOK
  BY DEF GossipInv
<1> QED BY <1>1, GossipInductive, PTL

(* No relay adds a database twice, however the handlers of lists from      *)
(* different peers interleave at their awaits.                             *)
THEOREM AddsOnce == Spec => []AddedOnce
<1>1. GossipInv => AddedOnce
  BY DEF GossipInv
<1> QED BY <1>1, GossipInductive, PTL

(* knownDBs agrees with the inputs of the autobase and the additions under *)
(* way, through lost messages, disconnections and restarts.                *)
THEOREM GossipCorrect == Spec => []KnownAreAdded
<1>1. GossipInv => KnownAreAdded
  BY DEF GossipInv
<1> QED BY <1>1, GossipInductive, PTL
=============================================================================
