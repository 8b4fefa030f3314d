------------------------------ MODULE DbGossip ------------------------------
(***************************************************************************)
(* How the relays of one topic find each other's databases (swarm.js):     *)
(* every relay keeps knownDBs, the urls of the databases it has heard of,  *)
(* and broadcasts it to its peers; a url heard for the first time is       *)
(* fetched and added as an input of the relay's autobase.                  *)
(*                                                                         *)
(* The handler of a received list is an async function: it is suspended in *)
(* `await handleNewDB(url)' for each new url, while other handlers of the  *)
(* same relay run.  A relay is identified with the url of its local input. *)
(***************************************************************************)
EXTENDS Naturals, Sequences, FiniteSets, Functions

CONSTANTS
  Nodes,      \* the relays of the topic, each standing for its own url
  Links,      \* the pairs of relays that may ever be connected
  MaxBacklog, \* bound: messages under way when one more connection comes up
  MaxDrops,   \* bound: connections lost
  MaxCrashes  \* bound: relay processes that die and are started again

ASSUME GossipAssumption ==
  /\ Links \subseteq {l \in SUBSET Nodes : \E n, m \in Nodes : n # m /\ l = {n, m}}
  /\ MaxBacklog \in Nat /\ MaxDrops \in Nat /\ MaxCrashes \in Nat

VARIABLES
  known,     \* knownDBs of each relay
  inputs,    \* how often each relay has added each url to its autobase
  jobs,      \* suspended handlers: the url being added, the urls still to do
  up,        \* the connections that are up
  adds,      \* 'peer-add' events not yet handled: <<relay, new peer>>
  chan,      \* the messages under way from one relay to another, in order
  drops, crashes  \* history: how many there were so far

vars == <<known, inputs, jobs, up, adds, chan, drops, crashes>>
state == <<known, inputs, jobs>>

Jobs == [node : Nodes, url : Nodes, rest : SUBSET Nodes]
Messages == [type : {"request-sync", "sync"}, dbs : SUBSET Nodes]

Channels == {p \in Nodes \X Nodes : {p[1], p[2]} \in Links}
Peers(n) == {m \in Nodes : {n, m} \in up /\ m # n}

(* Messages and 'peer-add' events under way.                               *)
Backlog == FoldFunction(LAMBDA q, k : Len(q) + k, Cardinality(adds), chan)

(* The channels after relay n sends msgs to every peer.                    *)
Broadcast(ch, n, msgs) ==
  [p \in Channels |->
     IF p[1] = n /\ p[2] \in Peers(n) THEN ch[p] \o msgs ELSE ch[p]]

(* broadcastDBs                                                            *)
DBs(n) == [type |-> "sync", dbs |-> known[n]]
RequestSync == [type |-> "request-sync", dbs |-> {}]

(* The channels after the message at the head of channel p is taken.       *)
Taken(p) == [chan EXCEPT ![p] = Tail(@)]

Init ==
  /\ known = [n \in Nodes |-> {n}]
  /\ inputs = [n \in Nodes |-> [u \in Nodes |-> 0]]
  /\ jobs = {}
  /\ up = {} /\ adds = {}
  /\ chan = [p \in Channels |-> << >>]
  /\ drops = 0 /\ crashes = 0

(* The discovery core connects two relays; both will see a 'peer-add'.     *)
Connect(l) ==
  /\ l \in Links \ up
  /\ Backlog <= MaxBacklog
  /\ up' = up \cup {l}
  /\ adds' = adds \cup {a \in l \X l : a[1] # a[2]}
  /\ UNCHANGED <<state, chan, drops, crashes>>

(* Messages of a lost connection are lost with it.                         *)
Sever(ls) ==
  /\ up' = up \ ls
  /\ adds' = {a \in adds : {a[1], a[2]} \notin ls}
  /\ chan' = [p \in Channels |-> IF {p[1], p[2]} \in ls THEN << >> ELSE chan[p]]

Disconnect(l) ==
  /\ l \in up
  /\ drops < MaxDrops
  /\ drops' = drops + 1
  /\ Sever({l})
  /\ UNCHANGED <<state, crashes>>

(* initConnection: ask every peer for its list and send them one's own.    *)
InitConnection(a) ==
  /\ a \in adds
  /\ adds' = adds \ {a}
  /\ chan' = Broadcast(chan, a[1], <<RequestSync, DBs(a[1])>>)
  /\ UNCHANGED <<state, up, drops, crashes>>

(* requestSync's onmessage is broadcastDBs: all peers get the answer.      *)
ReceiveRequest(p) ==
  /\ chan[p] # << >>
  /\ Head(chan[p]).type = "request-sync"
  /\ chan' = Broadcast(Taken(p), p[2], <<DBs(p[2])>>)
  /\ UNCHANGED <<state, up, adds, drops, crashes>>

(* Mutants of StartAdding: the list is added to knownDBs instead of the    *)
(* url, the url is not added to it, all urls of the list are.              *)
StartAddingList(n, urls, js) ==
  \E u \in urls \ known[n] :
    /\ known' = [known EXCEPT ![n] = @ \cup {u, urls}]
    /\ jobs' = js \cup {[node |-> n, url |-> u, rest |-> urls \ {u}]}
StartAddingUnmarked(n, urls, js) ==
  \E u \in urls \ known[n] :
    /\ known' = known
    /\ jobs' = js \cup {[node |-> n, url |-> u, rest |-> {}]}
StartAddingAll(n, urls, js) ==
  \E u \in urls \ known[n] :
    /\ known' = [known EXCEPT ![n] = @ \cup urls]
    /\ jobs' = js \cup {[node |-> n, url |-> u, rest |-> urls \ {u}]}

(* handleNewDB up to its await: the url is known before it is an input.    *)
(* urls are those the list still has to offer.                             *)
StartAdding(n, urls, js) ==
  \E u \in urls \ known[n] :
    /\ known' = [known EXCEPT ![n] = @ \cup {u}]
    /\ jobs' = js \cup {[node |-> n, url |-> u, rest |-> urls \ {u}]}

(* DBBroadcast's onmessage: urls already known are skipped; the handler    *)
(* runs up to the await for the first one that is not.                     *)
ReceiveDBs(p) ==
  LET dbs == Head(chan[p]).dbs
  IN  /\ chan[p] # << >>
      /\ Head(chan[p]).type = "sync"
      /\ chan' = Taken(p)
      /\ \/ /\ dbs \subseteq known[p[2]]
            /\ UNCHANGED <<known, jobs>>
         \/ StartAdding(p[2], dbs, jobs)
      /\ UNCHANGED <<inputs, up, adds, drops, crashes>>

(* Mutant of FinishAdding: the list is not broadcast after new urls.       *)
FinishSilently(j) ==
  LET n == j.node
  IN  /\ j \in jobs
      /\ inputs' = [inputs EXCEPT ![n][j.url] = @ + 1]
      /\ \/ /\ j.rest \subseteq known[n]
            /\ jobs' = jobs \ {j}
            /\ UNCHANGED known
         \/ StartAdding(n, j.rest, jobs \ {j})
      /\ UNCHANGED <<up, adds, chan, drops, crashes>>

(* addInput has resolved: the handler goes on to the next url that is not  *)
(* known by now; after the last one it broadcasts the list, sawNew being   *)
(* true.                                                                   *)
FinishAdding(j) ==
  LET n == j.node
  IN  /\ j \in jobs
      /\ inputs' = [inputs EXCEPT ![n][j.url] = @ + 1]
      /\ \/ /\ j.rest \subseteq known[n]
            /\ jobs' = jobs \ {j}
            /\ chan' = Broadcast(chan, n, <<DBs(n)>>)
            /\ UNCHANGED known
         \/ /\ StartAdding(n, j.rest, jobs \ {j})
            /\ UNCHANGED chan
      /\ UNCHANGED <<up, adds, drops, crashes>>

(* A relay process starts again, with the given list of known databases.   *)
Restart(n, urls) ==
  /\ crashes < MaxCrashes
  /\ crashes' = crashes + 1
  /\ known' = [known EXCEPT ![n] = urls]
  /\ inputs' = [inputs EXCEPT ![n] = [u \in Nodes |-> 0]]
  /\ jobs' = {j \in jobs : j.node # n}
  /\ Sever({l \in up : n \in l})
  /\ UNCHANGED drops

(* Mutant of Crash: the list survives, the inputs do not.                  *)
CrashKeepsList(n) == Restart(n, known[n])

(* The process dies, of itself or because sdk.get or addInput rejected and *)
(* nothing handles the rejection of the handler's promise.  It comes back  *)
(* with the database it stored and nothing else.                           *)
Crash(n) == Restart(n, {n})

Next ==
  \/ \E l \in Links : Connect(l) \/ Disconnect(l)
  \/ \E a \in adds : InitConnection(a)
  \/ \E p \in Channels : ReceiveRequest(p) \/ ReceiveDBs(p)
  \/ \E j \in jobs : FinishAdding(j)
  \/ \E n \in Nodes : Crash(n)

(* Messages on a connection that stays up arrive, and the event loop of a  *)
(* relay runs every handler and resumes every one whose promise is         *)
(* resolved.  Nothing is assumed about when connections come up.           *)
Fairness ==
  /\ \A p \in Channels : WF_vars(InitConnection(p))
  /\ \A p \in Channels : WF_vars(ReceiveRequest(p) \/ ReceiveDBs(p))
  /\ \A n, u \in Nodes :
       WF_vars(\E j \in jobs : j.node = n /\ j.url = u /\ FinishAdding(j))

Spec == Init /\ [][Next]_vars
FairSpec == Spec /\ Fairness

-----------------------------------------------------------------------------
(* Type correctness of the relays' lists and of the messages under way.    *)
TypeOK ==
  /\ known \in [Nodes -> SUBSET Nodes]
  /\ inputs \in [Nodes -> [Nodes -> Nat]]
  /\ jobs \in SUBSET Jobs
  /\ up \in SUBSET Links
  /\ adds \in SUBSET Channels
  /\ chan \in [Channels -> Seq(Messages)]
  /\ drops \in Nat /\ crashes \in Nat

(* However the handlers of concurrent lists interleave, a relay adds each  *)
(* database at most once, and never its own, which createBee added.        *)
AddedOnce ==
  \A n, u \in Nodes : inputs[n][u] <= IF u = n THEN 0 ELSE 1

(* knownDBs and the autobase agree: a url is in the list exactly when it   *)
(* is the relay's own, has been added as an input, or is being added by    *)
(* one suspended handler; none is forgotten on the way.                    *)
KnownAreAdded ==
  \A n \in Nodes :
    known[n] = {n} \cup {u \in Nodes : inputs[n][u] > 0}
                   \cup {j.url : j \in {k \in jobs : k.node = n}}

(* No part of the relays is cut off from the rest.                         *)
AllLinked ==
  \A S \in SUBSET Nodes \ {{}, Nodes} :
    \E n \in S, m \in Nodes \ S : {n, m} \in up

Converged == \A n \in Nodes : \A u \in Nodes \ {n} : inputs[n][u] = 1

(* Once every relay stays connected to the others, directly or through     *)
(* other relays, every relay ends up with every database as an input, also *)
(* after lost messages and restarts.                                       *)
EventuallyShared == <>[]AllLinked => <>[]Converged
=============================================================================
