------------------------ MODULE ClientSessionProofs ------------------------
(***************************************************************************)
(* The key of the web client, for any number of users, keys, events and    *)
(* faults: the one variable `pubkey' of the server process deceives a user *)
(* only when another user's assignment came in between.                    *)
(***************************************************************************)
EXTENDS ClientSession, TLAPS

(* The variables the argument is about have their domains.                 *)
Domains ==
  /\ key \in Keys \cup {NoKey, Torn}
  /\ page \in [Users -> Pages] /\ text \in [Users -> Keys \cup {NoKey, Torn}]
  /\ job \in [Users -> Jobs]
  /\ foreign \in [Users -> BOOLEAN]

(* While another user assigns, and from then on until the user's own next  *)
(* assignment, a user counts as disturbed; a user who is not finds the own *)
(* key in pubkey.                                                          *)
KeyInv ==
  /\ Domains
  /\ \A u \in Users : Assigning(u) # {} => foreign[u]
  /\ \A u \in Web :
       (page[u] # "none" /\ job[u] # "assign") => (key = text[u] \/ foreign[u])

-----------------------------------------------------------------------------
(* A thread enters an assignment.                                          *)
LEMMA AssignKeeps ==
  ASSUME KeyInv, NEW u \in Web, NEW k \in Keys, Assign(u, k),
         page' \in [Users -> Pages],
         \A v \in Users \ {u} : page'[v] = page[v], key' = key
  PROVE  KeyInv'
<1>0. u \in Users /\ Web \subseteq Users
  BY ClientAssumption
<1>1. /\ text' = [text EXCEPT ![u] = k] /\ job' = [job EXCEPT ![u] = "assign"]
      /\ foreign' = [v \in Users |-> IF v = u THEN Assigning(u) # {} ELSE TRUE]
  BY DEF Assign
<1>2. Domains'
  BY <1>0, <1>1 DEF KeyInv, Domains, Jobs
<1>3. ASSUME NEW v \in Users, Assigning(v)' # {} PROVE foreign'[v]
  <2>1. CASE v = u
    <3>1. Assigning(u)' = Assigning(u)
      BY <1>0, <1>1 DEF Assigning, KeyInv, Domains
    <3> QED BY <1>1, <1>3, <2>1, <3>1
  <2>2. CASE v # u
    BY <1>1, <2>2
  <2> QED BY <2>1, <2>2
<1>4. ASSUME NEW v \in Web, page'[v] # "none", job'[v] # "assign"
      PROVE  key' = text'[v] \/ foreign'[v]
  <2>1. v # u
    BY <1>0, <1>1, <1>4 DEF KeyInv, Domains
  <2> QED BY <1>0, <1>1, <2>1
<1> QED BY <1>2, <1>3, <1>4 DEF KeyInv

(* A step that ends no assignment, begins none, and opens no page of a     *)
(* user who had none.                                                      *)
LEMMA OtherKeeps ==
  ASSUME KeyInv, key' = key, foreign' = foreign, Domains',
         \A v \in Users : (v \in Web => text'[v] = text[v])
                          /\ (job'[v] = "assign" <=> job[v] = "assign")
                          /\ (v \in Web /\ page'[v] # "none" => page[v] # "none")
  PROVE  KeyInv'
<1>1. \A v \in Users : Assigning(v)' = Assigning(v)
  BY DEF Assigning
<1>2. Web \subseteq Users
  BY ClientAssumption
<1>3. \A v \in Users : Assigning(v)' # {} => foreign'[v]
  BY <1>1 DEF KeyInv
<1>4. \A v \in Web :
        (page'[v] # "none" /\ job'[v] # "assign") => (key' = text'[v] \/ foreign'[v])
  BY <1>2 DEF KeyInv
<1> QED BY <1>3, <1>4 DEF KeyInv

LEMMA EndAssignKeeps ==
  ASSUME KeyInv, NEW u \in Users, EndAssign(u)
  PROVE  KeyInv'
<1>1. /\ job[u] = "assign"
      /\ job' = [job EXCEPT ![u] = IF page[u] = "opening" THEN "show" ELSE "none"]
      /\ key' = text[u] \/ foreign[u]
      /\ key' \in {text[u], Torn}
      /\ UNCHANGED <<page, text, foreign>>
  BY DEF EndAssign
<1>2. Domains' /\ Web \subseteq Users
  BY <1>1, ClientAssumption DEF KeyInv, Domains, Jobs
<1>3. ASSUME NEW v \in Users, Assigning(v)' # {} PROVE foreign'[v]
  <2>1. Assigning(v) # {}
    BY <1>1, <1>3 DEF Assigning, KeyInv, Domains
  <2> QED BY <1>1, <2>1 DEF KeyInv
<1>4. ASSUME NEW v \in Web PROVE key' = text'[v] \/ foreign'[v]
  <2>1. CASE v = u
    BY <1>1, <2>1
  <2>2. CASE v # u
    <3>1. u \in Assigning(v)
      BY <1>1, <2>2 DEF Assigning
    <3> QED BY <1>1, <1>2, <3>1 DEF KeyInv
  <2> QED BY <2>1, <2>2
<1> QED BY <1>2, <1>3, <1>4 DEF KeyInv

(* A home page shows what is in pubkey, or the user counts as disturbed.   *)
LEMMA ShowKeeps ==
  ASSUME KeyInv, NEW u \in Users, ShowKey(u)
  PROVE  KeyInv'
<1>0. Web \subseteq Users
  BY ClientAssumption
<1>1. PICK k \in KeyRead(u) : text' = [text EXCEPT ![u] = k]
  BY DEF ShowKey
<1>2. /\ job[u] = "show" /\ job' = [job EXCEPT ![u] = "none"]
      /\ page' = [page EXCEPT ![u] = "home"] /\ key' = key
      /\ foreign' = [foreign EXCEPT ![u] = Assigning(u) # {}]
  BY DEF ShowKey
<1>3. Domains'
  <2>1. KeyRead(u) \subseteq Keys \cup {NoKey, Torn} /\ (Assigning(u) # {}) \in BOOLEAN
    BY DEF KeyRead, Assigning, KeyInv, Domains
  <2>2. page' \in [Users -> Pages] /\ job' \in [Users -> Jobs]
    BY <1>2 DEF KeyInv, Domains, Jobs, Pages
  <2>3. foreign' \in [Users -> BOOLEAN] /\ text' \in [Users -> Keys \cup {NoKey, Torn}]
    BY <1>1, <1>2, <2>1 DEF KeyInv, Domains
  <2> QED BY <1>2, <2>2, <2>3 DEF KeyInv, Domains
<1>4. /\ foreign'[u] <=> Assigning(u) # {}
      /\ text'[u] = k /\ job[u] # "assign" /\ job'[u] # "assign"
      /\ \A v \in Users \ {u} : /\ text'[v] = text[v] /\ job'[v] = job[v]
                                /\ foreign'[v] = foreign[v] /\ page'[v] = page[v]
  BY <1>1, <1>2 DEF KeyInv, Domains
<1>5. \A v \in Users : Assigning(v)' = Assigning(v)
  BY <1>4 DEF Assigning
<1>6. \A v \in Users : Assigning(v)' # {} => foreign'[v]
  BY <1>4, <1>5 DEF KeyInv
<1>7. ASSUME NEW v \in Web, page'[v] # "none", job'[v] # "assign"
      PROVE  key' = text'[v] \/ foreign'[v]
  <2>1. CASE v = u /\ Assigning(u) = {}
    BY <1>1, <1>2, <1>4, <2>1 DEF KeyRead
  <2>2. CASE v = u /\ Assigning(u) # {}
    BY <1>4, <2>2
  <2>3. CASE v # u
    BY <1>0, <1>2, <1>4, <1>7, <2>3 DEF KeyInv
  <2> QED BY <2>1, <2>2, <2>3
<1> QED BY <1>3, <1>6, <1>7 DEF KeyInv

LEMMA KeyStep ==
  ASSUME KeyInv, [Next]_vars
  PROVE  KeyInv'
<1>0. Web \subseteq Users /\ DefKey \in Keys
  BY ClientAssumption
<1>1. CASE UNCHANGED vars
  BY <1>1, OtherKeeps DEF vars, KeyInv, Domains
<1>2. ASSUME NEW u \in Users, OpenHome(u) PROVE KeyInv'
  <2>1. /\ u \in Web /\ Assign(u, DefKey) /\ key' = key /\ page' = [page EXCEPT ![u] = "opening"]
    BY <1>2 DEF OpenHome
  <2>2. /\ page' \in [Users -> Pages]
        /\ \A v \in Users \ {u} : page'[v] = page[v]
    BY <2>1 DEF KeyInv, Domains, Pages
  <2> QED BY <1>0, <2>1, <2>2, AssignKeeps
<1>3. ASSUME NEW u \in Users, NEW k \in Keys, EditKey(u, k) PROVE KeyInv'
  <2>1. key' = key /\ page' = page /\ page \in [Users -> Pages]
    BY <1>3 DEF EditKey, KeyInv, Domains
  <2>2. CASE u \in Web
    BY <1>3, <2>1, <2>2, AssignKeeps DEF EditKey
  <2>3. CASE u \notin Web
    <3>1. text' = [text EXCEPT ![u] = k] /\ UNCHANGED <<job, foreign>>
      BY <1>3, <2>3 DEF EditKey
    <3>2. Domains'
      BY <2>1, <3>1 DEF KeyInv, Domains
    <3>3. \A v \in Users : v \in Web => text'[v] = text[v]
      BY <2>3, <3>1 DEF KeyInv, Domains
    <3> QED BY <2>1, <3>1, <3>2, <3>3, OtherKeeps
  <2> QED BY <2>2, <2>3
<1>4. ASSUME NEW u \in Users, EndAssign(u) PROVE KeyInv'
  BY <1>4, EndAssignKeeps
<1>5. ASSUME NEW u \in Users, OpenFeed(u) PROVE KeyInv'
  <2>1. /\ page[u] # "none" /\ page' = [page EXCEPT ![u] = "blank"]
        /\ UNCHANGED <<key, text, job, foreign>>
    BY <1>5 DEF OpenFeed
  <2> QED BY <2>1, OtherKeeps DEF KeyInv, Domains, Pages, Jobs
<1>6. ASSUME NEW u \in Users, NEW p \in {"feed", "follows"}, Fetch(u, p) PROVE KeyInv'
  <2>1. /\ job[u] = "none" /\ job' = [job EXCEPT ![u] = "follows"]
        /\ page' = [page EXCEPT ![u] = p] /\ (u \in Web => page[u] # "none")
        /\ UNCHANGED <<key, text, foreign>>
    BY <1>6 DEF Fetch, Click
  <2> QED BY <2>1, OtherKeeps DEF KeyInv, Domains, Pages, Jobs
<1>7. ASSUME NEW u \in Users, NEW q, Send(u, q) PROVE KeyInv'
  <2>1. /\ job[u] = "none" /\ job' = [job EXCEPT ![u] = "send"]
        /\ page' = [page EXCEPT ![u] = "home"] /\ (u \in Web => page[u] # "none")
        /\ UNCHANGED <<key, text, foreign>>
    BY <1>7 DEF Send, Click
  <2> QED BY <2>1, OtherKeeps DEF KeyInv, Domains, Pages, Jobs
<1>8. ASSUME NEW u \in Users, Open(u) \/ Deliver(u) \/ Notice(u) PROVE KeyInv'
  <2>1. UNCHANGED <<key, page, text, foreign, job>>
    BY <1>8 DEF Open, Deliver, Notice, Quiet
  <2> QED BY <2>1, OtherKeeps DEF KeyInv, Domains, Pages, Jobs
<1>9. ASSUME NEW u \in Users, EndSession(u), Quiet(u) PROVE KeyInv'
  <2>1. UNCHANGED <<key, page, text, foreign>>
    BY <1>9 DEF Quiet
  <2>2. job[u] \in {"send", "follows", "authors"}
        /\ \E j \in {"none", "authors"} : job' = [job EXCEPT ![u] = j]
    BY <1>9 DEF EndSession, Continue
  <2> QED BY <2>1, <2>2, OtherKeeps DEF KeyInv, Domains, Pages, Jobs
<1>10. ASSUME NEW u \in Users, ShowKey(u) PROVE KeyInv'
  BY <1>10, ShowKeeps
<1> QED BY <1>1, <1>2, <1>3, <1>4, <1>5, <1>6, <1>7, <1>8, <1>9, <1>10
        DEF Next, Fetched, Progress, Closed, Lost

LEMMA KeyInit ==
  ASSUME Init
  PROVE  KeyInv
<1>1. Domains
  BY ClientAssumption DEF Init, Domains, Pages, Jobs
<1>2. \A u \in Users : Assigning(u) = {}
  BY DEF Init, Assigning
<1>3. \A u \in Web : page[u] = "none"
  BY ClientAssumption DEF Init
<1> QED BY <1>1, <1>2, <1>3 DEF KeyInv

(* asked is a function on the users throughout.                            *)
AskedInv == DOMAIN asked = Users

LEMMA AskedStep ==
  ASSUME AskedInv, [Next]_vars
  PROVE  AskedInv'
<1>1. asked' = asked \/ \E u \in Users : \E k : asked' = [asked EXCEPT ![u] = k]
  <2>1. CASE UNCHANGED vars
    BY <2>1 DEF vars
  <2>2. ASSUME NEW u \in Users, NEW p, Fetch(u, p)
        PROVE  \E k : asked' = [asked EXCEPT ![u] = k]
    BY <2>2 DEF Fetch
  <2>3. ASSUME NEW u \in Users, NEW k, EditKey(u, k) PROVE asked' = asked
    BY <2>3 DEF EditKey, table
  <2>4. ASSUME NEW u \in Users, NEW q, Send(u, q) PROVE asked' = asked
    BY <2>4 DEF Send, table
  <2>5. ASSUME NEW u \in Users,
               \/ OpenHome(u) \/ OpenFeed(u) \/ EndAssign(u) \/ ShowKey(u)
               \/ Open(u) \/ Deliver(u) \/ Notice(u)
        PROVE  asked' = asked
    BY <2>5 DEF OpenHome, OpenFeed, EndAssign, ShowKey, Open, Deliver, Notice, table
  <2>6. ASSUME NEW u \in Users, EndSession(u) PROVE asked' = asked
    BY <2>6 DEF EndSession
  <2> QED BY <2>1, <2>2, <2>3, <2>4, <2>5, <2>6 DEF Next, Progress, Closed, Lost
<1> QED BY <1>1 DEF AskedInv

(* Only a fetch begins to ask for follows.                                 *)
LEMMA OnlyFetchAsks ==
  ASSUME KeyInv, [Next]_vars, NEW u \in Users, job[u] = "none", job'[u] = "follows"
  PROVE  \E p \in {"feed", "follows"} : Fetch(u, p)
<1>0. job \in [Users -> Jobs]
  BY DEF KeyInv, Domains
<1>1. ~UNCHANGED job
  OBVIOUS
<1>2. ASSUME NEW v \in Users, NEW j, job' = [job EXCEPT ![v] = j] PROVE j = "follows" /\ u = v
  BY <1>0, <1>2
<1>3. CASE UNCHANGED vars
  BY <1>1, <1>3 DEF vars
<1>4. ASSUME NEW v \in Users,
             OpenHome(v) \/ EndAssign(v) \/ ShowKey(v) \/ \E k \in Keys : EditKey(v, k)
      PROVE  FALSE
  BY <1>1, <1>2, <1>4 DEF OpenHome, EndAssign, ShowKey, EditKey, Assign
<1>5. ASSUME NEW v \in Users, \E q : Send(v, q) PROVE FALSE
  BY <1>2, <1>5 DEF Send
<1>6. ASSUME NEW v \in Users, OpenFeed(v) \/ Open(v) \/ Deliver(v) \/ Notice(v) PROVE FALSE
  BY <1>1, <1>6 DEF OpenFeed, Open, Deliver, Notice
<1>7. ASSUME NEW v \in Users, EndSession(v) PROVE FALSE
  BY <1>2, <1>7 DEF EndSession, Continue
<1>8. ASSUME NEW v \in Users, NEW p, Fetch(v, p) PROVE u = v
  BY <1>2, <1>8 DEF Fetch
<1> QED BY <1>3, <1>4, <1>5, <1>6, <1>7, <1>8 DEF Next, Fetched, Progress, Closed, Lost

(* A fetch of the feed or the follows page asks for the key in the user's  *)
(* own field unless another user of the web server assigned pubkey since.  *)
THEOREM OwnKeyAsked == Spec => OwnKey
<1>1. Init => KeyInv /\ AskedInv
  BY KeyInit DEF Init, AskedInv
<1>2. KeyInv /\ AskedInv /\ [Next]_vars => (KeyInv /\ AskedInv)'
  BY KeyStep, AskedStep
<1>3. KeyInv /\ AskedInv /\ [Next]_vars =>
        \A u \in Users : (job[u] = "none" /\ job'[u] = "follows")
                            => (asked'[u] = text[u] \/ foreign[u])
  <2> SUFFICES ASSUME KeyInv, AskedInv, [Next]_vars,
                      NEW u \in Users, job[u] = "none", job'[u] = "follows"
               PROVE  asked'[u] = text[u] \/ foreign[u]
    OBVIOUS
  <2>1. PICK p \in {"feed", "follows"} : Fetch(u, p)
    BY OnlyFetchAsks
  <2>2. PICK k \in KeyRead(u) : asked' = [asked EXCEPT ![u] = k]
    BY <2>1 DEF Fetch
  <2>3. asked'[u] = k
    BY <2>2 DEF AskedInv
  <2>4. u \in Web => page[u] # "none"
    BY <2>1 DEF Fetch
  <2>5. k = text[u] \/ foreign[u]
    <3>1. CASE u \notin Web
      BY <2>2, <3>1 DEF KeyRead
    <3>2. CASE u \in Web /\ Assigning(u) = {}
      BY <2>2, <2>4, <3>2 DEF KeyRead, KeyInv
    <3>3. CASE Assigning(u) # {}
      BY <3>3 DEF KeyInv
    <3> QED BY <3>1, <3>2, <3>3
  <2> QED BY <2>3, <2>5
<1> QED BY <1>1, <1>2, <1>3, PTL DEF Spec, OwnKey
=============================================================================
