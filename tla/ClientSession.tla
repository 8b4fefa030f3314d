--------------------------- MODULE ClientSession ---------------------------
(***************************************************************************)
(* The websocket clients: the web client (any number of users on one       *)
(* server process), the desktop client and the command line tools, on top  *)
(* of the client library in nostr.cc.                                      *)
(*                                                                         *)
(* Every click that needs a relay runs one or more websocket sessions one  *)
(* after the other and blocks until they have ended; nothing has a         *)
(* timeout.  relay_to asks for the connection to be closed on the first    *)
(* message, but what the relay had sent by then still comes in; the home   *)
(* page of the web client waits for one that parses and is not an EVENT.   *)
(* The web server's users share one variable `pubkey', which their threads *)
(* assign and read without a lock.                                         *)
(*                                                                         *)
(* Of the relay in template/server.js, "hyper", only what it answers to    *)
(* an EVENT is modelled here; its answers to REQs are HyperRelay's.        *)
(***************************************************************************)
EXTENDS Naturals, SequencesExt

CONSTANTS
  Users,       \* web sessions, desktop windows and runs of wss_client
  Web,         \* the web sessions among them
  Keys,        \* public keys
  Wanted,      \* authors whose notes users ask for by hand, NoKey for any
  DefKey,      \* def_pubkey
  NoKey,       \* the empty string
  Torn,        \* a mixture of two keys: nobody's key
  Events, Author, Kind,
  PTags,       \* the public keys in the "p" tags of each event, in order
  Unreadable,  \* events from_json refuses
  Stored,      \* what the relay holds, in the order of arrival
  Relays,      \* kinds of relay: "nip01", "wss" (wss_relay), "hyper"
  Other,       \* any message that is not an EVENT: EOSE, OK, NOTICE
  Garbled,     \* a message that is not JSON
  Budgets,     \* bound: how many clicks each user has, one of these functions
  MaxFaults    \* bound: failing and lost connections, notices

ASSUME ClientAssumption ==
  /\ Web \subseteq Users
  /\ Wanted \subseteq Keys \cup {NoKey}
  /\ DefKey \in Keys /\ NoKey \notin Keys /\ Torn \notin Keys
  /\ Author \in [Events -> Keys] /\ Kind \in [Events -> Nat]
  /\ PTags \in [Events -> Seq(Keys)]
  /\ Unreadable \subseteq Events /\ Stored \in Seq(Events)
  /\ Relays \subseteq {"nip01", "wss", "hyper"}
  /\ Other \notin Events /\ Garbled \notin Events \cup {Other}
  /\ Budgets \subseteq [Users -> Nat] /\ MaxFaults \in Nat

VARIABLES
  relay,    \* the relay the clients talk to
  key,      \* the web server's global variable pubkey
  page,     \* the page each user is on, or for a desktop what it shows
  text,     \* the key the user's own field shows, or showed last
  job,      \* what the user's last click is doing
  net,      \* the user's websocket connection
  query,    \* the REQ or EVENT of that connection
  answer,   \* messages to the client that have not arrived
  store,    \* messages that have arrived on the connection
  asked,    \* the key whose follows were asked for
  list,     \* the vector `pubkeys' get_follows returned
  todo,     \* the part of it that has not been dealt with
  rows,     \* the table of messages, or what the desktop will show
  foreign,  \* history: another user assigned pubkey since, or while, this one
            \* assigned it or was shown it
  spoiled,  \* history: a connection of this click failed or was given a notice
  clicks,   \* the clicks each user has left
  faults    \* how many there were so far

session == <<net, query, answer, store>>
table == <<asked, list, todo, rows>>
vars == <<relay, key, page, text, job, net, query, answer, store, asked, list,
          todo, rows, foreign, spoiled, clicks, faults>>

-----------------------------------------------------------------------------
(* What the relay answers.  A query is an EVENT, or a REQ for some kinds   *)
(* or any, and for one author or any.                                      *)
Publish == [type |-> "EVENT", author |-> NoKey, kinds |-> {}, limit |-> 0]
Req(a, ks, n) == [type |-> "REQ", author |-> a, kinds |-> ks, limit |-> n]

(* Of the places in I the k-th, and the elements of s at them.             *)
Upto(I, i) == {j \in I : j <= i}
Place(I, k) == CHOOSE i \in I : Cardinality(Upto(I, i)) = k
Picked(s, I) == [k \in 1..Cardinality(I) |-> s[Place(I, k)]]

(* The places of the stored events that a query asks for.                  *)
Found(q) ==
  {i \in DOMAIN Stored : /\ q.kinds = {} \/ Kind[Stored[i]] \in q.kinds
                         /\ q.author \in {NoKey, Author[Stored[i]]}}

(* A relay as NIP-01 has it: stored events, newest first, then EOSE.       *)
Nip01Answer(q) ==
  LET all == Cardinality(Found(q))
      n == IF all < q.limit THEN all ELSE q.limit
  IN  Append([k \in 1..n |-> Stored[Place(Found(q), all - k + 1)]], Other)

(* relay_t::make_response: the first stored event of the author, whatever  *)
(* its kind, or EOSE; never both.                                          *)
WssAnswer(q) ==
  LET found == {i \in DOMAIN Stored : Author[Stored[i]] = q.author}
  IN  IF found = {} THEN <<Other>> ELSE <<Stored[Place(found, 1)]>>

(* server.js puts the id of the event into its OK without quotes.          *)
Answer(q) ==
  CASE q.type = "REQ" /\ relay = "nip01" -> Nip01Answer(q)
    [] q.type = "REQ" /\ relay = "wss" -> WssAnswer(q)
    [] q.type = "EVENT" /\ relay = "hyper" -> <<Garbled>>
    [] OTHER -> <<Other>>

(* The EVENT messages of a session that from_json can read.                *)
Readable(msgs) == Picked(msgs, {i \in DOMAIN msgs : msgs[i] \in Events \ Unreadable})

(* Mutants of Follows: the events that were read instead of the keys in    *)
(* the first of them; the last message instead of the first EVENT.         *)
FollowsEvents(msgs) == Readable(msgs)
FollowsOfLast(msgs) ==
  IF msgs = << >> \/ Last(msgs) \notin Events \ Unreadable THEN << >>
  ELSE PTags[Last(msgs)]

(* get_follows: the "p" tags of the first of them.                         *)
Follows(msgs) == IF Readable(msgs) = << >> THEN << >> ELSE PTags[Readable(msgs)[1]]

FollowsReq(k) == Req(k, {3}, 1)

(* get_feed asks for two notes, get_metadata for one profile.              *)
AuthorReq(p, k) == IF p = "feed" THEN Req(k, {1}, 2) ELSE Req(k, {0}, 1)

-----------------------------------------------------------------------------
Init ==
  /\ relay \in Relays
  /\ key = NoKey
  /\ page = [u \in Users |-> IF u \in Web THEN "none" ELSE "home"]
  /\ text = [u \in Users |-> DefKey]
  /\ job = [u \in Users |-> "none"]
  /\ net = [u \in Users |-> "none"]
  /\ query = [u \in Users |-> Publish]
  /\ answer = [u \in Users |-> << >>]
  /\ store = [u \in Users |-> << >>]
  /\ asked = [u \in Users |-> NoKey]
  /\ list = [u \in Users |-> << >>]
  /\ todo = [u \in Users |-> << >>]
  /\ rows = [u \in Users |-> << >>]
  /\ foreign = [u \in Users |-> FALSE]
  /\ spoiled = [u \in Users |-> FALSE]
  /\ clicks \in Budgets
  /\ faults = 0

Click(u) ==
  /\ job[u] = "none"
  /\ clicks[u] > 0
  /\ clicks' = [clicks EXCEPT ![u] = @ - 1]
  /\ UNCHANGED <<relay, faults>>

(* Mutant of Begin: what the previous connection brought is kept.          *)
BeginKeepsStore(u, q) ==
  /\ net' = [net EXCEPT ![u] = "opening"]
  /\ query' = [query EXCEPT ![u] = q]
  /\ answer' = [answer EXCEPT ![u] = << >>]
  /\ UNCHANGED store

(* A new connection for the given query, or none.                          *)
Begin(u, q) ==
  /\ net' = [net EXCEPT ![u] = "opening"]
  /\ query' = [query EXCEPT ![u] = q]
  /\ answer' = [answer EXCEPT ![u] = << >>]
  /\ store' = [store EXCEPT ![u] = << >>]
NoConnection(u) ==
  /\ net' = [net EXCEPT ![u] = "none"]
  /\ answer' = [answer EXCEPT ![u] = << >>]
  /\ store' = [store EXCEPT ![u] = << >>]
  /\ UNCHANGED query

(* The thread of a web session enters the assignment of k to pubkey.       *)
Assigning(u) == {v \in Users \ {u} : job[v] = "assign"}
Assign(u, k) ==
  /\ text' = [text EXCEPT ![u] = k]
  /\ job' = [job EXCEPT ![u] = "assign"]
  /\ foreign' = [v \in Users |-> IF v = u THEN Assigning(u) # {} ELSE TRUE]

(* Mutant of OpenHome: the field shows the default key while pubkey keeps  *)
(* its own.                                                                *)
OpenHomeShows(u) ==
  /\ u \in Web /\ Click(u)
  /\ page' = [page EXCEPT ![u] = "home"]
  /\ rows' = [rows EXCEPT ![u] = << >>]
  /\ text' = [text EXCEPT ![u] = DefKey]
  /\ UNCHANGED <<key, job, session, asked, list, todo, foreign, spoiled>>

(* A new web session, or "Home" in its menu: the page under construction   *)
(* first assigns pubkey.                                                   *)
OpenHome(u) ==
  /\ u \in Web /\ Click(u)
  /\ page' = [page EXCEPT ![u] = "opening"]
  /\ rows' = [rows EXCEPT ![u] = << >>]
  /\ Assign(u, DefKey)
  /\ UNCHANGED <<key, session, asked, list, todo, spoiled>>

(* Another key in the field for it; the desktop reads its field later.     *)
EditKey(u, k) ==
  /\ page[u] = "home" \/ u \notin Web
  /\ k # text[u]
  /\ Click(u)
  /\ \/ u \in Web /\ Assign(u, k)
     \/ /\ u \notin Web
        /\ text' = [text EXCEPT ![u] = k]
        /\ UNCHANGED <<job, foreign>>
  /\ UNCHANGED <<key, page, session, table, spoiled>>

(* The end of the assignment.  All keys have the same length, so that it   *)
(* copies into the same buffer: two at a time leave a mixture behind.      *)
EndAssign(u) ==
  /\ job[u] = "assign"
  /\ key' \in {text[u]} \cup (IF foreign[u] THEN {Torn} ELSE {})
  /\ job' = [job EXCEPT ![u] = IF page[u] = "opening" THEN "show" ELSE "none"]
  /\ UNCHANGED <<relay, page, text, session, table, foreign, spoiled, clicks, faults>>

(* The feed page, blank until "Get Feed".                                  *)
OpenFeed(u) ==
  /\ page[u] \notin {"none", "blank", "feed"} /\ u \in Web
  /\ Click(u)
  /\ page' = [page EXCEPT ![u] = "blank"]
  /\ list' = [list EXCEPT ![u] = << >>]
  /\ rows' = [rows EXCEPT ![u] = << >>]
  /\ UNCHANGED <<key, text, job, session, asked, todo, foreign, spoiled>>

(* What u's thread can find in pubkey: while others assign, also theirs.   *)
KeyRead(u) ==
  IF u \notin Web THEN {text[u]}
  ELSE IF Assigning(u) = {} THEN {key}
  ELSE {key, Torn} \cup {text[v] : v \in Assigning(u)}

(* The home page fills its field from pubkey, whoever assigned it last.    *)
ShowKey(u) ==
  /\ job[u] = "show"
  /\ \E k \in KeyRead(u) : text' = [text EXCEPT ![u] = k]
  /\ page' = [page EXCEPT ![u] = "home"]
  /\ job' = [job EXCEPT ![u] = "none"]
  /\ foreign' = [foreign EXCEPT ![u] = Assigning(u) # {}]
  /\ UNCHANGED <<relay, key, session, table, spoiled, clicks, faults>>

(* "Get Feed" of the feed page and of the desktop, and the follows page,   *)
(* which fetches as soon as it is opened.                                  *)
Fetch(u, p) ==
  /\ \/ p = "feed" /\ (page[u] \in {"blank", "feed"} \/ u \notin Web)
     \/ p = "follows" /\ page[u] # "none" /\ u \in Web
  /\ Click(u)
  /\ page' = [page EXCEPT ![u] = p]
  /\ \E k \in KeyRead(u) :
       /\ asked' = [asked EXCEPT ![u] = k]
       /\ Begin(u, FollowsReq(k))
  /\ job' = [job EXCEPT ![u] = "follows"]
  /\ list' = [list EXCEPT ![u] = << >>]
  /\ rows' = [rows EXCEPT ![u] = << >>]
  /\ spoiled' = [spoiled EXCEPT ![u] = FALSE]
  /\ UNCHANGED <<key, text, todo, foreign>>

(* "Send" of the home page and of the desktop, and a run of wss_client.    *)
Send(u, q) ==
  /\ page[u] = "home" \/ u \notin Web
  /\ Click(u)
  /\ page' = [page EXCEPT ![u] = "home"]
  /\ job' = [job EXCEPT ![u] = "send"]
  /\ Begin(u, q)
  /\ spoiled' = [spoiled EXCEPT ![u] = FALSE]
  /\ UNCHANGED <<key, text, table, foreign>>

-----------------------------------------------------------------------------
Quiet(u) == UNCHANGED <<relay, key, page, text, foreign, clicks>>

(* on_open: the client sends, the relay answers; home.cc clears its table. *)
Open(u) ==
  /\ net[u] = "opening"
  /\ net' = [net EXCEPT ![u] = "open"]
  /\ answer' = [answer EXCEPT ![u] = Answer(query[u])]
  /\ rows' = [rows EXCEPT ![u] = IF job[u] = "send" /\ u \in Web THEN << >> ELSE @]
  /\ UNCHANGED <<job, query, store, asked, list, todo, spoiled, faults>>
  /\ Quiet(u)

(* Mutant of Closes: EVENT messages are waited through everywhere.         *)
ClosesOnOther(u, m) == m = Other

(* on_message: relay_to, the desktop and wss_client close on any message,  *)
(* home.cc on one that parses and is not an EVENT; what does not parse is  *)
(* logged.                                                                 *)
Closes(u, m) == ~(job[u] = "send" /\ u \in Web) \/ m = Other

Deliver(u) ==
  /\ net[u] \in {"open", "closing"}
  /\ answer[u] # << >>
  /\ LET m == Head(answer[u])
     IN  /\ store' = [store EXCEPT ![u] = Append(@, m)]
         /\ net' = [net EXCEPT ![u] = IF Closes(u, m) THEN "closing" ELSE @]
         /\ rows' = [rows EXCEPT ![u] = IF job[u] = "send" /\ u \in Web
                                        THEN Append(@, m) ELSE @]
  /\ answer' = [answer EXCEPT ![u] = Tail(@)]
  /\ UNCHANGED <<job, query, asked, list, todo, spoiled, faults>>
  /\ Quiet(u)

(* On to the next followed key, or to the end of the click.                *)
Continue(u, ks) ==
  /\ todo' = [todo EXCEPT ![u] = ks]
  /\ \/ /\ ks = << >>
        /\ job' = [job EXCEPT ![u] = "none"]
        /\ NoConnection(u)
     \/ /\ ks # << >>
        /\ job' = [job EXCEPT ![u] = "authors"]
        /\ Begin(u, AuthorReq(page[u], ks[1]))

(* client.start() returns, with what has arrived in the store.             *)
EndSession(u) ==
  \/ /\ job[u] = "send"
     /\ job' = [job EXCEPT ![u] = "none"]
     /\ NoConnection(u)
     /\ rows' = [rows EXCEPT ![u] = IF u \in Web THEN @ ELSE store[u]]
     /\ UNCHANGED <<asked, list, todo>>
  \/ /\ job[u] = "follows"
     /\ list' = [list EXCEPT ![u] = Follows(store[u])]
     /\ Continue(u, Follows(store[u]))
     /\ UNCHANGED <<asked, rows>>
  \/ /\ job[u] = "authors"
     /\ rows' = [rows EXCEPT ![u] = @ \o Readable(store[u])]
     /\ Continue(u, Tail(todo[u]))
     /\ UNCHANGED <<asked, list>>

(* The relay has answered the client's close; what it had sent has come.   *)
Closed(u) ==
  /\ net[u] = "closing"
  /\ EndSession(u)
  /\ Quiet(u)
  /\ UNCHANGED <<spoiled, faults>>

(* on_error: the connection cannot be opened, or breaks.                   *)
Lost(u) ==
  /\ net[u] # "none"
  /\ EndSession(u)
  /\ Quiet(u)
  /\ spoiled' = [spoiled EXCEPT ![u] = TRUE]

(* The relay says something else first, such as a NOTICE.                  *)
Notice(u) ==
  /\ net[u] = "open"
  /\ answer' = [answer EXCEPT ![u] = <<Other>> \o @]
  /\ spoiled' = [spoiled EXCEPT ![u] = TRUE]
  /\ Quiet(u)
  /\ UNCHANGED <<job, net, query, store, table>>

-----------------------------------------------------------------------------
(* What make_message of the home page puts together, and wss_client.  The  *)
(* desktop sends the text in its window, here one of the latter.           *)
Queries(u) ==
  {Publish} \cup
  IF relay = "hyper" THEN {}
  ELSE IF u \in Web THEN {Req(text[u], {3}, 1)} \cup {Req(a, {1}, 50) : a \in Wanted}
  ELSE {Req(a, IF a = NoKey THEN {} ELSE {1}, 1) : a \in Wanted}

Fetched == IF relay = "hyper" THEN {} ELSE {"feed", "follows"}

Progress(u) == Open(u) \/ Deliver(u) \/ Closed(u) \/ EndAssign(u) \/ ShowKey(u)

Next ==
  \E u \in Users :
    \/ OpenHome(u) \/ OpenFeed(u)
    \/ \E k \in Keys : EditKey(u, k)
    \/ \E p \in Fetched : Fetch(u, p)
    \/ \E q \in Queries(u) : Send(u, q)
    \/ Progress(u)
    \/ (Lost(u) \/ Notice(u)) /\ faults < MaxFaults /\ faults' = faults + 1

(* The relay answers and closes when asked to, and threads run.            *)
Fairness == \A u \in Users : WF_vars(Progress(u))

Spec == Init /\ [][Next]_vars /\ Fairness

-----------------------------------------------------------------------------
Pages == {"none", "opening", "home", "blank", "feed", "follows"}
Jobs == {"none", "assign", "show", "follows", "authors", "send"}
Queried == [type : {"EVENT", "REQ"}, author : Keys \cup {NoKey, Torn},
            kinds : SUBSET Nat, limit : Nat]
Messages == Events \cup {Other, Garbled}

(* Type correctness.                                                       *)
TypeOK ==
  /\ relay \in Relays
  /\ key \in Keys \cup {NoKey, Torn}
  /\ page \in [Users -> Pages]
  /\ text \in [Users -> Keys \cup {NoKey, Torn}]
  /\ job \in [Users -> Jobs]
  /\ net \in [Users -> {"none", "opening", "open", "closing"}]
  /\ query \in [Users -> Queried]
  /\ answer \in [Users -> Seq(Messages)]
  /\ store \in [Users -> Seq(Messages)]
  /\ asked \in [Users -> Keys \cup {NoKey, Torn}]
  /\ list \in [Users -> Seq(Keys)]
  /\ todo \in [Users -> Seq(Keys)]
  /\ rows \in [Users -> Seq(Messages)]
  /\ foreign \in [Users -> BOOLEAN]
  /\ spoiled \in [Users -> BOOLEAN]
  /\ clicks \in [Users -> Nat]
  /\ faults \in Nat

(* The rows of a feed or follows page are events of the followed keys in   *)
(* the order of the list, none of them twice unless a key is listed twice, *)
(* and of the kind the page is about if the relay heeds the kind.          *)
(* Messages that come in after the close was asked for change nothing of   *)
(* this.                                                                   *)
RowsFollowList ==
  \A u \in Users : page[u] \in {"feed", "follows"} =>
    /\ \E place \in [DOMAIN rows[u] -> DOMAIN list[u]] :
         \A i \in DOMAIN rows[u] :
           /\ rows[u][i] \in Events
           /\ Author[rows[u][i]] = list[u][place[i]]
           /\ \A j \in 1..(i-1) : /\ place[j] <= place[i]
                                  /\ rows[u][j] = rows[u][i] => place[j] # place[i]
    /\ relay = "nip01" =>
         \A i \in DOMAIN rows[u] :
           Kind[rows[u][i]] = IF page[u] = "feed" THEN 1 ELSE 0

(* The event a relay answers a REQ with first.  A relay of NIP-01: the     *)
(* newest it has of the author and kind.  wss_relay: the first it stored   *)
(* of the author, of whatever kind.                                        *)
Leading(q, e) ==
  \/ /\ relay = "nip01"
     /\ \E i \in Found(q) : Stored[i] = e /\ \A j \in Found(q) : j <= i
  \/ /\ relay = "wss"
     /\ \E i \in DOMAIN Stored :
          /\ Stored[i] = e /\ Author[e] = q.author
          /\ \A j \in 1..(i-1) : Author[Stored[j]] # q.author

(* A fetch that met no fault loses no list and no author.  When it ends,   *)
(* the list is that of the event the relay leads with for the key that was *)
(* asked about: of a relay of NIP-01 its newest contact list, of wss_relay *)
(* its first event, which need not be one.  It is empty only if that       *)
(* event's is, or there is none that parses.  The rows have the event the  *)
(* relay leads with for every key on the list: closing on the first        *)
(* message may cost the second note of an author, never the first, and     *)
(* never another author's.                                                 *)
FetchIsComplete ==
  \A u \in Users :
    (page[u] \in {"feed", "follows"} /\ job[u] = "none" /\ ~spoiled[u]) =>
      LET Leads(q) == {e \in Events \ Unreadable : Leading(q, e)}
          contacts == Leads(FollowsReq(asked[u]))
      IN  /\ \A e \in contacts : list[u] = PTags[e]
          /\ contacts = {} => list[u] = << >>
          /\ \A i \in DOMAIN list[u] :
               Leads(AuthorReq(page[u], list[u][i])) \subseteq Range(rows[u])

(* A user is shown the follows of the key in the user's own field, unless  *)
(* another user of the same web server has opened the home page or edited  *)
(* a key since the field was filled or edited, or at that moment.          *)
OwnKey ==
  [][\A u \in Users :
       (job[u] = "none" /\ job'[u] = "follows")
         => (asked'[u] = text[u] \/ foreign[u])]_vars

(* Every click comes to an end, also when connections fail, unless it is   *)
(* the "Send" of a home page whose relay answers with nothing that parses  *)
(* and is not an EVENT.                                                    *)
ClicksEnd ==
  \A u \in Users :
    (/\ job[u] # "none"
     /\ (job[u] = "send" /\ u \in Web) => Other \in Range(Answer(query[u])))
      ~> (job[u] = "none")

(* What the comments in relay.cc and home.cc say of EOSE: the stored       *)
(* events end with it, so that sending a message from the home page ends.  *)
SendEnds == \A u \in Users : job[u] = "send" ~> job[u] = "none"

(* What server.js announces with NIP 20 and home.cc says of messages: an   *)
(* EVENT is answered with OK, and messages are JSON arrays, so that        *)
(* publishing an event from the home page ends.                            *)
PublishEnds ==
  \A u \in Users : (job[u] = "send" /\ query[u].type = "EVENT") ~> (job[u] = "none")
=============================================================================
