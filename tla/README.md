# A verification project for gnostr

TLA+ models of the parts of this repository that keep state or run
concurrently, TLC runs that check them on small instances, and TLAPS proofs of
the properties that matter most for every value of the constants. Paths are
relative to the root of the repository. `PROJECT.json` lists the components, the
runs, the mutants that show each property can fail, the source lines behind
each definition, the findings, the hazards and the theorems.

## 1. The system

gnostr is a set of programs around the nostr protocol. Clients make signed
events, send them to relays with `EVENT`, and ask for stored and future events
with `REQ`.

| Component | Source | State | Operations |
|---|---|---|---|
| Event database of the C++ relays | `src/database.cc` | `database.json`, a vector of events per process | `read`, `save`, `append`, `request` |
| Websocket relay | `src/relay.cc`, `src/wss_relay.cc` | one `relay_t` with its vector | start, `EVENT`, `REQ`, other messages |
| HTTP relay | `src/http/http_relay.cc` | a vector | start (which saves an empty database), `EVENT`, `REQ` |
| hyper-nostr relay, websocket server | `template/server.js` | topics, sockets | connect, `EVENT`, `REQ`, `CLOSE`, close |
| hyper-nostr relay, swarm of a topic | `template/swarm.js`, `bee.js` | subscriptions, `knownDBs`, peers | stream, query, sync with peers, add a database |
| hyper-nostr relay, event collection | `template/db.js`, `nostr_events.js` | the collection | `handleEvent`, `queryEvents`, `validateEvent` |
| gnostr, the command line tool | `gnostr.c` | options, event, key | parse, get a key, encrypt, hash or mine, sign, print |
| Variants and copies of gnostr | `devtools/gnostr-git.c`, `sources/gnostr-xor.c`, `src/nostril/` | as gnostr | as gnostr |
| HTTP messages, HTTP client | `src/http/http.cc`, `http_client.cc` | a socket and its buffer, `read_left` | `make_post`, `parse`, `send` |
| C++ client library and its tools | `src/nostr.cc`, `src/wss_client.cc`, `src/wss_req.cc` | a websocket session, received messages | `relay_to`, `get_follows`, `get_feed`, `get_metadata` |
| Web client | `web/` | the pages of each user; one `pubkey` for all users | open a page, edit the key, fetch, send |
| Desktop client | `desktop/` | the response vector | Get Feed, Send |

How they interact. The C++ relays of one directory share nothing but
`database.json`, which each of them rewrites on every `EVENT`. The hyper-nostr
relay runs on one JavaScript event loop: the handlers of all sockets share the
topic's swarm, its subscriptions and its collection, and interleave at every
`await`. Relays of one topic exchange the urls of their databases, and events,
over extension messages of the discovery core. HTTP clients and the HTTP relay
meet over TCP connections, one connection per post, which the relay serves one
after the other. The web and desktop clients and the command line tools open one
websocket connection after the other and wait for each to end; the users of
one web server share the variable `pubkey`. gnostr is a sequential program
whose steps hand one event on to each other; what it prints is what the relays
receive.

What is hard about it:

* `database::append` reads, truncates and writes the file in three steps, with
  other processes, crashes and failing opens in between;
* a handler of the hyper-nostr relay uses after an `await` what it read before
  it (the topic's swarm, the subscription, the list of databases), and its
  effects overtake each other: `OK` and the insert, the query and the stream, a
  document that is found and the update or delete that follows;
* connections between relays are lost with the messages on them, and a relay
  between two others has to pass on what it learns;
* in gnostr the id and the signature are made of an event that `--dm`, `--pow`
  and the tag options go on changing, at the limits of two buffers and of the
  number of tags;
* bytes of an HTTP message arrive in pieces of any size, connections break and
  clients die between any two of them, and nothing has a timeout;
* `relay_to` asks for the close on the first message while others are under
  way, and whether a fetch ends depends on what the relay sends;
* the threads of the web server assign and read one string without a lock.

What makes the parts correct:

* database: an event whose publisher was answered is stored, or the cause of
  its loss is one of a few that can be named; what the file loses is put back;
  `EOSE` is honest;
* hyper-nostr relay: stored events before `EOSE`, one `EOSE` per `REQ`, no event
  twice, every future event to every open subscription, nothing left behind by
  a closed socket, what was answered with `OK` is stored in the end, and only
  the author removes an event;
* exchange of databases: each added once, none forgotten, all shared in the end;
* gnostr: what is printed verifies, is complete, has the tags and the work that
  were asked for, and no direct message goes out in the clear;
* HTTP: a message is read whole or not at all, a post takes effect at most once,
  a client logs a reply only after the effect, and only a stalled client that is
  being served keeps others waiting;
* clients: a page shows events of the followed keys, in their order and none
  missing or twice, of the key in the user's own field; every click ends, if the
  relay sends what the client waits for.

## 2. Modules

| Module | Models |
|---|---|
| `RelayStore` | `database.json` and any number of `wss_relay` and `http_relay` processes sharing it |
| `EventArchive` | abstract specification: an archive that only grows and holds an event before its publisher is answered |
| `DbGossip` | how relays of one topic exchange `knownDBs` |
| `HyperRelay` | one topic of the hyper-nostr relay: sockets, swarms, subscriptions, queries, collection |
| `EventMaker` | one run of gnostr, or of gnostr-git |
| `HttpSession` | `http_client` processes and `http_relay` over byte streams |
| `PostService` | abstract specification: what a client of the HTTP relay is promised |
| `ClientSession` | web, desktop and command line clients of websocket relays |
| `MC...` | values for the constants of the six |
| `...Proofs` | the theorems about each of the six |

### RelayStore

`file` is `database.json`: empty, a JSON array of events, or text that does not
parse. `mem[p]` is the `database` vector of process `p`, `buf[p]` the vector
that `append` or `save` is about to write, `pc[p]` where it is. `AppendRead`,
`OpenTruncate` and `Write` are the three steps of `append`; `Write` ends with the
answer to the client, as the code does. `Written` gives the outcomes of a
write over a file that another process has written since the truncation: the
new text, or a mixture that does not parse. `OpenFails` is an `ofstream` that
does not open, which the code does not notice. `Crash` can come at any step.
`acked` (events whose publisher was answered) and `doors` (what happened that
can cost events) are history variables.

`EventArchive` is instantiated with `held` (what is in the file, or in the text
a process is writing), `answered <- acked` and `damaged <- ~Undamaged`; the
run `store` checks, and `StoreImplementsArchive` proves, that every step of
`RelayStore` is a step of it or a stutter.

### DbGossip

`known` is `knownDBs`, `inputs` counts how often each url was added to the
autobase, and `jobs` are the suspended handlers, each in the `await` of one url
with the rest of its list. A relay stands for the url of its own database.
`chan` are the messages under way, in order on each connection, and lost with
it. A process that dies, also because `sdk.get` or `addInput` rejects, comes
back with its own database only.

### HyperRelay

An action is the code between two awaits. `entry` is `topics.get(topic)`;
`Connect` and `SwarmCreated` are the two halves of the handler around `await
createSwarm`. `subs[s]` maps ids to subscription objects and `sub[r]` is the
object made by the `r`-th `REQ`, which outlives its entry: queries hold on to
it. `ReceiveEvent` streams, starts the write and answers, and `handleEvent` is
the write, which goes on later. A query waits for the view (`RunQuery`) and delivers
(`DeliverQuery`). A filter is given by the events its plain conditions accept
(`plain`), those with one of the values of each tag it names (`tagged`), those
with all of them (`alltags`), and its limit: a query asks for `plain` and `alltags`
(`buildQueries`), `validateEvent` for `tagged` only, and `Matches`, which the history
uses, is what the client asked for. `Newest` cuts a result to exactly its limit and
takes any of the events of the same time. `base`, `due`, `open` and `sent` of a subscription are
history: what was stored when the `REQ` came in, what was published since,
whether the client still holds it open, and how often each event was sent.

The collection is a set of documents. A document keeps the `_id` it was inserted
with while updates put other events in it. `handleEvent` takes one of three
steps: `Store` inserts a regular event and upserts a replaceable one; `Find`
looks up the documents that a delete or parameterized replaceable event acts on;
`ChangeOne` then deletes or updates one of them, by its `_id`, and other handlers
run in between, so that a document may be gone or hold another version by then.
Each call of hyperdeebee is taken as one step, and a `find` returns what there is
at its start. A database of another relay brings documents of its own, so that
the collection can hold a remote and a local version of one replaceable event.

### EventMaker

`pc` is the step `main` is at, or how it ended. Every option that changes state
is a disjunct of `ReadOption` or an action of its own, in any order and any
number up to `MaxOptions`. A hash is the record of what was hashed, with any
number of leading zero bits; a signature the record of key and hash; a
ciphertext the record of text, sender and receiver. Sizes of tags and contents
are constants, so that everything around the buffer limits can happen.
`Commitment` keeps the cut that `timebuf` makes of large times. `asked` is
history: the tags asked for.

gnostr-git is the same program with another usage text.

### HttpSession and PostService

Each client posts an `EVENT` and then a `REQ`, on a connection each. `chan` are
the two directions of each connection: how large the message is, how much of it
is written and read, and where the reader's `http::parse` is, with its
`read_left`. `ReadHeader` is `read_until`, which returns the header with any part
of the content; `HeaderEnd` what `parse` does then; `ReadBody` the read of the
rest. `Window` bounds what a connection takes before a write waits. The relay
(`Accept`, `RelayRead`, `HandleEvent`, `HandleRequest`, `HandleFailure`,
`RelayWrite`, `Drop`) serves the connection `serving`; the others wait in
`backlog`. A failed `parse` is only logged, and the relay goes on with an empty
message, as the code does. `HandleUnsaved` is an `EVENT` for which the `ofstream` of
`database::append` does not open: the event is in the vector and not in the file,
and 200 OK is sent all the same. Faults are such opens, connects that fail, resets
and killed clients, up to `MaxFaults`; a client in `Slow` may stop for ever as well.
`mem` and `file` are the relay's vector and `database.json`; `answers` keeps the set of
events of the answer to each `REQ`, and `unsaved` is history: the clients whose
event came when the file did not open.

`post[k]` is how far a post is and, after that, what `send` has *logged*: an error
("failed"), an empty message ("acked") or a list of events ("answered"). It is not
what `send` has returned, because that is 0 on every path (`http_client.cc:131`)
although `main` tests for a value below 0 (`http_client.cc:45`, `54`); `EndPost`
therefore goes on to the next post whatever was logged.

`PostService` has no bytes, sockets or queues: a post is taken at once and at most
once or not at all. A client logs a reply only after that (`LogReply`), an error at
any time, also of a post that was taken (`LogError`); a caller is told neither. An
event that is taken goes into the store (`Store`) or is held back when the file does
not open (`Hold`), and then comes into the store with the next one that is stored.
`ImplementsService` maps `stored` to the range of `file`, `held` to the rest of `mem`
and `logged` to what is in the logs (`Logged`).

### ClientSession

A user is a web session, a desktop window or a run of `wss_client` (`wss_req` is a
copy of it). `job` is what the user's last click does, `net`, `query`, `answer` and
`store` are its websocket connection. `Begin`, `Deliver`, `Closed` and `Lost` are
the session that `relay_to` and `send_message` run; `EndSession` and `Continue` are
what `get_follows`, `get_feed` and `get_metadata` do with it and which session they
begin next. `relay_to` closes on the first message, and what is under way still
arrives; `send_message` of the home page waits for a message that parses and is not
an `EVENT`, and only logs one that does not parse (`Closes`, `home.cc:207-237`). The
relay is one that follows NIP-01, one that answers as `relay_t::make_response` does,
or the hyper-nostr relay; of the last only the answer to an `EVENT` is modelled here,
`Garbled`, because `server.js:136` puts the id into its `OK` without quotes. What the
relay has stored does not change during a run of the model.

`key` is the web server's variable `pubkey`. `Assign` and `EndAssign` are the two
ends of an assignment: two that overlap, or a read during one, is a data race,
and gives one of the keys or `Torn`, a mixture of both. A home page under
construction (`page` is "opening") assigns the default key and then, in `ShowKey`,
fills its field from the variable, which may hold another user's key by then.
A feed page is "blank" until "Get Feed". `foreign` and `spoiled` are history: another
user assigned since or while the field was filled, a connection failed.

## 3. Runs

Passing runs:

| Run | Instance | Shows |
|---|---|---|
| `store` | two `wss_relay`, one `http_relay`, three events of two authors, one of them malformed, 2 `EVENT`s, a crash, a failed open | `TypeOK`, `AnsweredEventsAreStored`, `AnsweredEventsAreRemembered`, `AppendHeals`, `EoseMeansNothingStored`, `ImplementsArchive` |
| `gossip_line` | three relays in a line | `TypeOK`, `AddedOnce`, `KnownAreAdded`, `EventuallyShared` |
| `gossip_faults` | two relays, two lost connections, a restart | `KnownAreAdded`, `EventuallyShared` |
| `hyper_subs` | two connections, a topic set up at the start, a remote database, 2 `REQ`s with and without limit | `TypeOK`, `SentOnce`, `EoseAfterStored`, `ClosedLeavesNothing`, `FutureEvents` |
| `hyper_kinds` | one connection to a new topic; replaceable, parameterized and delete events of two authors, a remote database with earlier versions, 1 `REQ` | `EoseAfterStored`, `OnlyAuthorRemoves`, `EveryReqEnds`, `OkMeansStored` |
| `maker` | up to four options, two keys, texts and tags around the limits | `TypeOK`, `PrintedEventsVerify`, `SignedIsPrinted`, `PowHonoured`, `TagsAreKept`, `DmIsEncrypted` |
| `http` | two clients, one of them slow, messages of 3 and 4 bytes with a header of 2, a window of 3, one fault, which may be a file that does not open | `TypeOK`, `ParsedIsWhole`, `ReadsOwnWrite`, `FileRepeats`, `ImplementsService`, `EveryPostEnds` |
| `clients` | two users of a web server with 3 and 1 or 2 and 2 clicks, or a desktop with 2, all three relays, one fault | `TypeOK`, `RowsFollowList`, `FetchIsComplete`, `OwnKey`, `ClicksEnd` |

Runs in which what a comment, an assertion or an announced protocol says is
violated by what the code does:

| Run | Property | What happens |
|---|---|---|
| `hyper_split` | `FutureEvents` | two first connections create two swarms that do not stream to each other |
| `maker_nonce` | `NoAssertionFails` | `--tag nonce x --pow n` fails an assertion of `mine_event` |
| `client_eose` | `SendEnds` | the home page waits for a message that is not an `EVENT`; `wss_relay` answers a `REQ` that matches with one `EVENT` and nothing else |
| `client_ok` | `PublishEnds` | the `OK` of the hyper-nostr relay is not JSON; the home page logs that and goes on waiting |

### Bounds

* `store`: two `EVENT`s are enough for two appends to overlap and for a third
  process to start in between, and one crash or failed open can hit each step.
  What the bounds leave out the theorems cover: they hold for any of them.
* `gossip_line`: in a line the outer relays hear of each other only through the
  middle one, so a list that is not passed on is noticed. `MaxBacklog`
  limits what is under way when another connection comes up: with 0 in
  `gossip_line` the second link comes up when the first exchange is over, with
  9 in `gossip_faults` at any time. Safety is proved without the bound mattering.
* `hyper_subs`: two subscriptions and a remote database give up to four
  concurrent queries, two of them for one subscription; one published event can
  be streamed, found by the `REQ`'s query and by the new database's query.
* `hyper_kinds`: two events and a remote database with two are enough for one to
  delete or replace another while a query is between its two steps, and for a
  delete to find a document into which the other event is put before it is
  deleted.
* `maker`: four options suffice for each combination of key, work, direct
  message and tag options; two tags reach the limit with the tag of `--dm` or of
  mining; the long text fits as it is and overflows when it is encrypted.
* `http`: with a header of two bytes a read ends before, in, at and behind the end
  of the header; the window is smaller than an answer with an event, so that
  writes wait; the slow client can stall in the queue, while served, or between
  its posts. Two clients are enough for one to wait for the other. What the sizes
  leave out the theorems cover.
* `clients`: opening the home page, editing the key and a fetch take three clicks,
  and the other user's assignment can fall anywhere in between; with two clicks
  each both fetch at the same time. alice follows two keys, one of which has two
  notes and the other an unreadable newest one. Her first stored event is a note
  without `p` tags and bob's one with a `p` tag, so that the lists which the two
  kinds of relay lead to differ, and one is empty.

Deadlock is checked in `store`. In the other runs it is not: gnostr and the
clients end, and the relays may rest with the bounded number of messages
handled. That `http` and `clients` do not get stuck earlier is what
`EveryPostEnds` and `ClicksEnd` say.

### Fairness

* `DbGossip!Fairness`: messages on a connection that stays up arrive, and the
  event loop runs handlers and resumes those whose promises resolved.
  Nothing is assumed of connections; `EventuallyShared` asks for its conclusion
  only when the relays stay linked from some time on.
* `HyperRelay!Fairness`: queries and writes whose promises resolve are resumed,
  once for each `REQ` and each event. Clients and peers need not do anything.

Both are what a JavaScript event loop guarantees, given that hypercore and
hyperdeebee, which are external, resolve their promises.

* `HttpSession!Fairness`: the relay and each client that is not in `Slow` take
  their next step if they can: processes are scheduled, and TCP delivers what
  was written on a connection that is not reset. Faults are never required.
* `ClientSession!Fairness`: each user's session goes on: the relay answers and
  closes when it is asked to, the network delivers, the thread runs. Clicks,
  notices and losses are never required. Without a relay that answers nothing
  ends, because the code has no timeout; that is why this is assumed of the
  relay and not shown. `ClicksEnd` has a proviso for the "Send" of a home page: the
  relay's answer has a message that parses and is not an `EVENT`. `client_eose` and
  `client_ok` show the two ways in which this repository's relays do not meet it.

`RelayStore` and `EventMaker` state safety only and need no fairness.

## 4. Proofs

All from the named assumptions of the modules (`StoreAssumption`,
`GossipAssumption`, `HyperAssumption`, `MakerAssumption`, `HttpAssumption`,
`ClientAssumption`), which only type the constants, tell them apart and say that
the set of connections is finite, and which TLC evaluates in the runs.

`RelayStoreProofs`, for any number of processes, events, crashes and failures:

* `TypeCorrect`, with `ProcessInv`: a process in an append has a non-empty list
  and everything it remembers in the text to be written. It is needed for the
  answer, which takes the last element of the list.
* `Durability` (`AnsweredEventsAreStored`). The property is not inductive: what
  protects events while the file is empty is the text in a process's memory.
  `DurableInv` says that as long as nothing was damaged there is one append at
  a time, that its text has all that is stored and answered, that the file is
  empty while it writes, and that otherwise all answered events are stored.
* `EoseHonest` (`EoseMeansNothingStored`), from `DurableInv` and what a `REQ` reads.
* `Heals` (`AppendHeals`) and `Remembered` (`AnsweredEventsAreRemembered`), from
  `ProcessInv`: together they say that what is lost from the file comes back.
* `StoreImplementsArchive`: the initial states map to the archive's, every step
  to `Record`, `Confirm`, `Damage` or a stutter.

`DbGossipProofs`: `GossipTypes`, `AddsOnce` and `GossipCorrect` establish `TypeOK`,
`AddedOnce` and `KnownAreAdded` for any graph of relays, with lost connections
and restarts; all three follow from `GossipInductive`. The strengthening `JobInv` says that a url being added is not an input yet, is not
the relay's own, and is being added by one handler only.

`HyperRelayProofs`, for any number of connections, subscriptions, events, authors
and remote databases. `RelayInductive` establishes `RelayInv`, which has three parts:

* `TopicInv`: no more swarms are made than sockets have connected, and the one of
  the start, so that there is a place for each.
* `DbInv`: the author of a document is that of the event it was inserted with,
  whatever was put in it since, and a suspended handler holds `_id`s of documents of
  its own event's author only. `OnlyAuthorRemoves` needs this, because what is in
  a document changes between the find and the update.
* `SubsInv`: an event is in `receivedEvents` if and only if it was sent, and then
  once (`Once`); a registered subscription belongs to an open socket of that swarm
  (`RegInv`); what was stored when the `REQ` came in is stored or was removed
  (`BaseInv`), is in the result of a query that has found (`ResultInv`), and has
  been sent or removed after EOSE (`EoseInv`).

From it `RelayTypes` (`TypeOK`), `SendsOnce` (`SentOnce`), `EoseEndsStored`
(`EoseAfterStored`), `ClosedIsGone` (`ClosedLeavesNothing`) and `AuthorsRemove`
(`OnlyAuthorRemoves`). `FutureReaches` (`FutureEvents`) assumes `Apart`: the topic is
set up at the start and no two sockets use the same subscription id. The run
`hyper_subs` is such an instance, and `hyper_split` shows that the first half is
needed. It rests on `OneSwarm` and `OpenInv`: there is one swarm,
and a subscription its client holds open is the one registered under its id and
has received what it is due.

`EventMakerProofs`, for any options, sizes and limits, six theorems:
`MakerTypes`, `Verifies`, `SignedPrinted`, `PowIsHonoured`, `TagsKept`,
`DmEncrypted`. The properties speak of printed events; the invariant `MakerInv`
follows the event on its way there: `OptionsInv` (what excludes each other,
and that the event is printed last), `EventInv` (from the hash on, the id is of
the event as it is, which fits the buffer, and the key is the event's),
`TagsInv` (what was asked for is in the list, before the nonce tag while
mining), `PowInv` and `DmInv`. `PrintsOnce` then gives each theorem one case.
`SignedPrinted` compares the two buffers: the commitment has all that is
printed and its frame besides.

`HttpSessionProofs`, for any number of clients and faults and all sizes of
headers, contents, pieces and windows:

* `HttpInductive`: the invariant `HttpInv` has three parts. `SocketInv` is about
  bytes: in each direction what is read was written, what is left to read is the
  content less what was read of it (`ChanInv`); nobody reads before it is time
  and an answer is made when its post has been handled (`LinkInv`); a connection
  waits in the backlog once and untouched (`QueueInv`). `EffectInv` ties the relay's
  vector, file and answers to the posts it has handled (an event that was handled
  is in the vector, and in the file unless its open failed), and `KnowInv` what
  clients have logged to what was handled. Each action has a lemma; most are instances of a few
  about steps that change one direction of one connection.
* `HttpTypes` and `Framing` (`TypeOK`, `ParsedIsWhole`) are `ChanInv`: `read_left`,
  an unsigned difference, does not wrap, and a `parse` that succeeds has read all.
* `OwnWrite` (`ReadsOwnWrite`): acknowledged means handled, handled means stored if
  the file opened, and the client's `REQ` comes after. A client whose own event
  came when it did not is left out: it is acknowledged as well.
* `Repeats` (`FileRepeats`): as long as every open succeeds, the part of the file that
  is there stays, and the whole vector comes behind it; `TriangleNext` is the
  arithmetic of n(n+1)/2.
* `PostsAreService` (`ImplementsService`): handling an `EVENT` is `Store` or, if the file
  does not open, `Hold`, handling a `REQ` is `Query`, the end of `send` is `LogReply` or
  `LogError`, the rest is stuttering. It says that the log is true, and nothing of
  the value `send` returns, which is always 0.

`ClientSessionProofs`: `OwnKeyAsked` (`OwnKey`), for any number of users. The
invariant `KeyInv` says that a user whom nobody has disturbed since the user's
own last assignment, or since the field was filled from `pubkey` (`ShowKey`), finds
the key of the own field in `pubkey`, and that while one user assigns every other
one counts as disturbed.

`ClientFetchProofs`, for any number of users, keys, stored events and faults, lists
of any length and every kind of relay:

* What a relay answers and what a client keeps of it are elements picked from a
  sequence by their places (`Picked`). `PlacesExist` shows that every set of places
  has a first, a second and so on up to its size, by the least length for which
  it would fail (`Least`, from the well-foundedness of the natural numbers). From
  it `PickedIs`, `ReadableIs` and, for answers, `ReplyIs`: the events in an answer are
  of the author asked for, one if the limit is one, and none of them twice.
* `ClientTypes` (`TypeOK`), from `TypeInv`: in the middle of a fetch there is a key left.
* `FetchComplete` (`FetchIsComplete`). The property is about fetches that have ended,
  and compares them with what the relay stores: `Leading` is the event it answers a
  `REQ` with first, for a relay of NIP-01 the newest of the author and kind, for
  `wss_relay` the first it stored of the author. The list is that event's, whether
  empty or not, and the rows have that event for each key. `FirstLeads`, from
  `Nip01First` and `WssFirst`, says that the first message of an answer is `Leading`.
  `FetchInv` says for each user where the click is, and that the keys left are the
  end of the list (`ClickInv`); that all events on a connection are from the answer
  to its query, and that without a fault the first message to arrive is the
  first of the answer, also after messages that came in behind the close
  (`SessionInv`); that from the end of the first session on the list is the one the relay
  led with, and that the table has the first event of every key dealt with
  (`CompleteInv`). Each action has a lemma; `Same` is what it leaves of other users.
* `RowsInOrder` (`RowsFollowList`) assumes `NoRepeats`: a relay of NIP-01 does not hold
  an event twice. Of `wss_relay` it assumes nothing, as that answers a `REQ` with one
  event. `OrderInv` says that no event comes twice on a connection, counting what has
  arrived and what has not (`OnceInv`), and that there is a map from the rows to
  the keys dealt with, in order (`RowsInv`); the rows of one more key extend that map.

Only model-checked: liveness (`EventuallyShared`, `EveryReqEnds`, `OkMeansStored`,
`EveryPostEnds`, `ClicksEnd`), which is out of the prover's reach. Every invariant,
action property and refinement that a passing run checks is a theorem.

## 5. Other disagreements met while modelling

They are in the models; no run is about them.

* `relay.cc:83` says of a `REQ` that the relay queries its database and returns
  the events that match; it answers with the first of them only (`relay.cc:89`).
* Subscription ids belong to a client, but `server.js:140` keeps one map for all
  sockets of a topic: a `REQ` with an id that another socket uses takes over its
  subscription, and a `CLOSE` deletes it. The instances give each socket ids of
  its own; `FutureEvents` is true only then.
* `server.js:135` does not wait for `sendEvent` before it sends `OK`. A `REQ` whose query
  runs before the insert does not find the event, and was not registered when it
  was streamed: its client gets it with the next `REQ` only. NIP-01 speaks of events
  received after the `REQ`, so that this contradicts no line of the repository.
* Tags: a query asks for the tag and all the values of a filter (`$all`, `db.js:10`),
  a streamed event needs one of the values (`some`, `nostr_events.js:21`). An event may be
  streamed to a subscription whose query would not have found it.
* `send` of `http_client.cc` logs errors and returns 0 on every path (`131`); the tests for
  a value below 0 in `main` (`45`, `54`) never succeed, and have an empty body besides. A
  client that could not publish goes on and exits with status 0.
* `nostr_events.js:26`: the conditional operator binds last, so that an event
  that fails validation passes, and `validateEvent` turns none away.
* `nostr_events.js:31` tests `key in validateEvent` where the handlers are in
  `validateHandlers`: streamed events are matched by their tags only.
* `db.js:50` tests a list that is true when empty: the first version of a
  parameterized replaceable event is not stored.
* A delete event removes the document it found by its `_id`, which may hold a
  newer version of the event by then; `OnlyAuthorRemoves` says that it is the
  author's all the same. Which of two versions of a replaceable event stays is
  the order of their updates, not `created_at`.
* `Math.max` of a list of two or more limits is `NaN` (`db.js:75`): no limit applies.
* `http_relay` writes its whole vector behind what the file has on every `EVENT`,
  so that the file holds every prefix of the vector (`FileRepeats`): it grows with
  the square of the number of events, and answers have duplicates.
* `wss_relay` ignores the kinds of a filter, so that `get_follows` may take the `p`
  tags of a note for a contact list.
* The `pubkey` of the web client is shared by its users (`web.cc:12`): `OwnKey` is
  true only with `foreign`.
* gnostr's usage calls `-e`, `-p` and `-t` shorthands for `--tag`, but only `--tag`
  is refused after `--tags`; the others are accepted and their tag is not
  printed. With `--dm` and `--tags` the `p` tag is not printed either.
* `--envelope` and `--mine-pubkey` cannot be the last argument.
* `--sec` with `--pow` and `--mine-pubkey` mines nothing.
* A `created_at` of 16 digits or more is cut in `timebuf`: the id commits to
  another time than the printed one. `PrintedEventsVerify` leaves it out.
* A refused command line and a failed direct message exit with status 0.

## 6. What is not modelled, and why

* TLS, websocket framing, hypercore, hyperdeebee, autobase: external, modelled by
  what this repository's code sees of them.
* `COUNT` and the information document of the hyper-nostr relay: they read and
  change nothing. Messages that arrive while a socket waits for its swarm.
* Handlers of the hyper-nostr relay that throw. A message that is not JSON
  (`server.js:123`), an `EVENT` without an event or a delete or parameterized
  replaceable event without tags (`db.js:46`, `60`), which `validateEvent` lets pass,
  rejects a promise that nobody handles, and ends the process with all its topics
  and sockets. `HyperRelay` is about messages that do not throw; `EveryReqEnds` and
  `OkMeansStored` in particular hold only while the process lives.
* What the clients ask of the hyper-nostr relay with `REQ`: its answers depend on
  writes under way and are `HyperRelay`'s subject.
* In `HttpSession` other relays on the same file and a file that cannot be read or
  parsed: `RelayStore` has them.
* How hyperdeebee carries out one call. If two upserts of one author and kind can
  overlap inside the library, both may insert; no property here depends on it.
* AES, base64, SHA-256, secp256k1 and `configurator.c`: third-party; used as terms.
  The buffers of AES padding in `make_encrypted_dm` are a matter of memory
  safety, not of this model.
* `make_event` of `nostr.cc` and `src/nostril/`: copies of functions of `gnostr.c`,
  called in a fixed order. `sources/gnostr-xor.c`: unfinished; every path of it
  prints or runs a command and exits.
* `goodbye.js`: it registers closers, and `graceful-goodbye`, which is external,
  decides when they run. `db_explore.js` only reads.
* Widgets, layout, the choice of a relay from a list, the JSON conversions of the
  clients. An event that does not convert is modelled (`Unreadable`).
* Logging, uuids, generated headers, scripts, build files, everything under `ext/`,
  which is vendored and most of the repository's lines.

## 7. Plan

Done, in the order of importance: `RelayStore` with `EventArchive`, `DbGossip`,
`HyperRelay`, `EventMaker`, `HttpSession` with `PostService`, `ClientSession`, and
proofs about all six. Left: liveness stays with the runs.
