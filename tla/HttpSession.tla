---------------------------- MODULE HttpSession ----------------------------
(***************************************************************************)
(* HTTP clients and the HTTP relay, over sockets that deliver bytes.       *)
(*                                                                         *)
(* Each http_client posts an EVENT and then a REQ, on a connection of its  *)
(* own each.  http_relay serves one connection after the other: it reads a *)
(* post with http::parse, handles it and writes its answer, which the      *)
(* client reads with the same http::parse.  What one side writes arrives   *)
(* in pieces of any size; a connection can break and a client can be       *)
(* killed at any point; the relay may be unable to open its file; nothing  *)
(* has a timeout.  There is one relay: what other programs do to the file  *)
(* is RelayStore's subject.                                                *)
(*                                                                         *)
(* A message is its header, HeaderSize bytes up to and with the empty      *)
(* line, and the bytes after it, whose number is in Content-Length.  Of    *)
(* the bytes the model keeps how many were written and read.               *)
(***************************************************************************)
EXTENDS Integers, Sequences, Functions

CONSTANTS
  Clients,      \* http_client processes; each stands for the event it sends
  Slow,         \* those that may stop for ever without closing the socket
  None,         \* no connection
  HeaderSize,   \* bytes of a header
  EventSize,    \* bytes of the JSON text of an EVENT message
  RequestSize,  \* bytes of the JSON text of a REQ message
  EmptySize,    \* bytes of the JSON text of an empty list of events
  ItemSize,     \* bytes of one event in a list
  Window,       \* bytes a connection takes before a write has to wait
  MaxFaults     \* bound: failed connects and opens, resets, killed clients

Kinds == {"EVENT", "REQ"}
Posts == Clients \X Kinds      \* also the connections
Chans == Posts \X {"up", "down"}
Up(k) == <<k, "up">>
Down(k) == <<k, "down">>

ASSUME HttpAssumption ==
  /\ Slow \subseteq Clients
  /\ None \notin Posts
  /\ HeaderSize \in Nat \ {0} /\ EventSize \in Nat \ {0}
  /\ RequestSize \in Nat \ {0} /\ EmptySize \in Nat \ {0}
  /\ ItemSize \in Nat /\ Window \in Nat \ {0} /\ MaxFaults \in Nat

VARIABLES
  at,       \* the post each client is at, "exit" after the last, or "killed"
  post,     \* how far each post is and, once send has returned, what it logged
  chan,     \* the two directions of each connection
  broken,   \* connections that were reset
  backlog,  \* connections the relay has not accepted yet
  serving,  \* the connection the relay serves
  mem,      \* the relay's vector `database'
  file,     \* database.json
  unsaved,  \* history: clients whose event came when the file did not open
  answers,  \* the events in the answer to each client's REQ, once it is made
  faults    \* how many there were so far

vars == <<at, post, chan, broken, backlog, serving, mem, file, unsaved,
          answers, faults>>
store == <<mem, file, unsaved, answers>>
relay == <<backlog, serving, store>>

-----------------------------------------------------------------------------
(* One direction of a connection.  total is the size of the message its    *)
(* writer makes and content the part after the header; sent of it are      *)
(* written and taken are read; eof: the writer has closed.  rd is where    *)
(* the reader's http::parse is, and left its read_left.                    *)
Quiet == [total |-> 0, content |-> 0, sent |-> 0, taken |-> 0, eof |-> FALSE,
          rd |-> "none", left |-> 0]

(* http::make_post; with no content also http_relay's "HTTP/1.1 200 OK".   *)
WithMessage(s, n) == [s EXCEPT !.total = HeaderSize + n, !.content = n]

Room(s) == {n \in 1..Window : s.sent + n <= s.total /\ s.sent + n - s.taken <= Window}
Arrived(s) == 1..(s.sent - s.taken)
Whole(s) == s.taken = s.total

(* Mutants of HeaderEnd: whatever came with the header is taken for the    *)
(* content; the header is counted as content; what came with it is not.    *)
ContentIsThere(s) ==
  IF s.content = 0 \/ s.taken > HeaderSize THEN [s EXCEPT !.rd = "done"]
  ELSE [s EXCEPT !.rd = "body", !.left = s.content]
HeaderCounts(s) ==
  IF s.content = s.taken THEN [s EXCEPT !.rd = "done"]
  ELSE [s EXCEPT !.rd = "body", !.left = s.content - s.taken]
ForgetsLeftovers(s) ==
  IF s.content = 0 THEN [s EXCEPT !.rd = "done"]
  ELSE [s EXCEPT !.rd = "body", !.left = s.content]

(* http::parse once the empty line has come: without Content-Length it     *)
(* returns; otherwise what is in the buffer already is part of the content *)
(* and read_left is the rest, possibly nothing.                            *)
HeaderEnd(s) ==
  LET rest == s.content - (s.taken - HeaderSize)
  IN  IF s.content = 0 \/ rest = 0 THEN [s EXCEPT !.rd = "done"]
      ELSE [s EXCEPT !.rd = "body", !.left = rest]

(* read_until: reads whatever has arrived, until the empty line is in it.  *)
ReadHeader(s, n) ==
  LET t == [s EXCEPT !.taken = @ + n]
  IN  IF t.taken < HeaderSize THEN t ELSE HeaderEnd(t)

(* asio::read with transfer_exactly(read_left).                            *)
ReadBody(s, n) ==
  [s EXCEPT !.taken = @ + n, !.left = @ - n,
            !.rd = IF s.left = n THEN "done" ELSE "body"]

(* A step of http::parse that gets n bytes from the socket.                *)
Parse(x, n) ==
  \/ /\ chan[x].rd = "header"
     /\ chan' = [chan EXCEPT ![x] = ReadHeader(@, n)]
  \/ /\ chan[x].rd = "body"
     /\ n <= chan[x].left
     /\ chan' = [chan EXCEPT ![x] = ReadBody(@, n)]

(* The read throws: the connection was reset, or the other side has closed *)
(* and all is read.  http::parse returns -1 and leaves http.msg empty.     *)
ParseFails(k, x) ==
  /\ chan[x].rd \in {"header", "body"}
  /\ k \in broken \/ (chan[x].eof /\ chan[x].sent = chan[x].taken)
  /\ chan' = [chan EXCEPT ![x].rd = "failed"]

-----------------------------------------------------------------------------
Init ==
  /\ at = [c \in Clients |-> "EVENT"]
  /\ post = [k \in Posts |-> "new"]
  /\ chan = [x \in Chans |-> Quiet]
  /\ broken = {}
  /\ backlog = << >>
  /\ serving = None
  /\ mem = << >>
  /\ file = << >>
  /\ unsaved = {}
  /\ answers = [c \in Clients |-> {}]
  /\ faults = 0

Text(kind) == IF kind = "EVENT" THEN EventSize ELSE RequestSize
After(kind) == IF kind = "EVENT" THEN "REQ" ELSE "exit"

(* A client is at the post k, which is at the given stage.                 *)
AtPost(c, k, stage) ==
  /\ at[c] \in Kinds
  /\ k = <<c, at[c]>>
  /\ post[k] = stage

(* send has logged what happened and returns 0, also after an error; main  *)
(* tests for a value below 0, which never comes, and goes on.              *)
EndPost(c, k, result) ==
  /\ post' = [post EXCEPT ![k] = result]
  /\ at' = [at EXCEPT ![c] = After(at[c])]

Connect(c, k) ==
  /\ AtPost(c, k, "new")
  /\ post' = [post EXCEPT ![k] = "writing"]
  /\ chan' = [chan EXCEPT ![Up(k)] = WithMessage(@, Text(at[c]))]
  /\ backlog' = Append(backlog, k)
  /\ UNCHANGED <<at, broken, serving, store>>

ConnectFails(c, k) ==
  /\ AtPost(c, k, "new")
  /\ EndPost(c, k, "failed")
  /\ UNCHANGED <<chan, broken, relay>>

(* asio::write: piece by piece, and http::parse is called after the last.  *)
Write(c, k, n) ==
  /\ AtPost(c, k, "writing")
  /\ n \in Room(chan[Up(k)])
  /\ \/ /\ chan[Up(k)].sent + n < chan[Up(k)].total
        /\ chan' = [chan EXCEPT ![Up(k)].sent = @ + n]
        /\ UNCHANGED post
     \/ /\ chan[Up(k)].sent + n = chan[Up(k)].total
        /\ chan' = [chan EXCEPT ![Up(k)].sent = @ + n, ![Down(k)].rd = "header"]
        /\ post' = [post EXCEPT ![k] = "reading"]
  /\ UNCHANGED <<at, broken, relay>>

WriteFails(c, k) ==
  /\ AtPost(c, k, "writing")
  /\ k \in broken
  /\ EndPost(c, k, "failed")
  /\ chan' = [chan EXCEPT ![Up(k)].eof = TRUE]
  /\ UNCHANGED <<broken, relay>>

Read(c, k, n) ==
  /\ AtPost(c, k, "reading")
  /\ n \in Arrived(chan[Down(k)])
  /\ Parse(Down(k), n)
  /\ UNCHANGED <<at, post, broken, relay>>

ReadFails(c, k) ==
  /\ AtPost(c, k, "reading")
  /\ ParseFails(k, Down(k))
  /\ UNCHANGED <<at, post, broken, relay>>

(* Mutant of Result: -1 is ignored, an empty message logged as received.   *)
EmptyIsAck(s) ==
  IF s.content # 0 /\ ~Whole(s) THEN "failed"
  ELSE IF s.content = 0 THEN "acked" ELSE "answered"

(* What send logs after http::parse: that it failed, that an empty message *)
(* was received, as after an EVENT, or the list of events; a list that is  *)
(* not JSON is an error again.  The socket is closed in any case.          *)
Result(s) ==
  IF s.rd = "failed" \/ (s.content # 0 /\ ~Whole(s)) THEN "failed"
  ELSE IF s.content = 0 THEN "acked" ELSE "answered"

Finish(c, k) ==
  /\ AtPost(c, k, "reading")
  /\ chan[Down(k)].rd \in {"done", "failed"}
  /\ EndPost(c, k, Result(chan[Down(k)]))
  /\ chan' = [chan EXCEPT ![Up(k)].eof = TRUE]
  /\ UNCHANGED <<broken, relay>>

(* The client is killed; the system closes its socket.                     *)
Kill(c) ==
  /\ at[c] \in Kinds
  /\ at' = [at EXCEPT ![c] = "killed"]
  /\ chan' = [chan EXCEPT ![Up(<<c, at[c]>>)].eof = TRUE]
  /\ UNCHANGED <<post, broken, relay>>

Reset(k) ==
  /\ post[k] \in {"writing", "reading"}
  /\ k \notin broken
  /\ broken' = broken \cup {k}
  /\ UNCHANGED <<at, post, chan, relay>>

-----------------------------------------------------------------------------
Accept(k) ==
  /\ serving = None
  /\ backlog # << >> /\ k = Head(backlog)
  /\ backlog' = Tail(backlog)
  /\ \/ /\ serving' = k
        /\ chan' = [chan EXCEPT ![Up(k)].rd = "header"]
     \/ /\ k \in broken        \* remote_endpoint() throws
        /\ chan' = [chan EXCEPT ![Down(k)].eof = TRUE]
        /\ UNCHANGED serving
  /\ UNCHANGED <<at, post, broken, store>>

RelayRead(k, n) ==
  /\ serving = k
  /\ n \in Arrived(chan[Up(k)])
  /\ Parse(Up(k), n)
  /\ UNCHANGED <<at, post, broken, relay>>

RelayReadFails(k) ==
  /\ serving = k
  /\ ParseFails(k, Up(k))
  /\ UNCHANGED <<at, post, broken, relay>>

(* The relay starts to write an answer with n bytes of content.            *)
Reply(k, n) ==
  chan' = [chan EXCEPT ![Up(k)].rd = "handled", ![Down(k)] = WithMessage(@, n)]

Handles(k, kind) ==
  /\ serving = k
  /\ k[2] = kind
  /\ chan[Up(k)].rd = "done"
  /\ Whole(chan[Up(k)])

(* An EVENT: into the vector and, with all of the vector, into the file.   *)
Stores(k, text) ==
  /\ mem' = Append(mem, k[1])
  /\ file' = text
  /\ UNCHANGED answers
Acknowledges(k) ==
  /\ Reply(k, 0)
  /\ UNCHANGED <<at, post, broken, backlog, serving>>

(* Mutants of HandleEvent: only the new event is appended to the file, and *)
(* the acknowledgement is sent before the event is stored.                 *)
AppendsNewOnly(k) ==
  /\ Handles(k, "EVENT")
  /\ Stores(k, Append(file, k[1]))
  /\ Acknowledges(k)
  /\ UNCHANGED unsaved
AcknowledgesOnly(k) ==
  /\ Handles(k, "EVENT")
  /\ Acknowledges(k)
  /\ UNCHANGED store

HandleEvent(k) ==
  /\ Handles(k, "EVENT")
  /\ Stores(k, file \o Append(mem, k[1]))
  /\ Acknowledges(k)
  /\ UNCHANGED unsaved

(* The same when database::append cannot open the file to write it: nobody *)
(* looks whether it could, and 200 OK is sent all the same.                *)
HandleUnsaved(k) ==
  /\ Handles(k, "EVENT")
  /\ Stores(k, file)
  /\ Acknowledges(k)
  /\ unsaved' = unsaved \cup {k[1]}

(* A REQ: every client asks for the same author, who has signed all events. *)
HandleRequest(k) ==
  /\ Handles(k, "REQ")
  /\ answers' = [answers EXCEPT ![k[1]] = {Range(file)}]
  /\ Reply(k, EmptySize + ItemSize * Len(file))
  /\ UNCHANGED <<at, post, broken, backlog, serving, mem, file, unsaved>>

(* The socket goes out of scope, and the relay accepts the next one.       *)
Drop(k) ==
  /\ serving' = None
  /\ chan' = [chan EXCEPT ![Down(k)].eof = TRUE]

(* After a failed http::parse the relay goes on with an empty message;     *)
(* that, or a part of a message, is not JSON, and the exception ends it.   *)
HandleFailure(k) ==
  /\ serving = k
  /\ \/ chan[Up(k)].rd = "failed"
     \/ chan[Up(k)].rd = "done" /\ ~Whole(chan[Up(k)])
  /\ Drop(k)
  /\ UNCHANGED <<at, post, broken, backlog, store>>

RelayWrite(k, n) ==
  /\ serving = k
  /\ chan[Up(k)].rd = "handled"
  /\ n \in Room(chan[Down(k)])
  /\ LET last == chan[Down(k)].sent + n = chan[Down(k)].total
     IN  /\ chan' = [chan EXCEPT ![Down(k)].sent = @ + n, ![Down(k)].eof = last]
         /\ serving' = IF last THEN None ELSE k
  /\ UNCHANGED <<at, post, broken, backlog, store>>

(* Writing to a connection that was reset, or whose client is gone, throws. *)
RelayWriteFails(k) ==
  /\ serving = k
  /\ chan[Up(k)].rd = "handled"
  /\ k \in broken \/ chan[Up(k)].eof
  /\ Drop(k)
  /\ UNCHANGED <<at, post, broken, backlog, store>>

-----------------------------------------------------------------------------
ClientStep(c) ==
  \E kind \in Kinds : LET k == <<c, kind>> IN
    \/ Connect(c, k)
    \/ \E n \in 1..Window : Write(c, k, n) \/ Read(c, k, n)
    \/ WriteFails(c, k) \/ ReadFails(c, k) \/ Finish(c, k)

RelayStep ==
  \E k \in Posts :
    \/ Accept(k)
    \/ \E n \in 1..Window : RelayRead(k, n) \/ RelayWrite(k, n)
    \/ RelayReadFails(k) \/ HandleEvent(k) \/ HandleRequest(k)
    \/ HandleFailure(k) \/ RelayWriteFails(k)

Fault ==
  \/ \E c \in Clients :
       Kill(c) \/ \E kind \in Kinds : ConnectFails(c, <<c, kind>>)
  \/ \E k \in Posts : Reset(k) \/ HandleUnsaved(k)

Next ==
  \/ ((\E c \in Clients : ClientStep(c)) \/ RelayStep) /\ UNCHANGED faults
  \/ Fault /\ faults < MaxFaults /\ faults' = faults + 1

(* The relay and the clients that are not slow go on while they can.       *)
Fairness ==
  /\ WF_vars(RelayStep /\ UNCHANGED faults)
  /\ \A c \in Clients \ Slow : WF_vars(ClientStep(c) /\ UNCHANGED faults)

Spec == Init /\ [][Next]_vars /\ Fairness

-----------------------------------------------------------------------------
Channel == [total : Nat, content : Nat, sent : Nat, taken : Nat, eof : BOOLEAN,
            rd : {"none", "header", "body", "done", "failed", "handled"},
            left : Nat]

(* Type correctness.  left is read_left, an unsigned difference: that it   *)
(* is a natural number says the subtraction in http::parse never wraps.    *)
TypeOK ==
  /\ at \in [Clients -> Kinds \cup {"exit", "killed"}]
  /\ post \in [Posts -> {"new", "writing", "reading", "acked", "answered", "failed"}]
  /\ chan \in [Chans -> Channel]
  /\ broken \in SUBSET Posts
  /\ backlog \in Seq(Posts)
  /\ serving \in Posts \cup {None}
  /\ mem \in Seq(Clients)
  /\ file \in Seq(Clients)
  /\ unsaved \in SUBSET Clients
  /\ answers \in [Clients -> SUBSET SUBSET Clients]
  /\ faults \in Nat

(* Framing.  However the writes and the reads cut a message, and wherever  *)
(* the header ends in what a read returns, an http::parse that succeeds    *)
(* has read the message its peer made to the last byte.                    *)
ParsedIsWhole ==
  \A x \in Chans : chan[x].rd \in {"done", "handled"} => Whole(chan[x])

(* A client whose EVENT was acknowledged and whose REQ was answered finds  *)
(* its event in the answer, whatever the other clients do in between and   *)
(* whichever of their events were not saved; only if its own was not, which*)
(* the acknowledgement does not tell, the event may be missing.            *)
ReadsOwnWrite ==
  \A c \in Clients \ unsaved :
    (post[<<c, "EVENT">>] = "acked" /\ post[<<c, "REQ">>] = "answered")
      => \E S \in answers[c] : c \in S

(* Every EVENT appends the whole vector to the file (database::append): as *)
(* long as it opens, the file is every prefix of the vector, the shortest  *)
(* first, one after the other.  It grows, and with it every answer, with   *)
(* the square of the number of events, and the first event is in it once   *)
(* per event.                                                              *)
Triangle(n) == (n * (n + 1)) \div 2
FileRepeats ==
  unsaved = {} =>
    /\ Len(file) = Triangle(Len(mem))
    /\ \A n \in 1..Len(mem) : \A i \in 1..n : file[Triangle(n - 1) + i] = mem[i]

(* To its clients the relay is a service that takes each post as a whole   *)
(* and at most once.  What a client logs of a post is true: that it was    *)
(* answered only after the relay has taken it, and an answer of the other  *)
(* post's form never.  Of what send returns nothing can be said: it is 0.  *)
Logged(c, kind) ==
  LET p == post[<<c, kind>>]
  IN  IF p \in {"new", "writing", "reading"} THEN "nothing"
      ELSE IF p = "failed" THEN "error"
      ELSE IF p = (IF kind = "EVENT" THEN "acked" ELSE "answered") THEN "reply"
      ELSE "confusion"
Service == INSTANCE PostService WITH
             stored <- Range(file),
             held <- Range(mem) \ Range(file),
             logged <- [c \in Clients |-> [kind \in Kinds |-> Logged(c, kind)]]
ImplementsService == Service!Spec

(* Nothing has a timeout, yet a client is kept waiting by one thing only:  *)
(* a slow client whose connection the relay is serving.  Breaking          *)
(* connections, killed clients and full socket buffers hold nobody up, and *)
(* no two sides wait for each other.                                       *)
EveryPostEnds ==
  \A c \in Clients \ Slow :
    \/ <>(at[c] \in {"exit", "killed"})
    \/ <>[](serving # None /\ serving[1] \in Slow)
=============================================================================
