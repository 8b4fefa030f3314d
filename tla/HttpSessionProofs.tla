------------------------- MODULE HttpSessionProofs -------------------------
(***************************************************************************)
(* The HTTP relay and its clients, for any number of clients, any sizes of *)
(* messages, headers and buffers, and any number of faults.                *)
(***************************************************************************)
EXTENDS HttpSession, TLAPS

(* One direction of a connection: the counts are in order, and where       *)
(* http::parse is says how much it has read.                               *)
ChanOK(s) ==
  /\ s \in Channel
  /\ s.taken <= s.sent /\ s.sent <= s.total
  /\ s.total = 0 \/ s.total = HeaderSize + s.content
  /\ s.rd = "none" => s.taken = 0
  /\ s.rd = "header" => s.taken < HeaderSize
  /\ s.rd = "body" => s.total # 0 /\ s.left = s.total - s.taken
  /\ s.rd \in {"done", "handled"} => s.total # 0 /\ s.taken = s.total
ChanInv == \A x \in Chans : ChanOK(chan[x])

(* Nobody reads a direction before it is time, and the relay's answer is   *)
(* made when the post has been handled.                                    *)
LinkInv ==
  \A k \in Posts :
    /\ post[k] = "new" => chan[Up(k)].rd = "none" /\ chan[Up(k)].total = 0
    /\ post[k] \in {"new", "writing"} => chan[Down(k)].rd = "none"
    /\ chan[Up(k)].rd # "handled" => chan[Down(k)].total = 0

(* Connections wait in the backlog once, untouched by the relay.           *)
QueueInv ==
  /\ \A i \in 1..Len(backlog) :
       post[backlog[i]] # "new" /\ chan[Up(backlog[i])].rd = "none"
  /\ \A i, j \in 1..Len(backlog) : backlog[i] = backlog[j] => i = j
  /\ serving # None => chan[Up(serving)].rd # "none"

SocketInv == TypeOK /\ ChanInv /\ LinkInv /\ QueueInv

(* What the relay has done: each post that was handled has had its effect, *)
(* and no other has; an event is not in the file only if it did not open.  *)
EffectInv ==
  /\ \A c \in Clients : c \in Range(mem) <=> chan[Up(<<c, "EVENT">>)].rd = "handled"
  /\ Range(file) \subseteq Range(mem)
  /\ Range(mem) \subseteq Range(file) \cup unsaved
  /\ \A c \in Clients : answers[c] # {} <=> chan[Up(<<c, "REQ">>)].rd = "handled"
  /\ \A k \in Posts : chan[Up(k)].rd = "handled" =>
                        (k[2] = "EVENT" <=> chan[Down(k)].content = 0)

(* What the clients know of it.                                            *)
Ended == {"acked", "answered", "failed"}
KnowInv ==
  /\ \A c \in Clients :
       (post[<<c, "REQ">>] # "new" \/ at[c] \in {"REQ", "exit"})
         => post[<<c, "EVENT">>] \in Ended
  /\ \A k \in Posts : post[k] \in {"acked", "answered"} =>
       /\ chan[Up(k)].rd = "handled"
       /\ post[k] = "acked" <=> k[2] = "EVENT"
  /\ \A c \in Clients \ unsaved :
       (chan[Up(<<c, "REQ">>)].rd = "handled" /\ post[<<c, "EVENT">>] = "acked")
         => \E S \in answers[c] : c \in S

HttpInv == SocketInv /\ EffectInv /\ KnowInv

(* A step in which the relay handles no post.                              *)
HandlesNone ==
  /\ \A k \in Posts : /\ chan'[Up(k)].rd = "handled" <=> chan[Up(k)].rd = "handled"
                      /\ chan'[Down(k)].content = chan[Down(k)].content
  /\ UNCHANGED <<mem, file, unsaved, answers>>

-----------------------------------------------------------------------------
(* The two directions of a connection are channels of their own.           *)
LEMMA Directions ==
  /\ \A k \in Posts : Up(k) \in Chans /\ Down(k) \in Chans
  /\ \A j, k : Up(j) # Down(k)
  /\ \A j, k : Up(j) = Up(k) => j = k
  /\ \A j, k : Down(j) = Down(k) => j = k
BY DEF Up, Down, Chans

LEMMA PostsOf ==
  /\ \A c \in Clients, kind \in Kinds : <<c, kind>> \in Posts
  /\ \A k \in Posts : k[1] \in Clients /\ k[2] \in Kinds /\ k = <<k[1], k[2]>>
  /\ \A b, c, i, j : <<b, i>> = <<c, j>> => b = c /\ i = j
BY DEF Posts

(* http::make_post, for a direction on which nothing was sent.             *)
LEMMA MessageOK ==
  ASSUME NEW s, ChanOK(s), s.total = 0, NEW n \in Nat
  PROVE  /\ ChanOK(WithMessage(s, n))
         /\ WithMessage(s, n).rd = s.rd
         /\ WithMessage(s, n).content = n
<1> DEFINE t == WithMessage(s, n)
<1>1. s.sent = 0 /\ s.taken = 0 /\ s.rd \in {"none", "header", "failed"}
  BY DEF ChanOK, Channel
<1>2. t \in Channel
  <2>1. ASSUME NEW h \in Nat PROVE [s EXCEPT !.total = h, !.content = n] \in Channel
    BY DEF ChanOK, Channel
  <2>2. HeaderSize + n \in Nat
    BY HttpAssumption
  <2> QED BY <2>1, <2>2, Zenon DEF WithMessage
<1>3. /\ t.total = HeaderSize + n /\ t.content = n
      /\ t.sent = s.sent /\ t.taken = s.taken /\ t.rd = s.rd
  BY DEF ChanOK, Channel, WithMessage
<1> HIDE DEF t
<1>4. ChanOK(t)
  BY <1>1, <1>2, <1>3, HttpAssumption DEF ChanOK
<1> QED BY <1>3, <1>4 DEF t

(* A piece of a message is written.                                        *)
LEMMA SentOK ==
  ASSUME NEW s, ChanOK(s), NEW n \in Room(s)
  PROVE  ChanOK([s EXCEPT !.sent = @ + n])
BY HttpAssumption DEF ChanOK, Channel, Room

LEMMA EofOK ==
  ASSUME NEW s, ChanOK(s), NEW b \in BOOLEAN
  PROVE  ChanOK([s EXCEPT !.eof = b])
BY DEF ChanOK, Channel

(* A parse begins, fails, or its message is handled.                       *)
LEMMA RdOK ==
  ASSUME NEW s, ChanOK(s), NEW r,
         \/ r = "header" /\ s.rd = "none"
         \/ r = "failed"
         \/ r = "handled" /\ s.rd = "done"
  PROVE  ChanOK([s EXCEPT !.rd = r])
BY HttpAssumption DEF ChanOK, Channel

(* http::parse reads n bytes: of the header and what follows it, or of the *)
(* rest of the content.                                                    *)
LEMMA ReadHeaderOK ==
  ASSUME NEW s, ChanOK(s), s.rd = "header", NEW n \in Arrived(s)
  PROVE  LET t == ReadHeader(s, n)
         IN  /\ ChanOK(t) /\ t.rd \notin {"none", "handled"}
             /\ t.total = s.total /\ t.content = s.content
<1>0. n \in Nat /\ n <= s.sent - s.taken
  BY DEF Arrived, ChanOK, Channel
<1> DEFINE t == [s EXCEPT !.taken = s.taken + n]
<1>1. /\ t \in Channel /\ t.rd = "header" /\ t.taken <= t.sent /\ t.sent <= t.total
      /\ t.total = s.total /\ t.content = s.content
      /\ t.total = 0 \/ t.total = HeaderSize + t.content
  BY <1>0 DEF ChanOK, Channel
<1>a. ReadHeader(s, n) = IF t.taken < HeaderSize THEN t ELSE HeaderEnd(t)
  BY DEF ReadHeader
<1> HIDE DEF t
<1>2. CASE t.taken < HeaderSize
  BY <1>1, <1>a, <1>2 DEF ChanOK
<1>3. CASE ~(t.taken < HeaderSize)
  <2>1. t.total = HeaderSize + t.content
    BY <1>1, <1>3, HttpAssumption DEF Channel
  <2>2. t.content - (t.taken - HeaderSize) = t.total - t.taken /\ t.total - t.taken \in Nat
    BY <1>1, <1>3, <2>1, HttpAssumption DEF Channel
  <2>3. CASE t.content = 0 \/ t.total = t.taken
    <3> DEFINE u == [t EXCEPT !.rd = "done"]
    <3>1. /\ u \in Channel /\ u.rd = "done" /\ u.total = t.total /\ u.content = t.content
          /\ u.sent = t.sent /\ u.taken = t.taken
      BY <1>1 DEF Channel
    <3>2. t.taken = t.total /\ t.total # 0
      BY <1>1, <1>3, <2>1, <2>3, HttpAssumption DEF Channel
    <3>3. HeaderEnd(t) = u
      <4>1. t.content = 0 \/ t.content - (t.taken - HeaderSize) = 0
        BY <1>1, <2>2, <2>3 DEF Channel
      <4> QED BY <4>1 DEF HeaderEnd
    <3> HIDE DEF u
    <3>4. ChanOK(u)
      BY <1>1, <3>1, <3>2, <2>1 DEF ChanOK
    <3> QED BY <1>1, <1>a, <1>3, <3>1, <3>3, <3>4
  <2>4. CASE ~(t.content = 0 \/ t.total = t.taken)
    <3> DEFINE u == [t EXCEPT !.rd = "body", !.left = t.total - t.taken]
    <3>1. /\ u \in Channel /\ u.rd = "body" /\ u.total = t.total /\ u.content = t.content
          /\ u.sent = t.sent /\ u.taken = t.taken /\ u.left = t.total - t.taken
      BY <1>1, <2>2 DEF Channel
    <3>2. HeaderEnd(t) = u
      <4>1. ~(t.content = 0 \/ t.content - (t.taken - HeaderSize) = 0)
        BY <1>1, <2>2, <2>4 DEF Channel
      <4> QED BY <4>1, <2>2 DEF HeaderEnd
    <3> HIDE DEF u
    <3>3. ChanOK(u)
      BY <1>1, <2>1, <3>1, HttpAssumption DEF ChanOK, Channel
    <3> QED BY <1>1, <1>a, <1>3, <3>1, <3>2, <3>3
  <2> QED BY <2>3, <2>4
<1> QED BY <1>2, <1>3

LEMMA ReadBodyOK ==
  ASSUME NEW s, ChanOK(s), s.rd = "body", NEW n \in Arrived(s), n <= s.left
  PROVE  LET t == ReadBody(s, n)
         IN  /\ ChanOK(t) /\ t.rd \notin {"none", "handled"}
             /\ t.total = s.total /\ t.content = s.content
<1>0. n \in Nat /\ n <= s.sent - s.taken
  BY DEF Arrived, ChanOK, Channel
<1> DEFINE t == ReadBody(s, n)
<1>a. t \in Channel
  <2>1. ASSUME NEW a \in Nat, NEW b \in Nat, NEW r \in {"done", "body"}
        PROVE  [s EXCEPT !.taken = a, !.left = b, !.rd = r] \in Channel
    BY DEF ChanOK, Channel
  <2>2. s.taken + n \in Nat /\ s.left - n \in Nat
    BY <1>0 DEF ChanOK, Channel
  <2> QED BY <2>1, <2>2 DEF ReadBody
<1>1. /\ t.total = s.total /\ t.content = s.content /\ t.sent = s.sent
      /\ t.taken = s.taken + n /\ t.left = s.left - n
      /\ t.rd = IF s.left = n THEN "done" ELSE "body"
  BY DEF ReadBody, ChanOK, Channel
<1> HIDE DEF t
<1>2. ChanOK(t)
  BY <1>0, <1>a, <1>1 DEF ChanOK, Channel
<1> QED BY <1>1, <1>2 DEF t

(* What a step that changes one direction does to all.                     *)
LEMMA OneChange ==
  ASSUME NEW f \in [Chans -> Channel], \A y \in Chans : ChanOK(f[y]),
         NEW x \in Chans, NEW s, ChanOK(s)
  PROVE  LET g == [f EXCEPT ![x] = s]
         IN  /\ g \in [Chans -> Channel] /\ g[x] = s
             /\ \A y \in Chans : ChanOK(g[y])
             /\ \A y \in Chans \ {x} : g[y] = f[y]
BY DEF ChanOK

-----------------------------------------------------------------------------
(* A step of one side that makes no message, takes no connection and       *)
(* finishes no post's handling.                                            *)
LEMMA Frame ==
  ASSUME TypeOK, LinkInv, QueueInv,
         \A y \in Chans :
           /\ chan'[y].total = chan[y].total
           /\ \/ chan'[y].rd = chan[y].rd
              \/ chan[y].rd \notin {"none", "handled"} /\ chan'[y].rd \notin {"none", "handled"},
         \A k \in Posts : post'[k] = post[k] \/ post'[k] \in Ended,
         backlog' = backlog, serving' \in {serving, None}
  PROVE  LinkInv' /\ QueueInv'
<1>1. LinkInv'
  <2> SUFFICES ASSUME NEW k \in Posts
               PROVE  /\ post'[k] = "new" => chan'[Up(k)].rd = "none" /\ chan'[Up(k)].total = 0
                      /\ post'[k] \in {"new", "writing"} => chan'[Down(k)].rd = "none"
                      /\ chan'[Up(k)].rd # "handled" => chan'[Down(k)].total = 0
    BY DEF LinkInv, Up, Down
  <2>1. Up(k) \in Chans /\ Down(k) \in Chans
    BY Directions
  <2>2. /\ post[k] = "new" => chan[Up(k)].rd = "none" /\ chan[Up(k)].total = 0
        /\ post[k] \in {"new", "writing"} => chan[Down(k)].rd = "none"
        /\ chan[Up(k)].rd # "handled" => chan[Down(k)].total = 0
    BY DEF LinkInv
  <2> QED BY <2>1, <2>2 DEF Ended
<1>2. QueueInv'
  <2>1. ASSUME NEW i \in 1..Len(backlog)
        PROVE  post'[backlog[i]] # "new" /\ chan'[Up(backlog[i])].rd = "none"
    <3>1. backlog[i] \in Posts
      BY DEF TypeOK
    <3>2. Up(backlog[i]) \in Chans
      BY <3>1, Directions
    <3> QED BY <3>1, <3>2 DEF QueueInv, Ended
  <2>2. ASSUME serving' # None PROVE chan'[Up(serving')].rd # "none"
    <3>1. serving' = serving /\ serving \in Posts
      BY <2>2 DEF TypeOK
    <3>2. Up(serving) \in Chans
      BY <3>1, Directions
    <3> QED BY <2>2, <3>1, <3>2 DEF QueueInv
  <2> QED BY <2>1, <2>2 DEF QueueInv, Up
<1> QED BY <1>1, <1>2

LEMMA ConnectOK ==
  ASSUME SocketInv, NEW c \in Clients, NEW k \in Posts, Connect(c, k), faults' \in Nat
  PROVE  SocketInv' /\ HandlesNone
<1> USE DEF SocketInv
<1> DEFINE t == WithMessage(chan[Up(k)], Text(at[c]))
<1>1. post[k] = "new" /\ at[c] \in Kinds /\ Up(k) \in Chans /\ Down(k) \in Chans
  BY Directions DEF Connect, AtPost
<1>2. chan[Up(k)].rd = "none" /\ chan[Up(k)].total = 0 /\ chan[Down(k)].rd = "none"
      /\ chan[Down(k)].total = 0 /\ ChanOK(chan[Up(k)])
  BY <1>1 DEF LinkInv, ChanInv
<1>3. Text(at[c]) \in Nat
  BY HttpAssumption DEF Text
<1>4. ChanOK(t) /\ t.rd = "none"
  BY <1>2, <1>3, MessageOK
<1>5. chan' = [chan EXCEPT ![Up(k)] = t]
  BY DEF Connect
<1> HIDE DEF t
<1>6. /\ chan' \in [Chans -> Channel] /\ chan'[Up(k)] = t
      /\ \A y \in Chans : ChanOK(chan'[y])
      /\ \A y \in Chans \ {Up(k)} : chan'[y] = chan[y]
  BY <1>1, <1>4, <1>5, OneChange DEF TypeOK, ChanInv
<1>7. post' = [post EXCEPT ![k] = "writing"] /\ backlog' = Append(backlog, k)
      /\ UNCHANGED <<at, broken, serving, mem, file, unsaved, answers>>
  BY DEF Connect, store
<1>8. TypeOK'
  BY <1>6, <1>7 DEF TypeOK
<1>9. LinkInv'
  <2> SUFFICES ASSUME NEW j \in Posts
               PROVE  /\ post'[j] = "new" => chan'[Up(j)].rd = "none" /\ chan'[Up(j)].total = 0
                      /\ post'[j] \in {"new", "writing"} => chan'[Down(j)].rd = "none"
                      /\ chan'[Up(j)].rd # "handled" => chan'[Down(j)].total = 0
    BY DEF LinkInv, Up, Down
  <2>1. Up(j) \in Chans /\ Down(j) \in Chans /\ Down(j) # Up(k) /\ (j # k => Up(j) # Up(k))
    BY Directions
  <2>2. CASE j = k
    BY <1>2, <1>4, <1>6, <1>7, <2>1, <2>2 DEF TypeOK
  <2>3. CASE j # k
    <3>1. chan'[Up(j)] = chan[Up(j)] /\ chan'[Down(j)] = chan[Down(j)] /\ post'[j] = post[j]
      BY <1>6, <1>7, <2>1, <2>3 DEF TypeOK
    <3> QED BY <3>1 DEF LinkInv
  <2> QED BY <2>2, <2>3
<1>10. QueueInv'
  <2>1. backlog \in Seq(Posts) /\ Len(backlog') = Len(backlog) + 1
        /\ backlog'[Len(backlog) + 1] = k
        /\ \A i \in 1..Len(backlog) : backlog'[i] = backlog[i] /\ backlog[i] \in Posts
    BY <1>7 DEF TypeOK
  <2>2. \A i \in 1..Len(backlog) : post[backlog[i]] # "new" /\ chan[Up(backlog[i])].rd = "none"
    BY DEF QueueInv
  <2>3. ASSUME NEW i \in 1..Len(backlog)
        PROVE  /\ backlog'[i] # k
               /\ post'[backlog'[i]] # "new" /\ chan'[Up(backlog'[i])].rd = "none"
    <3>1. backlog[i] \in Posts /\ backlog[i] # k /\ backlog'[i] = backlog[i]
      BY <1>1, <2>1, <2>2
    <3>2. Up(backlog[i]) \in Chans \ {Up(k)}
      BY <3>1, Directions
    <3>3. chan'[Up(backlog[i])].rd = "none" /\ post'[backlog[i]] # "new"
      BY <3>1, <3>2, <1>6, <1>7, <2>2 DEF TypeOK
    <3> QED BY <3>1, <3>3
  <2>4. post'[k] # "new" /\ chan'[Up(k)].rd = "none"
    BY <1>4, <1>6, <1>7 DEF TypeOK
  <2>5. \A i \in 1..Len(backlog') : post'[backlog'[i]] # "new" /\ chan'[Up(backlog'[i])].rd = "none"
    <3> SUFFICES ASSUME NEW i \in 1..Len(backlog')
                 PROVE  post'[backlog'[i]] # "new" /\ chan'[Up(backlog'[i])].rd = "none"
      OBVIOUS
    <3>1. i \in 1..Len(backlog) \/ i = Len(backlog) + 1
      BY <2>1
    <3> QED BY <2>1, <2>3, <2>4, <3>1
  <2>6. \A i, j \in 1..Len(backlog') : backlog'[i] = backlog'[j] => i = j
    <3> SUFFICES ASSUME NEW i \in 1..Len(backlog'), NEW j \in 1..Len(backlog'),
                        backlog'[i] = backlog'[j]
                 PROVE  i = j
      OBVIOUS
    <3>1. /\ i \in 1..Len(backlog) \/ i = Len(backlog) + 1
          /\ j \in 1..Len(backlog) \/ j = Len(backlog) + 1
      BY <2>1
    <3>2. CASE i \in 1..Len(backlog) /\ j \in 1..Len(backlog)
      BY <2>1, <3>2 DEF QueueInv
    <3> QED BY <2>1, <2>3, <3>1, <3>2
  <2>7. serving # None => chan'[Up(serving)].rd # "none"
    <3> SUFFICES ASSUME serving # None PROVE chan'[Up(serving)].rd # "none"
      OBVIOUS
    <3>1. Up(serving) \in Chans /\ chan[Up(serving)].rd # "none"
      BY Directions DEF TypeOK, QueueInv
    <3> QED BY <1>2, <1>6, <3>1
  <2> QED BY <1>7, <2>5, <2>6, <2>7 DEF QueueInv, Up
<1>11. HandlesNone
  <2> SUFFICES ASSUME NEW j \in Posts
               PROVE  /\ chan'[Up(j)].rd = "handled" <=> chan[Up(j)].rd = "handled"
                      /\ chan'[Down(j)].content = chan[Down(j)].content
    BY <1>7 DEF HandlesNone
  <2>1. Up(j) \in Chans /\ Down(j) \in Chans \ {Up(k)}
    BY Directions
  <2> QED BY <1>2, <1>4, <1>6, <2>1
<1> QED BY <1>6, <1>8, <1>9, <1>10, <1>11 DEF ChanInv

(* The last piece of a post is written, and its client begins to read.     *)
LEMMA WriteLastOK ==
  ASSUME SocketInv, NEW k \in Posts, NEW n \in Room(chan[Up(k)]), post[k] = "writing",
         chan' = [chan EXCEPT ![Up(k)].sent = @ + n, ![Down(k)].rd = "header"],
         post' = [post EXCEPT ![k] = "reading"],
         UNCHANGED <<at, broken, relay>>, faults' \in Nat
  PROVE  SocketInv' /\ HandlesNone
<1> USE DEF SocketInv
<1> DEFINE s == [chan[Up(k)] EXCEPT !.sent = @ + n]
           t == [chan[Down(k)] EXCEPT !.rd = "header"]
<1>1. Up(k) \in Chans /\ Down(k) \in Chans /\ Up(k) # Down(k)
  BY Directions
<1>2. chan[Down(k)].rd = "none" /\ ChanOK(chan[Up(k)]) /\ ChanOK(chan[Down(k)])
  BY <1>1 DEF LinkInv, ChanInv
<1>3. ChanOK(s) /\ ChanOK(t)
  BY <1>2, SentOK, RdOK
<1>4. /\ s.rd = chan[Up(k)].rd /\ s.total = chan[Up(k)].total
      /\ t.rd = "header" /\ t.total = chan[Down(k)].total
      /\ t.content = chan[Down(k)].content
  BY <1>2 DEF ChanOK, Channel
<1>5. chan' = [chan EXCEPT ![Up(k)] = s, ![Down(k)] = t]
  BY <1>1
<1> HIDE DEF s, t
<1>6. /\ chan' \in [Chans -> Channel] /\ chan'[Up(k)] = s /\ chan'[Down(k)] = t
      /\ \A y \in Chans : ChanOK(chan'[y])
      /\ \A y \in Chans \ {Up(k), Down(k)} : chan'[y] = chan[y]
  <2>1. chan \in [Chans -> Channel] /\ \A y \in Chans : ChanOK(chan[y])
    BY DEF TypeOK, ChanInv
  <2>2. PICK x \in Chans, z \in Chans : x = Up(k) /\ z = Down(k) /\ x # z
    BY <1>1
  <2>3. PICK S : S = s
    OBVIOUS
  <2>4. PICK T : T = t
    OBVIOUS
  <2>5. /\ ChanOK(S) /\ ChanOK(T)
        /\ chan' = [chan EXCEPT ![x] = S, ![z] = T]
    BY ONLY <1>3, <1>5, <2>2, <2>3, <2>4
  <2>6. /\ chan' \in [Chans -> Channel] /\ chan'[x] = S /\ chan'[z] = T
        /\ \A y \in Chans : ChanOK(chan'[y])
        /\ \A y \in Chans \ {x, z} : chan'[y] = chan[y]
    BY ONLY <2>1, <2>2, <2>5, x \in Chans, z \in Chans DEF ChanOK
  <2> QED BY ONLY <2>2, <2>3, <2>4, <2>6
<1>7. UNCHANGED <<at, broken, backlog, serving, mem, file, unsaved, answers>>
  BY DEF relay, store
<1>8. TypeOK'
  BY <1>6, <1>7 DEF TypeOK
<1>a. \A j \in Posts : chan'[Up(j)].rd = chan[Up(j)].rd /\ chan'[Up(j)].total = chan[Up(j)].total
  <2> SUFFICES ASSUME NEW j \in Posts
               PROVE chan'[Up(j)].rd = chan[Up(j)].rd /\ chan'[Up(j)].total = chan[Up(j)].total
    OBVIOUS
  <2>1. Up(j) \in Chans /\ Up(j) # Down(k)
    BY Directions
  <2> QED BY <1>4, <1>6, <2>1
<1>9. LinkInv'
  <2> SUFFICES ASSUME NEW j \in Posts
               PROVE  /\ post'[j] = "new" => chan'[Up(j)].rd = "none" /\ chan'[Up(j)].total = 0
                      /\ post'[j] \in {"new", "writing"} => chan'[Down(j)].rd = "none"
                      /\ chan'[Up(j)].rd # "handled" => chan'[Down(j)].total = 0
    BY DEF LinkInv, Up, Down
  <2>1. Down(j) \in Chans /\ Down(j) # Up(k) /\ (j # k => Down(j) # Down(k))
    BY Directions
  <2>2. chan'[Down(j)].total = chan[Down(j)].total /\ (j # k => chan'[Down(j)] = chan[Down(j)])
    BY <1>4, <1>6, <2>1
  <2>3. post'[j] = IF j = k THEN "reading" ELSE post[j]
    BY DEF TypeOK
  <2>4. /\ post[j] = "new" => chan[Up(j)].rd = "none" /\ chan[Up(j)].total = 0
        /\ post[j] \in {"new", "writing"} => chan[Down(j)].rd = "none"
        /\ chan[Up(j)].rd # "handled" => chan[Down(j)].total = 0
    BY DEF LinkInv
  <2>5. chan'[Up(j)].rd = chan[Up(j)].rd /\ chan'[Up(j)].total = chan[Up(j)].total
    BY <1>a
  <2>6. CASE j = k BY <2>2, <2>3, <2>4, <2>5, <2>6
  <2>7. CASE j # k BY <2>2, <2>3, <2>4, <2>5, <2>7
  <2> QED BY <2>6, <2>7
<1>10. QueueInv'
  <2>1. \A i \in 1..Len(backlog) : backlog[i] \in Posts
    BY DEF TypeOK
  <2>2. \A j \in Posts : post[j] # "new" => post'[j] # "new"
    BY DEF TypeOK
  <2>3. \A i \in 1..Len(backlog) : post'[backlog[i]] # "new" /\ chan'[Up(backlog[i])].rd = "none"
    BY <1>a, <2>1, <2>2 DEF QueueInv
  <2>4. serving # None => chan'[Up(serving)].rd # "none"
    BY <1>a DEF TypeOK, QueueInv
  <2> QED BY <1>7, <2>3, <2>4 DEF QueueInv, Up
<1>11. HandlesNone
  <2>1. ASSUME NEW j \in Posts PROVE chan'[Down(j)].content = chan[Down(j)].content
    <3>1. Down(j) \in Chans \ {Up(k)}
      BY Directions
    <3> QED BY <1>4, <1>6, <3>1
  <2> QED BY <1>7, <1>a, <2>1 DEF HandlesNone
<1> QED BY <1>6, <1>8, <1>9, <1>10, <1>11 DEF ChanInv

(* The relay takes the connection at the head of the backlog.              *)
LEMMA AcceptOK ==
  ASSUME SocketInv, NEW k \in Posts, Accept(k), faults' \in Nat
  PROVE  SocketInv' /\ HandlesNone
<1> USE DEF SocketInv
<1>1. Up(k) \in Chans /\ Down(k) \in Chans /\ Up(k) # Down(k)
  BY Directions
<1>2. /\ backlog \in Seq(Posts) /\ backlog # << >> /\ k = backlog[1] /\ backlog' = Tail(backlog)
      /\ UNCHANGED <<at, post, broken, mem, file, unsaved, answers>>
  BY DEF Accept, store, TypeOK
<1>3. /\ backlog' \in Seq(Posts) /\ Len(backlog') = Len(backlog) - 1
      /\ \A i \in 1..Len(backlog') : backlog'[i] = backlog[i + 1] /\ i + 1 \in 1..Len(backlog)
      /\ Len(backlog) >= 1
  BY <1>2
<1>4. post[k] # "new" /\ chan[Up(k)].rd = "none"
  BY <1>2, <1>3 DEF QueueInv
<1>5. ASSUME NEW i \in 1..Len(backlog')
      PROVE  /\ backlog'[i] \in Posts /\ backlog'[i] # k
             /\ post[backlog'[i]] # "new" /\ chan[Up(backlog'[i])].rd = "none"
  <2>1. i + 1 \in 1..Len(backlog) /\ 1 \in 1..Len(backlog) /\ i + 1 # 1
        /\ backlog'[i] = backlog[i + 1]
    BY <1>3
  <2> QED BY <1>2, <2>1 DEF QueueInv
<1>6. \A i, j \in 1..Len(backlog') : backlog'[i] = backlog'[j] => i = j
  <2> SUFFICES ASSUME NEW i \in 1..Len(backlog'), NEW j \in 1..Len(backlog'),
                      backlog'[i] = backlog'[j]
               PROVE  i = j
    OBVIOUS
  <2>1. i + 1 \in 1..Len(backlog) /\ j + 1 \in 1..Len(backlog) /\ backlog[i + 1] = backlog[j + 1]
    BY <1>3
  <2>2. i + 1 = j + 1
    BY <2>1 DEF QueueInv
  <2> QED BY <2>2
<1>7. CASE serving' = k /\ chan' = [chan EXCEPT ![Up(k)].rd = "header"]
  <2> DEFINE t == [chan[Up(k)] EXCEPT !.rd = "header"]
  <2>1. ChanOK(chan[Up(k)])
    BY <1>1 DEF ChanInv
  <2>2. ChanOK(t) /\ t.rd = "header" /\ t.total = chan[Up(k)].total
    BY <1>4, <2>1, RdOK DEF ChanOK, Channel
  <2>3. chan' = [chan EXCEPT ![Up(k)] = t]
    BY <1>7
  <2> HIDE DEF t
  <2>4. /\ chan' \in [Chans -> Channel] /\ chan'[Up(k)] = t
        /\ \A y \in Chans : ChanOK(chan'[y])
        /\ \A y \in Chans \ {Up(k)} : chan'[y] = chan[y]
    BY <1>1, <2>2, <2>3, OneChange DEF TypeOK, ChanInv
  <2>5. TypeOK'
    BY <1>2, <1>3, <1>7, <2>4 DEF TypeOK
  <2>6. LinkInv'
    <3> SUFFICES ASSUME NEW j \in Posts
                 PROVE  /\ post[j] = "new" => chan'[Up(j)].rd = "none" /\ chan'[Up(j)].total = 0
                        /\ post[j] \in {"new", "writing"} => chan'[Down(j)].rd = "none"
                        /\ chan'[Up(j)].rd # "handled" => chan'[Down(j)].total = 0
      BY <1>2 DEF LinkInv, Up, Down
    <3>1. Up(j) \in Chans /\ Down(j) \in Chans \ {Up(k)} /\ (j # k => Up(j) # Up(k))
      BY Directions
    <3>2. chan'[Down(j)] = chan[Down(j)] /\ (j # k => chan'[Up(j)] = chan[Up(j)])
      BY <2>4, <3>1
    <3>3. chan[Up(k)].rd # "handled"
      BY <1>4
    <3> QED BY <1>4, <2>4, <3>2, <3>3 DEF LinkInv
  <2>7. \A i \in 1..Len(backlog') : post'[backlog'[i]] # "new" /\ chan'[Up(backlog'[i])].rd = "none"
    <3> SUFFICES ASSUME NEW i \in 1..Len(backlog')
                 PROVE  post'[backlog'[i]] # "new" /\ chan'[Up(backlog'[i])].rd = "none"
      OBVIOUS
    <3>1. Up(backlog'[i]) \in Chans \ {Up(k)}
      BY <1>5, Directions
    <3> QED BY <1>2, <1>5, <2>4, <3>1
  <2>8. chan'[Up(serving')].rd # "none"
    BY <1>7, <2>2, <2>4
  <2>9. QueueInv'
    BY <1>6, <2>7, <2>8 DEF QueueInv, Up
  <2>10. HandlesNone
    <3> SUFFICES ASSUME NEW j \in Posts
                 PROVE  /\ chan'[Up(j)].rd = "handled" <=> chan[Up(j)].rd = "handled"
                        /\ chan'[Down(j)].content = chan[Down(j)].content
      BY <1>2 DEF HandlesNone
    <3>1. Up(j) \in Chans /\ Down(j) \in Chans /\ Down(j) # Up(k)
      BY Directions
    <3> QED BY <1>4, <2>2, <2>4, <3>1
  <2> QED BY <2>4, <2>5, <2>6, <2>9, <2>10 DEF ChanInv
<1>8. CASE serving' = serving /\ chan' = [chan EXCEPT ![Down(k)].eof = TRUE]
  <2> DEFINE t == [chan[Down(k)] EXCEPT !.eof = TRUE]
  <2>1. ChanOK(chan[Down(k)])
    BY <1>1 DEF ChanInv
  <2>2. ChanOK(t) /\ t.rd = chan[Down(k)].rd /\ t.total = chan[Down(k)].total
        /\ t.content = chan[Down(k)].content
    BY <2>1, EofOK DEF ChanOK, Channel
  <2>3. chan' = [chan EXCEPT ![Down(k)] = t]
    BY <1>8
  <2> HIDE DEF t
  <2>4. /\ chan' \in [Chans -> Channel] /\ chan'[Down(k)] = t
        /\ \A y \in Chans : ChanOK(chan'[y])
        /\ \A y \in Chans \ {Down(k)} : chan'[y] = chan[y]
    <3>1. chan \in [Chans -> Channel] /\ \A y \in Chans : ChanOK(chan[y])
      BY DEF TypeOK, ChanInv
    <3>2. PICK z \in Chans : z = Down(k)
      BY <1>1
    <3>3. PICK T : T = t
      OBVIOUS
    <3>4. ChanOK(T) /\ chan' = [chan EXCEPT ![z] = T]
      BY ONLY <2>2, <2>3, <3>2, <3>3
    <3>5. /\ chan' \in [Chans -> Channel] /\ chan'[z] = T
          /\ \A y \in Chans : ChanOK(chan'[y])
          /\ \A y \in Chans \ {z} : chan'[y] = chan[y]
      BY ONLY <3>1, <3>4, z \in Chans DEF ChanOK
    <3> QED BY ONLY <3>2, <3>3, <3>5
  <2>5. \A y \in Chans : chan'[y].rd = chan[y].rd /\ chan'[y].total = chan[y].total
    BY <2>2, <2>4
  <2>6. TypeOK'
    BY <1>2, <1>3, <1>8, <2>4 DEF TypeOK
  <2>7. LinkInv'
    <3>1. \A j \in Posts : Up(j) \in Chans /\ Down(j) \in Chans
      BY Directions
    <3> QED BY <1>2, <2>5, <3>1 DEF LinkInv, Up, Down
  <2>8. \A i \in 1..Len(backlog') : post'[backlog'[i]] # "new" /\ chan'[Up(backlog'[i])].rd = "none"
    <3> SUFFICES ASSUME NEW i \in 1..Len(backlog')
                 PROVE  post'[backlog'[i]] # "new" /\ chan'[Up(backlog'[i])].rd = "none"
      OBVIOUS
    <3>1. Up(backlog'[i]) \in Chans
      BY <1>5, Directions
    <3> QED BY <1>2, <1>5, <2>5, <3>1
  <2>9. serving' = None
    BY <1>8 DEF Accept
  <2>10. QueueInv'
    BY <1>6, <2>8, <2>9 DEF QueueInv, Up
  <2>11. HandlesNone
    <3> SUFFICES ASSUME NEW j \in Posts
                 PROVE  /\ chan'[Up(j)].rd = "handled" <=> chan[Up(j)].rd = "handled"
                        /\ chan'[Down(j)].content = chan[Down(j)].content
      BY <1>2 DEF HandlesNone
    <3>1. Up(j) \in Chans /\ Down(j) \in Chans /\ Down(j) # Up(k)
      BY Directions
    <3> QED BY <1>4, <2>2, <2>4, <2>5, <3>1
  <2> QED BY <2>4, <2>6, <2>7, <2>10, <2>11 DEF ChanInv
<1> QED BY <1>7, <1>8 DEF Accept

(* The relay has handled a post and makes its answer.                      *)
LEMMA ReplyOK ==
  ASSUME SocketInv, NEW k \in Posts, NEW kind, NEW n \in Nat, Handles(k, kind), Reply(k, n),
         UNCHANGED <<at, post, broken, backlog, serving>>
  PROVE  /\ chan' \in [Chans -> Channel] /\ ChanInv' /\ LinkInv' /\ QueueInv'
         /\ chan'[Up(k)].rd = "handled" /\ chan'[Down(k)].content = n
         /\ \A j \in Posts \ {k} : chan'[Up(j)] = chan[Up(j)] /\ chan'[Down(j)] = chan[Down(j)]
<1> USE DEF SocketInv
<1> DEFINE s == [chan[Up(k)] EXCEPT !.rd = "handled"]
           t == WithMessage(chan[Down(k)], n)
<1>1. Up(k) \in Chans /\ Down(k) \in Chans /\ Up(k) # Down(k)
  BY Directions
<1>2. serving = k /\ chan[Up(k)].rd = "done"
  BY DEF Handles
<1>3. chan[Down(k)].total = 0 /\ post[k] # "new" /\ ChanOK(chan[Up(k)]) /\ ChanOK(chan[Down(k)])
  BY <1>1, <1>2 DEF LinkInv, ChanInv
<1>4. ChanOK(s) /\ ChanOK(t) /\ t.rd = chan[Down(k)].rd /\ t.content = n
  BY <1>2, <1>3, RdOK, MessageOK
<1>5. s.rd = "handled"
  BY <1>3 DEF ChanOK, Channel
<1>6. chan' = [chan EXCEPT ![Up(k)] = s, ![Down(k)] = t]
  BY <1>1 DEF Reply
<1> HIDE DEF s, t
<1>7. /\ chan' \in [Chans -> Channel] /\ chan'[Up(k)] = s /\ chan'[Down(k)] = t
      /\ \A y \in Chans : ChanOK(chan'[y])
      /\ \A y \in Chans \ {Up(k), Down(k)} : chan'[y] = chan[y]
  <2>1. chan \in [Chans -> Channel] /\ \A y \in Chans : ChanOK(chan[y])
    BY DEF TypeOK, ChanInv
  <2>2. PICK x \in Chans, z \in Chans : x = Up(k) /\ z = Down(k) /\ x # z
    BY <1>1
  <2>3. PICK S : S = s
    OBVIOUS
  <2>4. PICK T : T = t
    OBVIOUS
  <2>5. /\ ChanOK(S) /\ ChanOK(T)
        /\ chan' = [chan EXCEPT ![x] = S, ![z] = T]
    BY ONLY <1>4, <1>6, <2>2, <2>3, <2>4
  <2>6. /\ chan' \in [Chans -> Channel] /\ chan'[x] = S /\ chan'[z] = T
        /\ \A y \in Chans : ChanOK(chan'[y])
        /\ \A y \in Chans \ {x, z} : chan'[y] = chan[y]
    BY ONLY <2>1, <2>2, <2>5, x \in Chans, z \in Chans DEF ChanOK
  <2> QED BY ONLY <2>2, <2>3, <2>4, <2>6
<1>8. \A j \in Posts \ {k} : chan'[Up(j)] = chan[Up(j)] /\ chan'[Down(j)] = chan[Down(j)]
  <2> SUFFICES ASSUME NEW j \in Posts \ {k}
               PROVE  chan'[Up(j)] = chan[Up(j)] /\ chan'[Down(j)] = chan[Down(j)]
    OBVIOUS
  <2>1. Up(j) \in Chans \ {Up(k), Down(k)} /\ Down(j) \in Chans \ {Up(k), Down(k)}
    BY Directions
  <2> QED BY <1>7, <2>1
<1>9. LinkInv'
  <2> SUFFICES ASSUME NEW j \in Posts
               PROVE  /\ post[j] = "new" => chan'[Up(j)].rd = "none" /\ chan'[Up(j)].total = 0
                      /\ post[j] \in {"new", "writing"} => chan'[Down(j)].rd = "none"
                      /\ chan'[Up(j)].rd # "handled" => chan'[Down(j)].total = 0
    BY DEF LinkInv, Up, Down
  <2>1. CASE j = k
    BY <1>3, <1>4, <1>5, <1>7, <2>1 DEF LinkInv
  <2>2. CASE j # k
    BY <1>8, <2>2 DEF LinkInv
  <2> QED BY <2>1, <2>2
<1>10. QueueInv'
  <2>1. ASSUME NEW i \in 1..Len(backlog)
        PROVE  post[backlog[i]] # "new" /\ chan'[Up(backlog[i])].rd = "none"
    <3>1. backlog[i] \in Posts /\ post[backlog[i]] # "new" /\ chan[Up(backlog[i])].rd = "none"
      BY DEF QueueInv, TypeOK
    <3>2. backlog[i] # k
      BY <1>2, <3>1
    <3> QED BY <1>8, <3>1, <3>2
  <2>2. chan'[Up(serving)].rd # "none"
    BY <1>2, <1>5, <1>7
  <2> QED BY <2>1, <2>2 DEF QueueInv, Up
<1> QED BY <1>4, <1>5, <1>7, <1>8, <1>9, <1>10 DEF ChanInv

(* Steps that change one direction only, within Frame.                     *)
LEMMA StepOK ==
  ASSUME SocketInv, NEW x \in Chans, NEW t, ChanOK(t),
         t.total = chan[x].total,
         \/ t.rd = chan[x].rd
         \/ chan[x].rd \notin {"none", "handled"} /\ t.rd \notin {"none", "handled"},
         chan' = [chan EXCEPT ![x] = t],
         at' \in [Clients -> Kinds \cup {"exit", "killed"}],
         post' \in [Posts -> {"new", "writing", "reading", "acked", "answered", "failed"}],
         \A k \in Posts : post'[k] = post[k] \/ post'[k] \in Ended,
         broken' \in SUBSET Posts, faults' \in Nat,
         serving' \in {serving, None}, UNCHANGED <<backlog, mem, file, unsaved, answers>>
  PROVE  /\ SocketInv'
         /\ chan'[x] = t /\ \A y \in Chans \ {x} : chan'[y] = chan[y]
<1> USE DEF SocketInv
<1>1. /\ chan' \in [Chans -> Channel] /\ chan'[x] = t
      /\ \A y \in Chans : ChanOK(chan'[y])
      /\ \A y \in Chans \ {x} : chan'[y] = chan[y]
  BY OneChange DEF TypeOK, ChanInv
<1>2. TypeOK'
  BY <1>1 DEF TypeOK
<1>3. \A y \in Chans :
        /\ chan'[y].total = chan[y].total
        /\ \/ chan'[y].rd = chan[y].rd
           \/ chan[y].rd \notin {"none", "handled"} /\ chan'[y].rd \notin {"none", "handled"}
  BY <1>1
<1>4. LinkInv' /\ QueueInv'
  BY <1>3, Frame
<1> QED BY <1>1, <1>2, <1>4 DEF ChanInv

-----------------------------------------------------------------------------
LEMMA EffectFrame ==
  ASSUME EffectInv, HandlesNone
  PROVE  EffectInv'
<1>1. \A c \in Clients : <<c, "EVENT">> \in Posts /\ <<c, "REQ">> \in Posts
  BY DEF Posts, Kinds
<1>2. \A c \in Clients : c \in Range(mem) <=> chan'[Up(<<c, "EVENT">>)].rd = "handled"
  BY <1>1 DEF EffectInv, HandlesNone
<1>3. \A c \in Clients : answers[c] # {} <=> chan'[Up(<<c, "REQ">>)].rd = "handled"
  BY <1>1 DEF EffectInv, HandlesNone
<1>4. \A k \in Posts : chan'[Up(k)].rd = "handled" =>
                          (k[2] = "EVENT" <=> chan'[Down(k)].content = 0)
  BY DEF EffectInv, HandlesNone
<1> QED BY <1>2, <1>3, <1>4 DEF EffectInv, HandlesNone, Range, Up, Down

(* The client's knowledge when no post ends.                               *)
LEMMA KnowFrame ==
  ASSUME TypeOK, KnowInv, HandlesNone,
         \A c \in Clients : at'[c] = at[c] \/ at'[c] = "killed",
         \/ post' = post
         \/ \E c \in Clients, k \in Posts, old \in {"new", "writing"}, next \in {"writing", "reading"} :
              AtPost(c, k, old) /\ post' = [post EXCEPT ![k] = next]
  PROVE  KnowInv'
<1>0. \A c \in Clients : <<c, "EVENT">> \in Posts /\ <<c, "REQ">> \in Posts
  BY DEF Posts, Kinds
<1>1. \A k \in Posts : /\ post'[k] \in Ended <=> post[k] \in Ended
                       /\ post[k] \in Ended => post'[k] = post[k]
  BY DEF TypeOK, AtPost, Ended
<1>2. ASSUME NEW c \in Clients, post'[<<c, "REQ">>] # "new" \/ at'[c] \in {"REQ", "exit"}
      PROVE  post'[<<c, "EVENT">>] \in Ended
  <2>1. post[<<c, "REQ">>] # "new" \/ at[c] \in {"REQ", "exit"}
    <3>1. CASE post' = post
      BY <1>2, <3>1
    <3>2. ASSUME NEW b \in Clients, NEW k \in Posts, NEW old \in {"new", "writing"},
                 NEW next \in {"writing", "reading"}, AtPost(b, k, old),
                 post' = [post EXCEPT ![k] = next]
          PROVE  post[<<c, "REQ">>] # "new" \/ at[c] \in {"REQ", "exit"}
      <4>1. CASE k = <<c, "REQ">>
        BY <3>2, <4>1 DEF AtPost
      <4>2. CASE k # <<c, "REQ">>
        BY <1>0, <1>2, <3>2, <4>2 DEF TypeOK
      <4> QED BY <4>1, <4>2
    <3> QED BY <3>1, <3>2
  <2> QED BY <1>0, <1>1, <2>1 DEF KnowInv
<1>3. ASSUME NEW k \in Posts, post'[k] \in {"acked", "answered"}
      PROVE  chan'[Up(k)].rd = "handled" /\ (post'[k] = "acked" <=> k[2] = "EVENT")
  BY <1>1, <1>3 DEF KnowInv, HandlesNone, Ended
<1>4. ASSUME NEW c \in Clients \ unsaved,
             chan'[Up(<<c, "REQ">>)].rd = "handled", post'[<<c, "EVENT">>] = "acked"
      PROVE  \E S \in answers[c] : c \in S
  <2>1. post[<<c, "EVENT">>] = "acked"
    BY <1>0, <1>1, <1>4 DEF Ended
  <2> QED BY <1>0, <1>4, <2>1 DEF KnowInv, HandlesNone
<1> QED BY <1>2, <1>3, <1>4 DEF KnowInv, HandlesNone, Ended, Up

(* A post ends, as a success only if the relay has handled it.             *)
LEMMA KnowEnd ==
  ASSUME TypeOK, LinkInv, KnowInv, HandlesNone, NEW c \in Clients, NEW k \in Posts,
         NEW stage \in {"new", "writing", "reading"}, AtPost(c, k, stage),
         NEW result \in Ended, EndPost(c, k, result),
         result # "failed" => /\ chan[Up(k)].rd = "handled"
                              /\ result = "acked" <=> k[2] = "EVENT"
  PROVE  KnowInv'
<1>0. \A b \in Clients : <<b, "EVENT">> \in Posts /\ <<b, "REQ">> \in Posts
  BY DEF Posts, Kinds
<1>1. /\ at[c] \in Kinds /\ k = <<c, at[c]>> /\ post[k] = stage
      /\ post' = [post EXCEPT ![k] = result] /\ at' = [at EXCEPT ![c] = After(at[c])]
  BY DEF AtPost, EndPost
<1>2. /\ post'[k] = result /\ \A j \in Posts \ {k} : post'[j] = post[j]
      /\ \A b \in Clients \ {c} : at'[b] = at[b]
  BY <1>1 DEF TypeOK
<1>3. ASSUME NEW b \in Clients, post'[<<b, "REQ">>] # "new" \/ at'[b] \in {"REQ", "exit"}
      PROVE  post'[<<b, "EVENT">>] \in Ended
  <2>1. CASE b # c
    <3>1. k # <<b, "EVENT">> /\ k # <<b, "REQ">>
      BY <1>1, <2>1
    <3> QED BY <1>0, <1>2, <1>3, <2>1, <3>1 DEF KnowInv
  <2>2. CASE b = c /\ at[c] = "EVENT"
    BY <1>1, <1>2, <2>2
  <2>3. CASE b = c /\ at[c] = "REQ"
    <3>1. k # <<b, "EVENT">>
      BY <1>1, <2>3
    <3> QED BY <1>0, <1>2, <2>3, <3>1 DEF KnowInv
  <2> QED BY <1>1, <2>1, <2>2, <2>3 DEF Kinds
<1>4. ASSUME NEW j \in Posts, post'[j] \in {"acked", "answered"}
      PROVE  chan'[Up(j)].rd = "handled" /\ (post'[j] = "acked" <=> j[2] = "EVENT")
  <2>1. CASE j = k
    BY <1>2, <1>4, <2>1 DEF HandlesNone
  <2>2. CASE j # k
    BY <1>2, <1>4, <2>2 DEF KnowInv, HandlesNone
  <2> QED BY <2>1, <2>2
<1>5. ASSUME NEW b \in Clients \ unsaved,
             chan'[Up(<<b, "REQ">>)].rd = "handled", post'[<<b, "EVENT">>] = "acked"
      PROVE  \E S \in answers[b] : b \in S
  <2>1. chan[Up(<<b, "REQ">>)].rd = "handled"
    BY <1>0, <1>5 DEF HandlesNone
  <2>2. post[<<b, "REQ">>] # "new"
    BY <1>0, <2>1 DEF LinkInv
  <2>3. post[<<b, "EVENT">>] \in Ended
    BY <2>2 DEF KnowInv
  <2>4. k # <<b, "EVENT">>
    BY <1>1, <2>3 DEF Ended
  <2> QED BY <1>0, <1>2, <1>5, <2>1, <2>4 DEF KnowInv
<1> QED BY <1>3, <1>4, <1>5 DEF KnowInv, HandlesNone, Ended, Up

-----------------------------------------------------------------------------
(* Each step keeps the invariant.  First, the steps that change one        *)
(* direction, for any new state t of it that Frame allows.                 *)
Quietly(x, t) ==
  /\ ChanOK(t) /\ t.total = chan[x].total /\ t.content = chan[x].content
  /\ \/ t.rd = chan[x].rd
     \/ chan[x].rd \notin {"none", "handled"} /\ t.rd \notin {"none", "handled"}
  /\ chan' = [chan EXCEPT ![x] = t]
  /\ broken' \in SUBSET Posts /\ faults' \in Nat
  /\ serving' \in {serving, None} /\ UNCHANGED <<backlog, mem, file, unsaved, answers>>

LEMMA QuietlyNone ==
  ASSUME HttpInv, NEW x \in Chans, NEW t, Quietly(x, t),
         at' \in [Clients -> Kinds \cup {"exit", "killed"}],
         post' \in [Posts -> {"new", "writing", "reading", "acked", "answered", "failed"}],
         \A k \in Posts : post'[k] = post[k] \/ post'[k] \in Ended
  PROVE  SocketInv' /\ EffectInv' /\ HandlesNone
<1>1. SocketInv' /\ chan'[x] = t /\ \A y \in Chans \ {x} : chan'[y] = chan[y]
  BY StepOK DEF HttpInv, Quietly
<1>2. HandlesNone
  <2> SUFFICES ASSUME NEW j \in Posts
               PROVE  /\ chan'[Up(j)].rd = "handled" <=> chan[Up(j)].rd = "handled"
                      /\ chan'[Down(j)].content = chan[Down(j)].content
    BY DEF HandlesNone, Quietly
  <2>1. Up(j) \in Chans /\ Down(j) \in Chans
    BY Directions
  <2> QED BY <1>1, <2>1 DEF Quietly
<1> QED BY <1>1, <1>2, EffectFrame DEF HttpInv

LEMMA GoesOn ==
  ASSUME HttpInv, NEW x \in Chans, NEW t, Quietly(x, t), UNCHANGED post,
         at' \in [Clients -> Kinds \cup {"exit", "killed"}],
         \A c \in Clients : at'[c] = at[c] \/ at'[c] = "killed"
  PROVE  HttpInv'
<1>1. SocketInv' /\ EffectInv' /\ HandlesNone
  <2>1. post \in [Posts -> {"new", "writing", "reading", "acked", "answered", "failed"}]
    BY DEF HttpInv, SocketInv, TypeOK
  <2> QED BY <2>1, QuietlyNone
<1>2. KnowInv'
  BY <1>1, KnowFrame DEF HttpInv, SocketInv
<1> QED BY <1>1, <1>2 DEF HttpInv

LEMMA Ends ==
  ASSUME HttpInv, NEW x \in Chans, NEW t, Quietly(x, t),
         NEW c \in Clients, NEW k \in Posts,
         NEW stage \in {"new", "writing", "reading"}, AtPost(c, k, stage),
         NEW result \in Ended, EndPost(c, k, result),
         result # "failed" => /\ chan[Up(k)].rd = "handled"
                              /\ result = "acked" <=> k[2] = "EVENT"
  PROVE  HttpInv'
<1>1. at[c] \in Kinds /\ After(at[c]) \in Kinds \cup {"exit"}
  BY DEF AtPost, After, Kinds
<1>2. /\ at' \in [Clients -> Kinds \cup {"exit", "killed"}]
      /\ post' \in [Posts -> {"new", "writing", "reading", "acked", "answered", "failed"}]
      /\ \A j \in Posts : post'[j] = post[j] \/ post'[j] \in Ended
  BY <1>1 DEF HttpInv, SocketInv, TypeOK, EndPost, Ended
<1>3. SocketInv' /\ EffectInv' /\ HandlesNone
  BY <1>2, QuietlyNone
<1>4. KnowInv'
  BY <1>3, KnowEnd DEF HttpInv, SocketInv
<1> QED BY <1>3, <1>4 DEF HttpInv

(* No direction changes at all.                                            *)
LEMMA Unmoved ==
  ASSUME HttpInv, NEW x \in Chans, UNCHANGED chan,
         broken' \in SUBSET Posts, faults' \in Nat, UNCHANGED relay
  PROVE  Quietly(x, chan[x])
<1>1. ChanOK(chan[x]) /\ chan \in [Chans -> Channel]
  BY DEF HttpInv, SocketInv, TypeOK, ChanInv
<1>2. chan = [chan EXCEPT ![x] = chan[x]]
  BY <1>1
<1> QED BY <1>1, <1>2 DEF Quietly, relay, store

(* A side closes its socket.                                               *)
LEMMA Closes ==
  ASSUME HttpInv, NEW x \in Chans, chan' = [chan EXCEPT ![x].eof = TRUE],
         faults' \in Nat, serving' \in {serving, None},
         UNCHANGED <<broken, backlog, mem, file, unsaved, answers>>
  PROVE  Quietly(x, [chan[x] EXCEPT !.eof = TRUE])
<1> DEFINE t == [chan[x] EXCEPT !.eof = TRUE]
<1>1. ChanOK(chan[x]) /\ broken \in SUBSET Posts
  BY DEF HttpInv, SocketInv, ChanInv, TypeOK
<1>2. ChanOK(t)
  BY <1>1, EofOK
<1>3. t.total = chan[x].total /\ t.content = chan[x].content /\ t.rd = chan[x].rd
  BY <1>1 DEF ChanOK, Channel
<1>4. chan' = [chan EXCEPT ![x] = t]
  OBVIOUS
<1> HIDE DEF t
<1>5. Quietly(x, t)
  BY <1>1, <1>2, <1>3, <1>4 DEF Quietly
<1> QED BY <1>5 DEF t

(* http::parse reads a piece.                                              *)
LEMMA Parses ==
  ASSUME HttpInv, NEW x \in Chans, NEW n \in Arrived(chan[x]), Parse(x, n),
         faults' \in Nat, UNCHANGED <<broken, relay>>
  PROVE  \E t : Quietly(x, t)
<1>1. ChanOK(chan[x]) /\ broken \in SUBSET Posts
  BY DEF HttpInv, SocketInv, ChanInv, TypeOK
<1>2. CASE chan[x].rd = "header" /\ chan' = [chan EXCEPT ![x] = ReadHeader(@, n)]
  <2> DEFINE t == ReadHeader(chan[x], n)
  <2>1. /\ ChanOK(t) /\ t.rd \notin {"none", "handled"}
        /\ t.total = chan[x].total /\ t.content = chan[x].content
    BY <1>1, <1>2, ReadHeaderOK
  <2>2. chan' = [chan EXCEPT ![x] = t]
    BY <1>2
  <2> HIDE DEF t
  <2>3. Quietly(x, t)
    BY <1>1, <1>2, <2>1, <2>2 DEF Quietly, relay, store
  <2> QED BY <2>3
<1>3. CASE /\ chan[x].rd = "body" /\ n <= chan[x].left
           /\ chan' = [chan EXCEPT ![x] = ReadBody(@, n)]
  <2> DEFINE t == ReadBody(chan[x], n)
  <2>1. /\ ChanOK(t) /\ t.rd \notin {"none", "handled"}
        /\ t.total = chan[x].total /\ t.content = chan[x].content
    BY <1>1, <1>3, ReadBodyOK
  <2>2. chan' = [chan EXCEPT ![x] = t]
    BY <1>3
  <2> HIDE DEF t
  <2>3. Quietly(x, t)
    BY <1>1, <1>3, <2>1, <2>2 DEF Quietly, relay, store
  <2> QED BY <2>3
<1> QED BY <1>2, <1>3 DEF Parse

(* http::parse fails.                                                      *)
LEMMA FailsParse ==
  ASSUME HttpInv, NEW k, NEW x \in Chans, ParseFails(k, x),
         faults' \in Nat, UNCHANGED <<broken, relay>>
  PROVE  \E t : Quietly(x, t)
<1> DEFINE t == [chan[x] EXCEPT !.rd = "failed"]
<1>1. ChanOK(chan[x]) /\ broken \in SUBSET Posts
  BY DEF HttpInv, SocketInv, ChanInv, TypeOK
<1>2. ChanOK(t)
  BY <1>1, RdOK
<1>3. /\ t.total = chan[x].total /\ t.content = chan[x].content /\ t.rd = "failed"
      /\ chan[x].rd \in {"header", "body"}
  BY <1>1 DEF ChanOK, Channel, ParseFails
<1>4. chan' = [chan EXCEPT ![x] = t]
  BY DEF ParseFails
<1> HIDE DEF t
<1>5. Quietly(x, t)
  BY <1>1, <1>2, <1>3, <1>4 DEF Quietly, relay, store
<1> QED BY <1>5

(* A piece of a message is written, and with the last the writer may close. *)
LEMMA Sends ==
  ASSUME HttpInv, NEW x \in Chans, NEW n \in Room(chan[x]), NEW b \in BOOLEAN,
         chan' = [chan EXCEPT ![x] = [[chan[x] EXCEPT !.sent = @ + n] EXCEPT !.eof = b]],
         faults' \in Nat, serving' \in {serving, None},
         UNCHANGED <<broken, backlog, mem, file, unsaved, answers>>
  PROVE  \E t : Quietly(x, t)
<1> DEFINE s == [chan[x] EXCEPT !.sent = @ + n]
           t == [s EXCEPT !.eof = b]
<1>1. ChanOK(chan[x]) /\ broken \in SUBSET Posts
  BY DEF HttpInv, SocketInv, ChanInv, TypeOK
<1>2. ChanOK(s) /\ s.total = chan[x].total /\ s.content = chan[x].content /\ s.rd = chan[x].rd
  <2>1. ChanOK(s)
    BY <1>1, SentOK
  <2> QED BY <1>1, <2>1 DEF ChanOK, Channel
<1>3. chan' = [chan EXCEPT ![x] = t]
  OBVIOUS
<1> HIDE DEF s
<1>4. ChanOK(t) /\ t.total = s.total /\ t.content = s.content /\ t.rd = s.rd
  <2>1. ChanOK(t)
    BY <1>2, EofOK
  <2> QED BY <1>2, <2>1 DEF ChanOK, Channel
<1> HIDE DEF t
<1>5. Quietly(x, t)
  BY <1>1, <1>2, <1>3, <1>4 DEF Quietly
<1> QED BY <1>5

-----------------------------------------------------------------------------
(* The steps of a client.                                                  *)
LEMMA KConnect ==
  ASSUME HttpInv, NEW c \in Clients, NEW k \in Posts, Connect(c, k), faults' \in Nat
  PROVE  HttpInv'
<1>1. SocketInv' /\ HandlesNone
  BY ConnectOK DEF HttpInv
<1>2. KnowInv'
  <2>1. AtPost(c, k, "new") /\ post' = [post EXCEPT ![k] = "writing"] /\ UNCHANGED at
    BY DEF Connect
  <2> QED BY <1>1, <2>1, KnowFrame DEF HttpInv, SocketInv
<1> QED BY <1>1, <1>2, EffectFrame DEF HttpInv

LEMMA KConnectFails ==
  ASSUME HttpInv, NEW c \in Clients, NEW k \in Posts, ConnectFails(c, k), faults' \in Nat
  PROVE  HttpInv'
<1>1. /\ AtPost(c, k, "new") /\ EndPost(c, k, "failed") /\ Up(k) \in Chans
      /\ UNCHANGED chan /\ UNCHANGED relay /\ broken' \in SUBSET Posts
  BY Directions DEF ConnectFails, HttpInv, SocketInv, TypeOK
<1>2. Quietly(Up(k), chan[Up(k)])
  BY <1>1, Unmoved
<1>3. "failed" \in Ended /\ "new" \in {"new", "writing", "reading"}
  BY DEF Ended
<1> QED BY <1>1, <1>2, <1>3, Ends

LEMMA KWrite ==
  ASSUME HttpInv, NEW c \in Clients, NEW k \in Posts, NEW n, Write(c, k, n), faults' \in Nat
  PROVE  HttpInv'
<1>0. /\ AtPost(c, k, "writing") /\ n \in Room(chan[Up(k)]) /\ UNCHANGED <<at, broken, relay>>
      /\ post[k] = "writing" /\ Up(k) \in Chans /\ serving' = serving
      /\ UNCHANGED <<broken, backlog, mem, file, unsaved, answers>>
      /\ at \in [Clients -> Kinds \cup {"exit", "killed"}]
  BY Directions DEF Write, AtPost, relay, store, HttpInv, SocketInv, TypeOK
<1>1. CASE chan' = [chan EXCEPT ![Up(k)].sent = @ + n] /\ UNCHANGED post
  <2> DEFINE s == [chan[Up(k)] EXCEPT !.sent = @ + n]
  <2>1. ChanOK(chan[Up(k)]) /\ chan[Up(k)].eof \in BOOLEAN /\ s \in Channel
    <3>1. ChanOK(chan[Up(k)])
      BY <1>0 DEF HttpInv, SocketInv, ChanInv
    <3>2. ChanOK(s)
      BY <1>0, <3>1, SentOK
    <3> QED BY <3>1, <3>2 DEF ChanOK, Channel
  <2>2. s.eof = chan[Up(k)].eof
    BY <2>1 DEF ChanOK, Channel
  <2>3. s = [s EXCEPT !.eof = chan[Up(k)].eof]
    <3>1. ASSUME NEW u \in Channel PROVE u = [u EXCEPT !.eof = u.eof]
      BY DEF Channel
    <3> QED BY <2>1, <2>2, <3>1
  <2>4. chan' = [chan EXCEPT ![Up(k)] = [s EXCEPT !.eof = chan[Up(k)].eof]]
    BY <1>1, <2>3
  <2>5. \E t : Quietly(Up(k), t)
    BY <1>0, <2>1, <2>4, Sends
  <2> QED BY <1>0, <1>1, <2>5, GoesOn
<1>2. CASE /\ chan' = [chan EXCEPT ![Up(k)].sent = @ + n, ![Down(k)].rd = "header"]
           /\ post' = [post EXCEPT ![k] = "reading"]
  <2>1. SocketInv' /\ HandlesNone
    BY <1>0, <1>2, WriteLastOK DEF HttpInv
  <2>2. KnowInv'
    BY <1>0, <1>2, <2>1, KnowFrame DEF HttpInv, SocketInv
  <2> QED BY <2>1, <2>2, EffectFrame DEF HttpInv
<1> QED BY <1>1, <1>2 DEF Write

LEMMA KWriteFails ==
  ASSUME HttpInv, NEW c \in Clients, NEW k \in Posts, WriteFails(c, k), faults' \in Nat
  PROVE  HttpInv'
<1>1. /\ AtPost(c, k, "writing") /\ EndPost(c, k, "failed") /\ Up(k) \in Chans
      /\ chan' = [chan EXCEPT ![Up(k)].eof = TRUE] /\ serving' \in {serving, None}
      /\ UNCHANGED <<broken, backlog, mem, file, unsaved, answers>>
  BY Directions DEF WriteFails, relay, store
<1>2. Quietly(Up(k), [chan[Up(k)] EXCEPT !.eof = TRUE])
  BY <1>1, Closes
<1>3. "failed" \in Ended /\ "writing" \in {"new", "writing", "reading"}
  BY DEF Ended
<1> QED BY <1>1, <1>2, <1>3, Ends

LEMMA KRead ==
  ASSUME HttpInv, NEW c \in Clients, NEW k \in Posts, NEW n, Read(c, k, n), faults' \in Nat
  PROVE  HttpInv'
<1>1. /\ n \in Arrived(chan[Down(k)]) /\ Parse(Down(k), n) /\ Down(k) \in Chans
      /\ UNCHANGED <<at, post, broken, relay>>
      /\ at \in [Clients -> Kinds \cup {"exit", "killed"}]
  BY Directions DEF Read, HttpInv, SocketInv, TypeOK
<1>2. PICK t : Quietly(Down(k), t)
  BY <1>1, Parses
<1> QED BY <1>1, <1>2, GoesOn

LEMMA KReadFails ==
  ASSUME HttpInv, NEW c \in Clients, NEW k \in Posts, ReadFails(c, k), faults' \in Nat
  PROVE  HttpInv'
<1>1. /\ ParseFails(k, Down(k)) /\ Down(k) \in Chans
      /\ UNCHANGED <<at, post, broken, relay>>
      /\ at \in [Clients -> Kinds \cup {"exit", "killed"}]
  BY Directions DEF ReadFails, HttpInv, SocketInv, TypeOK
<1>2. PICK t : Quietly(Down(k), t)
  BY <1>1, FailsParse
<1> QED BY <1>1, <1>2, GoesOn

(* A reply is logged only of a message that was read, hence made,          *)
(* hence after the relay has handled the post.                             *)
LEMMA KResult ==
  ASSUME HttpInv, NEW k \in Posts, chan[Down(k)].rd \in {"done", "failed"}
  PROVE  LET r == Result(chan[Down(k)])
         IN  /\ r \in Ended
             /\ r # "failed" => /\ chan[Up(k)].rd = "handled"
                                /\ r = "acked" <=> k[2] = "EVENT"
<1>1. Result(chan[Down(k)]) \in Ended
  BY DEF Result, Ended
<1>2. ASSUME Result(chan[Down(k)]) # "failed"
      PROVE  /\ chan[Up(k)].rd = "handled"
             /\ Result(chan[Down(k)]) = "acked" <=> k[2] = "EVENT"
  <2>1. chan[Down(k)].rd = "done"
    BY <1>2 DEF Result
  <2>2. chan[Down(k)].total # 0
    BY <2>1, Directions DEF HttpInv, SocketInv, ChanInv, ChanOK
  <2>3. chan[Up(k)].rd = "handled"
    BY <2>2 DEF HttpInv, SocketInv, LinkInv
  <2>4. k[2] = "EVENT" <=> chan[Down(k)].content = 0
    BY <2>3 DEF HttpInv, EffectInv
  <2>5. Result(chan[Down(k)]) = "acked" <=> chan[Down(k)].content = 0
    BY <1>2 DEF Result
  <2> QED BY <2>3, <2>4, <2>5
<1> QED BY <1>1, <1>2

LEMMA KFinish ==
  ASSUME HttpInv, NEW c \in Clients, NEW k \in Posts, Finish(c, k), faults' \in Nat
  PROVE  HttpInv'
<1> DEFINE r == Result(chan[Down(k)])
<1>1. /\ AtPost(c, k, "reading") /\ EndPost(c, k, r) /\ Up(k) \in Chans
      /\ chan[Down(k)].rd \in {"done", "failed"}
      /\ chan' = [chan EXCEPT ![Up(k)].eof = TRUE] /\ serving' \in {serving, None}
      /\ UNCHANGED <<broken, backlog, mem, file, unsaved, answers>>
  BY Directions DEF Finish, relay, store
<1>2. Quietly(Up(k), [chan[Up(k)] EXCEPT !.eof = TRUE])
  BY <1>1, Closes
<1>3. /\ r \in Ended
      /\ r # "failed" => /\ chan[Up(k)].rd = "handled"
                         /\ r = "acked" <=> k[2] = "EVENT"
  BY <1>1, KResult
<1>4. "reading" \in {"new", "writing", "reading"}
  OBVIOUS
<1> HIDE DEF r
<1> QED BY <1>1, <1>2, <1>3, <1>4, Ends

LEMMA KKill ==
  ASSUME HttpInv, NEW c \in Clients, Kill(c), faults' \in Nat
  PROVE  HttpInv'
<1> DEFINE k == <<c, at[c]>>
<1>0. k \in Posts
  BY PostsOf DEF Kill
<1>1. /\ chan' = [chan EXCEPT ![Up(k)].eof = TRUE] /\ serving' \in {serving, None}
      /\ UNCHANGED <<broken, backlog, mem, file, unsaved, answers>> /\ UNCHANGED post
      /\ at' = [at EXCEPT ![c] = "killed"]
  BY DEF Kill, relay, store
<1> HIDE DEF k
<1>2. Up(k) \in Chans
  BY <1>0, Directions
<1>3. Quietly(Up(k), [chan[Up(k)] EXCEPT !.eof = TRUE])
  BY <1>1, <1>2, Closes
<1>4. /\ at' \in [Clients -> Kinds \cup {"exit", "killed"}]
      /\ \A b \in Clients : at'[b] = at[b] \/ at'[b] = "killed"
  BY <1>1 DEF HttpInv, SocketInv, TypeOK
<1> QED BY <1>1, <1>2, <1>3, <1>4, GoesOn

LEMMA KReset ==
  ASSUME HttpInv, NEW k \in Posts, Reset(k), faults' \in Nat
  PROVE  HttpInv'
<1>1. /\ Up(k) \in Chans /\ UNCHANGED chan /\ UNCHANGED relay /\ UNCHANGED <<at, post>>
      /\ broken' \in SUBSET Posts /\ at \in [Clients -> Kinds \cup {"exit", "killed"}]
  BY Directions DEF Reset, HttpInv, SocketInv, TypeOK
<1>2. Quietly(Up(k), chan[Up(k)])
  BY <1>1, Unmoved
<1> QED BY <1>1, <1>2, GoesOn

-----------------------------------------------------------------------------
(* The steps of the relay.                                                 *)
LEMMA KAccept ==
  ASSUME HttpInv, NEW k \in Posts, Accept(k), faults' \in Nat
  PROVE  HttpInv'
<1>1. SocketInv' /\ HandlesNone
  BY AcceptOK DEF HttpInv
<1>2. KnowInv'
  BY <1>1, KnowFrame DEF HttpInv, SocketInv, Accept
<1> QED BY <1>1, <1>2, EffectFrame DEF HttpInv

LEMMA KRelayRead ==
  ASSUME HttpInv, NEW k \in Posts, NEW n, RelayRead(k, n), faults' \in Nat
  PROVE  HttpInv'
<1>1. /\ n \in Arrived(chan[Up(k)]) /\ Parse(Up(k), n) /\ Up(k) \in Chans
      /\ UNCHANGED <<at, post, broken, relay>>
      /\ at \in [Clients -> Kinds \cup {"exit", "killed"}]
  BY Directions DEF RelayRead, HttpInv, SocketInv, TypeOK
<1>2. PICK t : Quietly(Up(k), t)
  BY <1>1, Parses
<1> QED BY <1>1, <1>2, GoesOn

LEMMA KRelayReadFails ==
  ASSUME HttpInv, NEW k \in Posts, RelayReadFails(k), faults' \in Nat
  PROVE  HttpInv'
<1>1. /\ ParseFails(k, Up(k)) /\ Up(k) \in Chans
      /\ UNCHANGED <<at, post, broken, relay>>
      /\ at \in [Clients -> Kinds \cup {"exit", "killed"}]
  BY Directions DEF RelayReadFails, HttpInv, SocketInv, TypeOK
<1>2. PICK t : Quietly(Up(k), t)
  BY <1>1, FailsParse
<1> QED BY <1>1, <1>2, GoesOn

LEMMA KDrop ==
  ASSUME HttpInv, NEW k \in Posts, Drop(k), faults' \in Nat,
         UNCHANGED <<at, post, broken, backlog, store>>
  PROVE  HttpInv'
<1>1. /\ Down(k) \in Chans /\ chan' = [chan EXCEPT ![Down(k)].eof = TRUE]
      /\ serving' \in {serving, None} /\ UNCHANGED post
      /\ UNCHANGED <<at, broken, backlog, mem, file, unsaved, answers>>
      /\ at \in [Clients -> Kinds \cup {"exit", "killed"}]
  BY Directions DEF Drop, store, HttpInv, SocketInv, TypeOK
<1>2. Quietly(Down(k), [chan[Down(k)] EXCEPT !.eof = TRUE])
  BY <1>1, Closes
<1> QED BY <1>1, <1>2, GoesOn

LEMMA KRelayWrite ==
  ASSUME HttpInv, NEW k \in Posts, NEW n, RelayWrite(k, n), faults' \in Nat
  PROVE  HttpInv'
<1> DEFINE last == chan[Down(k)].sent + n = chan[Down(k)].total
<1>1. /\ Down(k) \in Chans /\ n \in Room(chan[Down(k)])
      /\ chan' = [chan EXCEPT ![Down(k)].sent = @ + n, ![Down(k)].eof = last]
      /\ serving' \in {serving, None} /\ UNCHANGED post
      /\ UNCHANGED <<at, broken, backlog, mem, file, unsaved, answers>>
      /\ at \in [Clients -> Kinds \cup {"exit", "killed"}]
  BY Directions DEF RelayWrite, store, HttpInv, SocketInv, TypeOK
<1>2. chan \in [Chans -> Channel] /\ last \in BOOLEAN
  BY DEF HttpInv, SocketInv, TypeOK
<1> HIDE DEF last
<1>3. chan' = [chan EXCEPT ![Down(k)] =
                 [[chan[Down(k)] EXCEPT !.sent = @ + n] EXCEPT !.eof = last]]
  <2>1. ASSUME NEW f \in [Chans -> Channel], NEW x \in Chans, NEW b, NEW m
        PROVE  [f EXCEPT ![x].sent = @ + m, ![x].eof = b] =
               [f EXCEPT ![x] = [[f[x] EXCEPT !.sent = @ + m] EXCEPT !.eof = b]]
    OBVIOUS
  <2> QED BY <1>1, <1>2, <2>1
<1>4. \E t : Quietly(Down(k), t)
  BY <1>1, <1>2, <1>3, Sends
<1> QED BY <1>1, <1>4, GoesOn

LEMMA Ranges ==
  ASSUME NEW S, NEW s \in Seq(S), NEW t \in Seq(S), NEW e \in S
  PROVE  /\ Append(s, e) \in Seq(S) /\ Range(Append(s, e)) = Range(s) \cup {e}
         /\ s \o t \in Seq(S) /\ Range(s \o t) = Range(s) \cup Range(t)
         /\ Range(s) \subseteq S
<1>1. Append(s, e) \in Seq(S) /\ s \o t \in Seq(S) /\ Range(s) \subseteq S
  BY DEF Range
<1>2. Range(Append(s, e)) = Range(s) \cup {e}
  <2>1. /\ DOMAIN Append(s, e) = 1..(Len(s) + 1) /\ DOMAIN s = 1..Len(s)
        /\ \A i \in 1..Len(s) : Append(s, e)[i] = s[i]
        /\ Append(s, e)[Len(s) + 1] = e
    OBVIOUS
  <2> QED BY <2>1 DEF Range
<1>3. Range(s \o t) = Range(s) \cup Range(t)
  <2>1. /\ DOMAIN (s \o t) = 1..(Len(s) + Len(t)) /\ DOMAIN s = 1..Len(s) /\ DOMAIN t = 1..Len(t)
        /\ \A i \in 1..Len(s) : (s \o t)[i] = s[i]
        /\ \A i \in 1..Len(t) : (s \o t)[Len(s) + i] = t[i]
    OBVIOUS
  <2>a. \A i \in 1..(Len(s) + Len(t)) : i \in 1..Len(s) \/ \E j \in 1..Len(t) : i = Len(s) + j
    <3>1. \A i \in 1..(Len(s) + Len(t)) :
             i \notin 1..Len(s) => i - Len(s) \in 1..Len(t) /\ i = Len(s) + (i - Len(s))
      OBVIOUS
    <3> QED BY <3>1
  <2>2. \A i \in 1..Len(t) : Len(s) + i \in 1..(Len(s) + Len(t))
    OBVIOUS
  <2>3. \A i \in 1..Len(s) : i \in 1..(Len(s) + Len(t))
    OBVIOUS
  <2>4. Range(s \o t) \subseteq Range(s) \cup Range(t)
    BY <2>1, <2>a DEF Range
  <2>5. Range(s) \subseteq Range(s \o t)
    BY <2>1, <2>3 DEF Range
  <2>6. Range(t) \subseteq Range(s \o t)
    BY <2>1, <2>2 DEF Range
  <2> QED BY <2>4, <2>5, <2>6
<1> QED BY <1>1, <1>2, <1>3

(* An EVENT, whether the file opens or not.                                *)
LEMMA KHandleEvent ==
  ASSUME HttpInv, NEW k \in Posts, HandleEvent(k) \/ HandleUnsaved(k), faults' \in Nat
  PROVE  HttpInv'
<1>1. /\ Handles(k, "EVENT") /\ Reply(k, 0) /\ UNCHANGED <<at, post, broken, backlog, serving>>
      /\ mem' = Append(mem, k[1]) /\ answers' = answers
      /\ \/ file' = file \o Append(mem, k[1]) /\ unsaved' = unsaved
         \/ file' = file /\ unsaved' = unsaved \cup {k[1]}
      /\ k[2] = "EVENT" /\ k = <<k[1], "EVENT">> /\ k[1] \in Clients
  BY PostsOf DEF HandleEvent, HandleUnsaved, Handles, Acknowledges, Stores
<1>2. /\ chan' \in [Chans -> Channel] /\ ChanInv' /\ LinkInv' /\ QueueInv'
      /\ chan'[Up(k)].rd = "handled" /\ chan'[Down(k)].content = 0
      /\ \A j \in Posts \ {k} : chan'[Up(j)] = chan[Up(j)] /\ chan'[Down(j)] = chan[Down(j)]
  BY <1>1, ReplyOK DEF HttpInv
<1>3. /\ mem' \in Seq(Clients) /\ file' \in Seq(Clients) /\ unsaved' \in SUBSET Clients
      /\ Range(mem') = Range(mem) \cup {k[1]} /\ unsaved \subseteq unsaved'
      /\ \/ Range(file') = Range(file) \cup Range(mem')
         \/ Range(file') = Range(file) /\ unsaved' = unsaved \cup {k[1]}
  <2>1. mem \in Seq(Clients) /\ file \in Seq(Clients) /\ unsaved \in SUBSET Clients
    BY DEF HttpInv, SocketInv, TypeOK
  <2>2. mem' \in Seq(Clients) /\ Range(mem') = Range(mem) \cup {k[1]}
    BY <1>1, <2>1, Ranges
  <2>3. ASSUME NEW s \in Seq(Clients), NEW t \in Seq(Clients)
        PROVE  s \o t \in Seq(Clients) /\ Range(s \o t) = Range(s) \cup Range(t)
    BY <1>1, Ranges
  <2>4. CASE file' = file \o Append(mem, k[1]) /\ unsaved' = unsaved
    <3>1. file' = file \o mem'
      BY <1>1, <2>4
    <3>2. file' \in Seq(Clients) /\ Range(file') = Range(file) \cup Range(mem')
      BY <2>1, <2>2, <2>3, <3>1
    <3> QED BY <2>1, <2>2, <2>4, <3>2
  <2>5. CASE file' = file /\ unsaved' = unsaved \cup {k[1]}
    BY <1>1, <2>1, <2>2, <2>5
  <2> QED BY <1>1, <2>4, <2>5
<1>4. SocketInv'
  BY <1>1, <1>2, <1>3 DEF HttpInv, SocketInv, TypeOK
<1>5. \A c \in Clients : <<c, "EVENT">> \in Posts /\ <<c, "REQ">> \in Posts \ {k}
  BY <1>1, PostsOf DEF Kinds
<1>6. EffectInv'
  <2>1. ASSUME NEW c \in Clients
        PROVE  c \in Range(mem') <=> chan'[Up(<<c, "EVENT">>)].rd = "handled"
    <3>1. CASE c = k[1]
      BY <1>1, <1>2, <1>3, <3>1
    <3>2. CASE c # k[1]
      <4>1. <<c, "EVENT">> \in Posts \ {k}
        BY <1>1, <1>5, <3>2, PostsOf
      <4> QED BY <1>2, <1>3, <3>2, <4>1 DEF HttpInv, EffectInv
    <3> QED BY <3>1, <3>2
  <2>2. Range(file') \subseteq Range(mem') /\ Range(mem') \subseteq Range(file') \cup unsaved'
    BY <1>3 DEF HttpInv, EffectInv
  <2>3. \A c \in Clients : answers'[c] # {} <=> chan'[Up(<<c, "REQ">>)].rd = "handled"
    BY <1>1, <1>2, <1>5 DEF HttpInv, EffectInv
  <2>4. ASSUME NEW j \in Posts, chan'[Up(j)].rd = "handled"
        PROVE  j[2] = "EVENT" <=> chan'[Down(j)].content = 0
    BY <1>1, <1>2, <2>4 DEF HttpInv, EffectInv
  <2> QED BY <2>1, <2>2, <2>3, <2>4 DEF EffectInv, Range, Up, Down
<1>7. KnowInv'
  <2>1. ASSUME NEW j \in Posts, post[j] \in {"acked", "answered"}
        PROVE  chan'[Up(j)].rd = "handled" /\ (post[j] = "acked" <=> j[2] = "EVENT")
    BY <1>2, <2>1 DEF HttpInv, KnowInv
  <2>2. ASSUME NEW c \in Clients \ unsaved',
               chan'[Up(<<c, "REQ">>)].rd = "handled", post[<<c, "EVENT">>] = "acked"
        PROVE  \E S \in answers[c] : c \in S
    BY <1>2, <1>3, <1>5, <2>2 DEF HttpInv, KnowInv
  <2>3. \A c \in Clients :
          (post[<<c, "REQ">>] # "new" \/ at[c] \in {"REQ", "exit"}) => post[<<c, "EVENT">>] \in Ended
    BY DEF HttpInv, KnowInv
  <2> QED BY <1>1, <2>1, <2>2, <2>3 DEF KnowInv, Ended, Up
<1> QED BY <1>4, <1>6, <1>7 DEF HttpInv

LEMMA KHandleRequest ==
  ASSUME HttpInv, NEW k \in Posts, HandleRequest(k), faults' \in Nat
  PROVE  HttpInv'
<1> DEFINE n == EmptySize + ItemSize * Len(file)
<1>0. n \in Nat \ {0}
  <2>1. Len(file) \in Nat
    BY DEF HttpInv, SocketInv, TypeOK
  <2>2. ASSUME NEW a \in Nat, NEW b \in Nat PROVE a * b \in Nat
    OBVIOUS
  <2>3. ItemSize * Len(file) \in Nat
    BY <2>1, <2>2, HttpAssumption
  <2> QED BY <2>3, HttpAssumption
<1>1. /\ Handles(k, "REQ") /\ Reply(k, n) /\ UNCHANGED <<at, post, broken, backlog, serving>>
      /\ UNCHANGED <<mem, file, unsaved>> /\ answers' = [answers EXCEPT ![k[1]] = {Range(file)}]
      /\ k[2] = "REQ" /\ k = <<k[1], "REQ">> /\ k[1] \in Clients
  BY PostsOf DEF HandleRequest, Handles
<1> HIDE DEF n
<1>2. /\ chan' \in [Chans -> Channel] /\ ChanInv' /\ LinkInv' /\ QueueInv'
      /\ chan'[Up(k)].rd = "handled" /\ chan'[Down(k)].content = n
      /\ \A j \in Posts \ {k} : chan'[Up(j)] = chan[Up(j)] /\ chan'[Down(j)] = chan[Down(j)]
  BY <1>0, <1>1, ReplyOK DEF HttpInv
<1>3. /\ answers' \in [Clients -> SUBSET SUBSET Clients] /\ answers'[k[1]] = {Range(file)}
      /\ \A c \in Clients \ {k[1]} : answers'[c] = answers[c]
  <2>1. Range(file) \subseteq Clients /\ answers \in [Clients -> SUBSET SUBSET Clients]
    BY DEF HttpInv, SocketInv, TypeOK, Range
  <2> QED BY <1>1, <2>1
<1>4. SocketInv'
  BY <1>1, <1>2, <1>3 DEF HttpInv, SocketInv, TypeOK
<1>5. \A c \in Clients : <<c, "EVENT">> \in Posts \ {k} /\ <<c, "REQ">> \in Posts
  BY <1>1, PostsOf DEF Kinds
<1>6. EffectInv'
  <2>1. \A c \in Clients : c \in Range(mem') <=> chan'[Up(<<c, "EVENT">>)].rd = "handled"
    BY <1>1, <1>2, <1>5 DEF HttpInv, EffectInv
  <2>2. Range(file') \subseteq Range(mem') /\ Range(mem') \subseteq Range(file') \cup unsaved'
    BY <1>1 DEF HttpInv, EffectInv
  <2>3. ASSUME NEW c \in Clients
        PROVE  answers'[c] # {} <=> chan'[Up(<<c, "REQ">>)].rd = "handled"
    <3>1. CASE c = k[1]
      BY <1>1, <1>2, <1>3, <3>1
    <3>2. CASE c # k[1]
      <4>1. <<c, "REQ">> \in Posts \ {k}
        BY <1>1, <1>5, <3>2, PostsOf
      <4> QED BY <1>2, <1>3, <3>2, <4>1 DEF HttpInv, EffectInv
    <3> QED BY <3>1, <3>2
  <2>4. ASSUME NEW j \in Posts, chan'[Up(j)].rd = "handled"
        PROVE  j[2] = "EVENT" <=> chan'[Down(j)].content = 0
    BY <1>0, <1>1, <1>2, <2>4 DEF HttpInv, EffectInv
  <2> QED BY <2>1, <2>2, <2>3, <2>4 DEF EffectInv, Range, Up, Down
<1>7. KnowInv'
  <2>1. ASSUME NEW j \in Posts, post[j] \in {"acked", "answered"}
        PROVE  chan'[Up(j)].rd = "handled" /\ (post[j] = "acked" <=> j[2] = "EVENT")
    BY <1>2, <2>1 DEF HttpInv, KnowInv
  <2>2. ASSUME NEW c \in Clients \ unsaved,
               chan'[Up(<<c, "REQ">>)].rd = "handled", post[<<c, "EVENT">>] = "acked"
        PROVE  \E S \in answers'[c] : c \in S
    <3>1. CASE c = k[1]
      <4>1. chan[Up(<<c, "EVENT">>)].rd = "handled"
        BY <1>5, <2>2 DEF HttpInv, KnowInv
      <4>2. c \in Range(file)
        BY <4>1 DEF HttpInv, EffectInv
      <4> QED BY <1>3, <3>1, <4>2
    <3>2. CASE c # k[1]
      <4>1. <<c, "REQ">> \in Posts \ {k}
        BY <1>1, <1>5, <3>2, PostsOf
      <4> QED BY <1>2, <1>3, <2>2, <3>2, <4>1 DEF HttpInv, KnowInv
    <3> QED BY <3>1, <3>2
  <2>3. \A c \in Clients :
          (post[<<c, "REQ">>] # "new" \/ at[c] \in {"REQ", "exit"}) => post[<<c, "EVENT">>] \in Ended
    BY DEF HttpInv, KnowInv
  <2> QED BY <1>1, <2>1, <2>2, <2>3 DEF KnowInv, Ended, Up
<1> QED BY <1>4, <1>6, <1>7 DEF HttpInv

-----------------------------------------------------------------------------
LEMMA HttpInit ==
  ASSUME Init
  PROVE  HttpInv
<1>1. Quiet \in Channel /\ ChanOK(Quiet) /\ Quiet.rd = "none" /\ Quiet.total = 0
  BY HttpAssumption DEF Quiet, Channel, ChanOK
<1>2. TypeOK /\ ChanInv
  BY <1>1 DEF Init, TypeOK, ChanInv, Kinds
<1>3. \A k \in Posts : Up(k) \in Chans /\ Down(k) \in Chans
  BY Directions
<1>4. \A k \in Posts : chan[Up(k)].rd = "none" /\ chan[Up(k)].total = 0
                       /\ chan[Down(k)].rd = "none" /\ chan[Down(k)].total = 0
  BY <1>1, <1>3 DEF Init
<1>5. LinkInv /\ QueueInv
  BY <1>4 DEF Init, LinkInv, QueueInv
<1>6. \A c \in Clients : <<c, "EVENT">> \in Posts /\ <<c, "REQ">> \in Posts
  BY PostsOf DEF Kinds
<1>7. Range(mem) = {} /\ Range(file) = {}
  BY DEF Init, Range
<1>8. EffectInv
  BY <1>4, <1>6, <1>7 DEF Init, EffectInv
<1>9. KnowInv
  BY <1>4, <1>6 DEF Init, KnowInv
<1> QED BY <1>2, <1>5, <1>8, <1>9 DEF HttpInv, SocketInv

LEMMA HttpStep ==
  ASSUME HttpInv, [Next]_vars
  PROVE  HttpInv'
<1>0. faults \in Nat
  BY DEF HttpInv, SocketInv, TypeOK
<1>1. ASSUME UNCHANGED vars PROVE HttpInv'
  <2>1. /\ at' = at /\ post' = post /\ chan' = chan /\ broken' = broken /\ backlog' = backlog
        /\ serving' = serving /\ mem' = mem /\ file' = file /\ unsaved' = unsaved
        /\ answers' = answers /\ faults' = faults
    BY <1>1 DEF vars
  <2>2. HandlesNone
    BY <2>1 DEF HandlesNone
  <2>3. TypeOK' /\ ChanInv'
    BY <2>1 DEF HttpInv, SocketInv, TypeOK, ChanInv
  <2>4. LinkInv' /\ QueueInv'
    BY <2>1 DEF HttpInv, SocketInv, LinkInv, QueueInv, Up, Down
  <2> QED BY <2>1, <2>2, <2>3, <2>4, EffectFrame, KnowFrame DEF HttpInv, SocketInv
<1>2. ASSUME NEW c \in Clients, ClientStep(c), UNCHANGED faults PROVE HttpInv'
  <2>1. PICK kind \in Kinds : LET k == <<c, kind>> IN
          \/ Connect(c, k)
          \/ \E n \in 1..Window : Write(c, k, n) \/ Read(c, k, n)
          \/ WriteFails(c, k) \/ ReadFails(c, k) \/ Finish(c, k)
    BY <1>2 DEF ClientStep
  <2>2. <<c, kind>> \in Posts /\ faults' \in Nat
    BY <1>0, <1>2, PostsOf
  <2> QED BY <2>1, <2>2, KConnect, KWrite, KRead, KWriteFails, KReadFails, KFinish
<1>3. ASSUME RelayStep, UNCHANGED faults PROVE HttpInv'
  <2>1. PICK k \in Posts :
          \/ Accept(k)
          \/ \E n \in 1..Window : RelayRead(k, n) \/ RelayWrite(k, n)
          \/ RelayReadFails(k) \/ HandleEvent(k) \/ HandleRequest(k)
          \/ HandleFailure(k) \/ RelayWriteFails(k)
    BY <1>3 DEF RelayStep
  <2>2. faults' \in Nat
    BY <1>0, <1>3
  <2>3. ASSUME HandleFailure(k) \/ RelayWriteFails(k) PROVE HttpInv'
    BY <2>2, <2>3, KDrop DEF HandleFailure, RelayWriteFails
  <2> QED BY <2>1, <2>2, <2>3, KAccept, KRelayRead, KRelayWrite, KRelayReadFails,
             KHandleEvent, KHandleRequest
<1>4. ASSUME Fault, faults' = faults + 1 PROVE HttpInv'
  <2>1. faults' \in Nat
    BY <1>0, <1>4
  <2>2. \A c \in Clients, kind \in Kinds : <<c, kind>> \in Posts
    BY PostsOf
  <2> QED BY <1>4, <2>1, <2>2, KKill, KReset, KConnectFails, KHandleEvent DEF Fault
<1> QED BY <1>1, <1>2, <1>3, <1>4 DEF Next

(* The inductive invariant holds in every reachable state.                 *)
THEOREM HttpInductive == Spec => []HttpInv
<1>1. Init => HttpInv
  BY HttpInit
<1>2. HttpInv /\ [Next]_vars => HttpInv'
  BY HttpStep
<1> QED BY <1>1, <1>2, PTL DEF Spec

(* Types, read_left included: the unsigned subtraction in http::parse      *)
(* never wraps, whatever the sizes of the pieces.                          *)
THEOREM HttpTypes == Spec => []TypeOK
<1>1. HttpInv => TypeOK
  BY DEF HttpInv, SocketInv
<1> QED BY <1>1, HttpInductive, PTL

(* Framing: an http::parse that succeeds has read the whole message, on    *)
(* both sides, for every way in which writes and reads cut it up.          *)
THEOREM Framing == Spec => []ParsedIsWhole
<1>1. HttpInv => ParsedIsWhole
  BY DEF HttpInv, SocketInv, ChanInv, ChanOK, ParsedIsWhole, Whole
<1> QED BY <1>1, HttpInductive, PTL

(* A client reads its own acknowledged write, whatever other clients and   *)
(* the network do in between.                                              *)
THEOREM OwnWrite == Spec => []ReadsOwnWrite
<1>1. HttpInv => ReadsOwnWrite
  <2> SUFFICES ASSUME HttpInv, NEW c \in Clients \ unsaved,
                      post[<<c, "EVENT">>] = "acked", post[<<c, "REQ">>] = "answered"
               PROVE  \E S \in answers[c] : c \in S
    BY DEF ReadsOwnWrite
  <2>1. <<c, "REQ">> \in Posts
    BY PostsOf DEF Kinds
  <2>2. chan[Up(<<c, "REQ">>)].rd = "handled"
    BY <2>1 DEF HttpInv, KnowInv
  <2> QED BY <2>2 DEF HttpInv, KnowInv
<1> QED BY <1>1, HttpInductive, PTL

-----------------------------------------------------------------------------
(* The file.  Triangle(n) is where the prefix of length n ends.            *)
LEMMA TriangleNext ==
  ASSUME NEW n \in Nat
  PROVE  /\ Triangle(n) \in Nat
         /\ Triangle(n + 1) = Triangle(n) + (n + 1)
<1>1. n * (n + 1) \in Nat /\ (n + 1) * ((n + 1) + 1) = n * (n + 1) + 2 * (n + 1)
  OBVIOUS
<1>2. ASSUME NEW a \in Nat
      PROVE  a \div 2 \in Nat /\ (a + 2 * (n + 1)) \div 2 = a \div 2 + (n + 1)
  OBVIOUS
<1> QED BY <1>1, <1>2 DEF Triangle

LEMMA TriangleGrows ==
  ASSUME NEW m \in Nat, NEW n \in Nat, m <= n
  PROVE  Triangle(m) <= Triangle(n)
<1>1. m * (m + 1) <= n * (n + 1) /\ m * (m + 1) \in Nat /\ n * (n + 1) \in Nat
  <2>1. PICK d \in Nat : n = m + d
    <3>1. n - m \in Nat /\ n = m + (n - m)
      OBVIOUS
    <3> QED BY <3>1
  <2>2. n * (n + 1) = m * (m + 1) + (m * d + d * (m + 1) + d * d)
    BY <2>1
  <2>3. m * d \in Nat /\ d * (m + 1) \in Nat /\ d * d \in Nat
    OBVIOUS
  <2> QED BY <2>2, <2>3
<1>2. ASSUME NEW a \in Nat, NEW b \in Nat, a <= b PROVE a \div 2 <= b \div 2
  BY <1>2
<1> QED BY <1>1, <1>2 DEF Triangle

LEMMA Joined ==
  ASSUME NEW f \in Seq(Clients), NEW u \in Seq(Clients)
  PROVE  /\ Len(f \o u) = Len(f) + Len(u)
         /\ \A i \in 1..Len(f) : (f \o u)[i] = f[i]
         /\ \A i \in 1..Len(u) : (f \o u)[Len(f) + i] = u[i]
OBVIOUS

(* An event is appended: the file gets one more prefix.                    *)
LEMMA OnePrefixMore ==
  ASSUME NEW s \in Seq(Clients), NEW f \in Seq(Clients), NEW e \in Clients,
         Len(f) = Triangle(Len(s)),
         \A n \in 1..Len(s) : \A i \in 1..n : f[Triangle(n - 1) + i] = s[i]
  PROVE  LET t == Append(s, e) g == f \o t
         IN  /\ Len(g) = Triangle(Len(t))
             /\ \A n \in 1..Len(t) : \A i \in 1..n : g[Triangle(n - 1) + i] = t[i]
<1> DEFINE t == Append(s, e)
           g == f \o t
<1>1. /\ t \in Seq(Clients) /\ Len(t) = Len(s) + 1 /\ Len(s) \in Nat /\ Len(f) \in Nat
      /\ \A i \in 1..Len(s) : t[i] = s[i]
  OBVIOUS
<1> HIDE DEF t
<1>2. /\ Len(g) = Len(f) + Len(t)
      /\ \A i \in 1..Len(f) : g[i] = f[i]
      /\ \A i \in 1..Len(t) : g[Len(f) + i] = t[i]
  BY <1>1, Joined
<1> HIDE DEF g
<1>3. Len(g) = Triangle(Len(t))
  BY <1>1, <1>2, TriangleNext
<1>4. ASSUME NEW n \in 1..Len(t), NEW i \in 1..n PROVE g[Triangle(n - 1) + i] = t[i]
  <2>1. CASE n = Len(t)
    <3>1. Triangle(n - 1) = Len(f) /\ i \in 1..Len(t)
      BY <1>1, <2>1
    <3> QED BY <1>2, <3>1
  <2>2. CASE n # Len(t)
    <3>1. n \in 1..Len(s) /\ n - 1 \in Nat /\ (n - 1) + 1 = n /\ i \in 1..Len(s)
      BY <1>1, <2>2
    <3>2. Triangle(n - 1) \in Nat /\ Triangle(n) = Triangle(n - 1) + n
      BY <3>1, TriangleNext
    <3>3. Triangle(n) <= Len(f)
      BY <1>1, <3>1, TriangleGrows
    <3>4. Triangle(n - 1) + i \in 1..Len(f)
      BY <1>1, <3>1, <3>2, <3>3
    <3> QED BY <1>1, <1>2, <3>1, <3>4
  <2> QED BY <2>1, <2>2
<1> QED BY <1>3, <1>4 DEF g, t

LEMMA FileStep ==
  ASSUME HttpInv, FileRepeats, [Next]_vars
  PROVE  FileRepeats'
<1>1. CASE UNCHANGED <<mem, file, unsaved>>
  BY <1>1 DEF FileRepeats
<1>a. ASSUME NEW k \in Posts, HandleUnsaved(k) PROVE FileRepeats'
  BY <1>a DEF HandleUnsaved, FileRepeats
<1>2. ASSUME NEW k \in Posts, HandleEvent(k) PROVE FileRepeats'
  <2>1. mem' = Append(mem, k[1]) /\ file' = file \o Append(mem, k[1]) /\ k[1] \in Clients
        /\ unsaved' = unsaved
    BY <1>2, PostsOf DEF HandleEvent, Stores
  <2>2. mem \in Seq(Clients) /\ file \in Seq(Clients)
    BY DEF HttpInv, SocketInv, TypeOK
  <2>3. PICK s \in Seq(Clients), f \in Seq(Clients), e \in Clients :
          s = mem /\ f = file /\ e = k[1]
    BY <2>1, <2>2
  <2>4. ASSUME unsaved = {}
        PROVE  LET t == Append(s, e) g == f \o t
               IN  /\ Len(g) = Triangle(Len(t))
                   /\ \A n \in 1..Len(t) : \A i \in 1..n : g[Triangle(n - 1) + i] = t[i]
    <3>1. /\ Len(f) = Triangle(Len(s))
          /\ \A n \in 1..Len(s) : \A i \in 1..n : f[Triangle(n - 1) + i] = s[i]
      BY <2>3, <2>4 DEF FileRepeats
    <3> QED BY ONLY <3>1, OnePrefixMore, s \in Seq(Clients), f \in Seq(Clients), e \in Clients
  <2>5. mem' = Append(s, e) /\ file' = f \o Append(s, e)
    BY <2>1, <2>3
  <2> QED BY ONLY <2>1, <2>4, <2>5 DEF FileRepeats
<1>3. UNCHANGED <<mem, file, unsaved>> \/ \E k \in Posts : HandleEvent(k) \/ HandleUnsaved(k)
  <2>1. CASE UNCHANGED vars
    BY <2>1 DEF vars
  <2>2. ASSUME NEW c \in Clients, ClientStep(c) PROVE UNCHANGED <<mem, file, unsaved>>
    BY <2>2 DEF ClientStep, Connect, Write, Read, WriteFails, ReadFails, Finish, relay, store
  <2>3. ASSUME NEW k \in Posts, ~HandleEvent(k),
               \/ Accept(k) \/ RelayReadFails(k) \/ HandleRequest(k)
               \/ HandleFailure(k) \/ RelayWriteFails(k)
               \/ \E n \in 1..Window : RelayRead(k, n) \/ RelayWrite(k, n)
        PROVE  UNCHANGED <<mem, file, unsaved>>
    BY <2>3 DEF Accept, RelayReadFails, HandleRequest, HandleFailure, RelayWriteFails,
                RelayRead, RelayWrite, relay, store
  <2>4. ASSUME Fault, \A k \in Posts : ~HandleUnsaved(k) PROVE UNCHANGED <<mem, file, unsaved>>
    BY <2>4 DEF Fault, Kill, ConnectFails, Reset, relay, store
  <2> QED BY <2>1, <2>2, <2>3, <2>4 DEF Next, RelayStep
<1> QED BY <1>1, <1>2, <1>3, <1>a

(* As long as it opens, database.json is every prefix of the relay's       *)
(* vector, one after the other: it grows with the square of the number of  *)
(* events.                                                                 *)
THEOREM Repeats == Spec => []FileRepeats
<1>1. Init => FileRepeats
  <2> SUFFICES ASSUME Init PROVE FileRepeats
    OBVIOUS
  <2>1. Len(mem) = 0 /\ Len(file) = 0 /\ Triangle(0) = 0
    BY DEF Init, Triangle
  <2> QED BY <2>1 DEF FileRepeats
<1>2. HttpInv /\ FileRepeats /\ [Next]_vars => FileRepeats'
  BY FileStep
<1> QED BY <1>1, <1>2, HttpInductive, PTL DEF Spec

-----------------------------------------------------------------------------
(* The refinement.  Most steps are not seen by the service's clients.      *)
Pending == {"new", "writing", "reading"}

LEMMA Unseen ==
  ASSUME UNCHANGED <<mem, file, answers>>,
         \A k \in Posts : post'[k] = post[k] \/ (post[k] \in Pending /\ post'[k] \in Pending)
  PROVE  UNCHANGED Service!svars
<1>1. ASSUME NEW c \in Clients, NEW kind \in Kinds PROVE Logged(c, kind)' = Logged(c, kind)
  <2>1. <<c, kind>> \in Posts
    BY PostsOf
  <2> QED BY <2>1 DEF Logged, Pending
<1> QED BY <1>1 DEF Service!svars, Range

(* A post ends.                                                            *)
LEMMA SeenEnd ==
  ASSUME HttpInv, UNCHANGED <<mem, file, answers>>, NEW c \in Clients, NEW k \in Posts,
         NEW stage \in Pending, AtPost(c, k, stage),
         NEW result \in Ended, EndPost(c, k, result),
         result # "failed" => /\ chan[Up(k)].rd = "handled"
                              /\ result = "acked" <=> k[2] = "EVENT"
  PROVE  Service!Next
<1> DEFINE O == [b \in Clients |-> [kind \in Kinds |-> Logged(b, kind)]]
<1>0. PICK kd \in Kinds : kd = at[c]
  BY DEF AtPost
<1>1. /\ k = <<c, kd>> /\ post[k] = stage /\ post \in [Posts -> Pending \cup Ended]
      /\ post' = [post EXCEPT ![k] = result]
  BY <1>0 DEF AtPost, EndPost, HttpInv, SocketInv, TypeOK, Pending, Ended
<1>2. Logged(c, kd) = "nothing"
  BY <1>1 DEF Logged, Pending
<1>3. post'[k] = result /\ \A j \in Posts \ {k} : post'[j] = post[j]
  BY <1>1
<1>4. ASSUME NEW b \in Clients, NEW kind \in Kinds, <<b, kind>> # k
      PROVE  Logged(b, kind)' = Logged(b, kind)
  <2>1. <<b, kind>> \in Posts \ {k}
    BY <1>4, PostsOf
  <2> QED BY <1>3, <2>1 DEF Logged
<1>5. \A v : Logged(c, kd)' = v => O' = [O EXCEPT ![c][kd] = v]
  <2> SUFFICES ASSUME NEW v, Logged(c, kd)' = v PROVE O' = [O EXCEPT ![c][kd] = v]
    OBVIOUS
  <2>1. \A b \in Clients, kind \in Kinds :
          Logged(b, kind)' = IF b = c /\ kind = kd THEN v ELSE Logged(b, kind)
    BY <1>1, <1>4
  <2> QED BY <2>1
<1>6. O[c][kd] = "nothing"
  BY <1>2
<1>7. CASE result = "failed"
  <2>1. Logged(c, kd)' = "error"
    BY <1>1, <1>3, <1>7 DEF Logged
  <2>2. Service!LogError(c, kd)
    BY <1>5, <1>6, <2>1 DEF Service!LogError, Range
  <2> QED BY <2>2 DEF Service!Next, Service!Kinds, Kinds
<1>8. CASE result # "failed"
  <2>1. chan[Up(k)].rd = "handled" /\ (result = "acked" <=> kd = "EVENT")
    BY <1>1, <1>8
  <2>2. Logged(c, kd)' = "reply"
    BY <1>1, <1>3, <1>8, <2>1 DEF Logged, Ended
  <2>3. \/ kd = "EVENT" /\ c \in Range(file) \cup (Range(mem) \ Range(file))
        \/ kd = "REQ" /\ answers[c] # {}
    BY <1>1, <2>1 DEF HttpInv, EffectInv, Kinds
  <2>4. Service!LogReply(c, kd)
    BY <1>5, <1>6, <2>2, <2>3 DEF Service!LogReply, Range
  <2> QED BY <2>4 DEF Service!Next, Service!Kinds, Kinds
<1> QED BY <1>7, <1>8

(* An EVENT is taken when the relay handles it, and only then: stored, or  *)
(* held back when the file does not open.                                  *)
LEMMA SeenEvent ==
  ASSUME HttpInv, NEW k \in Posts, HandleEvent(k) \/ HandleUnsaved(k)
  PROVE  Service!Next
<1>1. PICK c \in Clients : c = k[1]
  BY PostsOf
<1>2. /\ k = <<c, "EVENT">> /\ chan[Up(k)].rd = "done" /\ mem' = Append(mem, c)
      /\ UNCHANGED <<post, answers>> /\ "EVENT" \in Kinds
      /\ file' = file \o Append(mem, c) \/ file' = file
  BY <1>1, PostsOf DEF HandleEvent, HandleUnsaved, Handles, Acknowledges, Stores, Kinds
<1>3. /\ Range(mem') = Range(mem) \cup {c} /\ c \notin Range(mem)
      /\ Range(file) \subseteq Range(mem)
      /\ Range(file') \in {Range(file) \cup Range(mem'), Range(file)}
  <2>1. mem \in Seq(Clients) /\ file \in Seq(Clients)
    BY DEF HttpInv, SocketInv, TypeOK
  <2>2. mem' \in Seq(Clients) /\ Range(mem') = Range(mem) \cup {c}
    BY <1>2, <2>1, Ranges
  <2>3. ASSUME NEW s \in Seq(Clients), NEW t \in Seq(Clients)
        PROVE  Range(s \o t) = Range(s) \cup Range(t)
    BY <1>1, Ranges
  <2>4. Range(file') \in {Range(file) \cup Range(mem'), Range(file)}
    BY <1>2, <2>1, <2>2, <2>3
  <2> QED BY <1>2, <2>2, <2>4 DEF HttpInv, EffectInv
<1>4. Logged(c, "EVENT") # "reply"
  <2>1. post[k] # "acked"
    BY <1>2 DEF HttpInv, KnowInv
  <2> QED BY <1>2, <2>1 DEF Logged
<1>5. UNCHANGED [b \in Clients |-> [kind \in Kinds |-> Logged(b, kind)]]
  BY <1>2 DEF Logged
<1>6. Service!Take(c)
  BY <1>2, <1>3, <1>4, <1>5 DEF Service!Take
<1>7. CASE Range(file') = Range(file) \cup Range(mem')
  <2>1. /\ Range(file') = Range(file) \cup (Range(mem) \ Range(file)) \cup {c}
        /\ Range(mem') \ Range(file') = {}
    BY <1>3, <1>7
  <2>2. Service!Store(c)
    BY <1>6, <2>1 DEF Service!Store, Range
  <2> QED BY <2>2 DEF Service!Next
<1>8. CASE Range(file') = Range(file)
  <2>1. Range(mem') \ Range(file') = (Range(mem) \ Range(file)) \cup {c}
    BY <1>3, <1>8
  <2>2. Service!Hold(c)
    BY <1>6, <1>8, <2>1 DEF Service!Hold, Range
  <2> QED BY <2>2 DEF Service!Next
<1> QED BY <1>3, <1>7, <1>8

(* A REQ is answered from what is stored at that moment.                   *)
LEMMA SeenRequest ==
  ASSUME HttpInv, NEW k \in Posts, HandleRequest(k)
  PROVE  Service!Next
<1>1. PICK c \in Clients : c = k[1]
  BY PostsOf
<1>2. /\ k = <<c, "REQ">> /\ chan[Up(k)].rd = "done"
      /\ answers' = [answers EXCEPT ![c] = {Range(file)}]
      /\ UNCHANGED <<post, mem, file>> /\ "EVENT" \in Kinds
  BY <1>1, PostsOf DEF HandleRequest, Handles, Kinds
<1>3. answers[c] = {}
  BY <1>2 DEF HttpInv, EffectInv
<1>4. Logged(c, "EVENT") # "nothing"
  <2>1. post[k] # "new"
    BY <1>2 DEF HttpInv, SocketInv, LinkInv
  <2>2. post[<<c, "EVENT">>] \in Ended
    BY <1>2, <2>1 DEF HttpInv, KnowInv
  <2> QED BY <2>2 DEF Logged, Ended
<1>5. UNCHANGED [b \in Clients |-> [kind \in Kinds |-> Logged(b, kind)]]
  BY <1>2 DEF Logged
<1>6. Service!Query(c)
  BY <1>2, <1>3, <1>4, <1>5 DEF Service!Query, Range
<1> QED BY <1>6 DEF Service!Next

(* The relay over sockets implements the service: each post is taken as a  *)
(* whole and at most once, an event that was acknowledged is stored or     *)
(* held back, and a client logs a reply only of a post that was taken.     *)
(* Nothing is said of what send returns: it is 0 on every path.            *)
THEOREM PostsAreService == Spec => ImplementsService
<1>1. Init => Service!Init
  <2> SUFFICES ASSUME Init PROVE Service!Init
    OBVIOUS
  <2>1. \A c \in Clients, kind \in Kinds : Logged(c, kind) = "nothing"
    BY PostsOf DEF Init, Logged
  <2>2. Range(mem) = {} /\ Range(file) = {}
    BY DEF Init, Range
  <2> QED BY <2>1, <2>2 DEF Init, Service!Init, Service!Kinds, Kinds
<1>2. ASSUME HttpInv, [Next]_vars PROVE [Service!Next]_(Service!svars)
  <2>1. ASSUME UNCHANGED vars PROVE UNCHANGED Service!svars
    BY <2>1, Unseen DEF vars
  <2>2. ASSUME NEW c \in Clients, ClientStep(c) PROVE [Service!Next]_(Service!svars)
    <3>1. PICK kind \in Kinds : LET k == <<c, kind>> IN
            \/ Connect(c, k)
            \/ \E n \in 1..Window : Write(c, k, n) \/ Read(c, k, n)
            \/ WriteFails(c, k) \/ ReadFails(c, k) \/ Finish(c, k)
      BY <2>2 DEF ClientStep
    <3> DEFINE k == <<c, kind>>
    <3>2. k \in Posts
      BY PostsOf
    <3> HIDE DEF k
    <3>3. ASSUME Connect(c, k) \/ \E n : Write(c, k, n) PROVE UNCHANGED Service!svars
      <4>1. /\ post[k] \in Pending /\ UNCHANGED <<mem, file, answers>>
            /\ post' = post \/ \E v \in Pending : post' = [post EXCEPT ![k] = v]
        BY <3>3 DEF Connect, Write, AtPost, Pending, relay, store
      <4>2. \A j \in Posts : post'[j] = post[j] \/ (post[j] \in Pending /\ post'[j] \in Pending)
        BY <1>2, <3>2, <4>1 DEF HttpInv, SocketInv, TypeOK
      <4> QED BY <4>1, <4>2, Unseen
    <3>4. ASSUME ReadFails(c, k) \/ \E n : Read(c, k, n) PROVE UNCHANGED Service!svars
      BY <3>4, Unseen DEF ReadFails, Read, relay, store
    <3>5. ASSUME WriteFails(c, k) PROVE Service!Next
      <4>1. /\ AtPost(c, k, "writing") /\ EndPost(c, k, "failed") /\ UNCHANGED <<mem, file, answers>>
            /\ "writing" \in Pending /\ "failed" \in Ended
        BY <3>5 DEF WriteFails, relay, store, Pending, Ended
      <4> QED BY <1>2, <3>2, <4>1, SeenEnd
    <3>6. ASSUME Finish(c, k) PROVE Service!Next
      <4>1. /\ AtPost(c, k, "reading") /\ EndPost(c, k, Result(chan[Down(k)]))
            /\ UNCHANGED <<mem, file, answers>> /\ "reading" \in Pending
            /\ chan[Down(k)].rd \in {"done", "failed"}
        BY <3>6 DEF Finish, relay, store, Pending
      <4>2. LET r == Result(chan[Down(k)])
            IN  /\ r \in Ended
                /\ r # "failed" => /\ chan[Up(k)].rd = "handled"
                                   /\ r = "acked" <=> k[2] = "EVENT"
        BY <1>2, <3>2, <4>1, KResult
      <4> QED BY <1>2, <3>2, <4>1, <4>2, SeenEnd
    <3> QED BY <3>1, <3>3, <3>4, <3>5, <3>6 DEF k
  <2>3. ASSUME RelayStep PROVE [Service!Next]_(Service!svars)
    <3>1. PICK k \in Posts :
            \/ Accept(k)
            \/ \E n \in 1..Window : RelayRead(k, n) \/ RelayWrite(k, n)
            \/ RelayReadFails(k) \/ HandleEvent(k) \/ HandleRequest(k)
            \/ HandleFailure(k) \/ RelayWriteFails(k)
      BY <2>3 DEF RelayStep
    <3>2. ASSUME \/ Accept(k) \/ RelayReadFails(k) \/ HandleFailure(k) \/ RelayWriteFails(k)
                 \/ \E n : RelayRead(k, n) \/ RelayWrite(k, n)
          PROVE  UNCHANGED Service!svars
      <4>1. UNCHANGED <<post, mem, file, answers>>
        BY <3>2 DEF Accept, RelayReadFails, HandleFailure, RelayWriteFails, RelayRead, RelayWrite,
                    relay, store
      <4> QED BY <4>1, Unseen
    <3> QED BY <1>2, <3>1, <3>2, SeenEvent, SeenRequest
  <2>4. ASSUME Fault PROVE [Service!Next]_(Service!svars)
    <3>1. ASSUME NEW c \in Clients, Kill(c) PROVE UNCHANGED Service!svars
      BY <3>1, Unseen DEF Kill, relay, store
    <3>2. ASSUME NEW k \in Posts, Reset(k) PROVE UNCHANGED Service!svars
      BY <3>2, Unseen DEF Reset, relay, store
    <3>a. ASSUME NEW k \in Posts, HandleUnsaved(k) PROVE Service!Next
      BY <1>2, <3>a, SeenEvent
    <3>3. ASSUME NEW c \in Clients, NEW k \in Posts, ConnectFails(c, k) PROVE Service!Next
      <4>1. /\ AtPost(c, k, "new") /\ EndPost(c, k, "failed") /\ UNCHANGED <<mem, file, answers>>
            /\ "new" \in Pending /\ "failed" \in Ended
        BY <3>3 DEF ConnectFails, relay, store, Pending, Ended
      <4> QED BY <1>2, <4>1, SeenEnd
    <3>4. \A c \in Clients, kind \in Kinds : <<c, kind>> \in Posts
      BY PostsOf
    <3> QED BY <2>4, <3>1, <3>2, <3>a, <3>3, <3>4 DEF Fault
  <2> QED BY <1>2, <2>1, <2>2, <2>3, <2>4 DEF Next
<1>3. HttpInv /\ [Next]_vars => [Service!Next]_(Service!svars)
  BY <1>2
<1> QED BY <1>1, <1>3, HttpInductive, PTL DEF Spec, ImplementsService, Service!Spec
=============================================================================
