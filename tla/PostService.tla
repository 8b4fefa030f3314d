---------------------------- MODULE PostService ----------------------------
(***************************************************************************)
(* What a client of the HTTP relay is promised, with no bytes, sockets or  *)
(* queues in sight.  Each client posts its event and then a request.  A    *)
(* post is taken at once, as a whole and at most once, or not at all.  The *)
(* client logs a reply only after that, and of a request the whole answer; *)
(* it may log an error at any time, also of a post that was taken or is    *)
(* going to be.  The log is all there is to tell: the call returns 0 after *)
(* a reply and after an error, and the client goes on to its request.      *)
(*                                                                         *)
(* An event that was taken is in the store, where requests find it, or     *)
(* held back because the store could not be written.  It is acknowledged   *)
(* all the same, and comes into the store with the next event that does.   *)
(***************************************************************************)
CONSTANT Clients

VARIABLES
  stored,   \* the events in the relay's file, each named after its client
  held,     \* the events the relay has taken that are not in it
  answers,  \* the answer to each client's request: {}, or {S} for the list S
  logged    \* what each client has logged of its posts

svars == <<stored, held, answers, logged>>

Kinds == {"EVENT", "REQ"}

Init ==
  /\ stored = {} /\ held = {}
  /\ answers = [c \in Clients |-> {}]
  /\ logged = [c \in Clients |-> [k \in Kinds |-> "nothing"]]

(* An event is taken once, and before its client can log a reply.          *)
Take(c) ==
  /\ logged[c]["EVENT"] # "reply"
  /\ c \notin stored \cup held
  /\ UNCHANGED <<answers, logged>>

Store(c) ==
  /\ Take(c)
  /\ stored' = stored \cup held \cup {c}
  /\ held' = {}

Hold(c) ==
  /\ Take(c)
  /\ held' = held \cup {c}
  /\ UNCHANGED stored

(* A request is answered from all that is stored at one moment.            *)
Query(c) ==
  /\ logged[c]["EVENT"] # "nothing"
  /\ answers[c] = {}
  /\ answers' = [answers EXCEPT ![c] = {stored}]
  /\ UNCHANGED <<stored, held, logged>>

LogReply(c, k) ==
  /\ logged[c][k] = "nothing"
  /\ \/ k = "EVENT" /\ c \in stored \cup held
     \/ k = "REQ" /\ answers[c] # {}
  /\ logged' = [logged EXCEPT ![c][k] = "reply"]
  /\ UNCHANGED <<stored, held, answers>>

LogError(c, k) ==
  /\ logged[c][k] = "nothing"
  /\ logged' = [logged EXCEPT ![c][k] = "error"]
  /\ UNCHANGED <<stored, held, answers>>

Next ==
  \E c \in Clients :
    \/ Store(c) \/ Hold(c) \/ Query(c)
    \/ \E k \in Kinds : LogReply(c, k) \/ LogError(c, k)

Spec == Init /\ [][Next]_svars
=============================================================================
