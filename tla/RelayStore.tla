----------------------------- MODULE RelayStore -----------------------------
(***************************************************************************)
(* The event database of the C++ relays: the file database.json in the     *)
(* working directory, and the relay processes (wss_relay, http_relay) that *)
(* keep a list of events in memory and rewrite that file on every EVENT.   *)
(*                                                                         *)
(* database::append is a read of the whole file, an open that truncates it *)
(* and a write, three steps that nothing makes atomic: another relay       *)
(* process started in the same directory, a crash or a failing open can    *)
(* come between any two of them.  Inside one process the handlers run one  *)
(* after the other (one thread runs the event loop of wss_relay, and       *)
(* http_relay serves one socket at a time).                                *)
(***************************************************************************)
EXTENDS Naturals, Sequences, Functions

CONSTANTS
  Events,        \* the event_t values a client message can be parsed into
  Malformed,     \* those left behind by a from_json that threw half way
  Authors,       \* public keys
  PubKey,        \* the pubkey field of each event
  Relays,        \* relay processes sharing the directory
  HttpRelays,    \* those that run http_relay; the others run wss_relay
  MaxEvents,     \* bound: EVENT messages handled
  MaxCrashes,    \* bound: crashes of relay processes
  MaxOpenErrors  \* bound: failing opens of database.json for writing

ASSUME StoreAssumption ==
  /\ Malformed \subseteq Events
  /\ HttpRelays \subseteq Relays
  /\ PubKey \in [Events -> Authors]
  /\ MaxEvents \in Nat /\ MaxCrashes \in Nat /\ MaxOpenErrors \in Nat

VARIABLES
  file,     \* database.json: its state and, when it parses, the events in it
  pc,       \* where each process is
  mem,      \* the vector `database' of each process
  buf,      \* the vector each database::append (or save) is about to write
  reply,    \* the last response a relay sent
  acked,    \* history: events whose EVENT message has been answered
  doors,    \* history: what happened that may cost stored events
  handled, crashes, openErrors  \* history: how many there were so far

counts == <<handled, crashes, openErrors>>
vars == <<file, pc, mem, buf, reply, acked, doors, handled, crashes, openErrors>>

(* The file is empty (missing, just truncated), holds a JSON array, or is  *)
(* not parseable (cut off, or the text of two overlapping writes).         *)
FileStates == {"empty", "json", "torn"}
(* What may cost stored events: two overlapping appends, a crash that cuts *)
(* off a write, any other crash, http_relay's empty start, a failed open.  *)
Causes == {"overlap", "cut", "stop", "wipe", "open"}
PCs == {"down", "save_open", "save_write", "idle", "read", "open", "write"}
ReplyTypes == {"none", "EOSE", "EVENT", "NOTICE", "OK", "POST", "dropped"}
Reply(t, A, E) == [type |-> t, authors |-> A, events |-> E]

(* database::read: whatever does not parse is an empty database.           *)
Read == IF file.state = "json" THEN file.events ELSE << >>
Stored == Range(Read)

(* database::request: an event matches when its pubkey is one of the       *)
(* filter's authors; ids, kinds and limit play no part.                    *)
Matches(e, A) == PubKey[e] \in A
FirstMatch(db, A, i) ==
  /\ Matches(db[i], A)
  /\ \A j \in 1..(i-1) : ~Matches(db[j], A)

InAppend(p) == pc[p] \in {"open", "write"}
OthersInAppend(p) == \E q \in Relays \ {p} : InAppend(q)

Init ==
  /\ file = [state |-> "empty", events |-> << >>]
  /\ pc = [p \in Relays |-> "down"]
  /\ mem = [p \in Relays |-> << >>]
  /\ buf = [p \in Relays |-> << >>]
  /\ reply = Reply("none", {}, {})
  /\ acked = {}
  /\ doors = {}
  /\ handled = 0 /\ crashes = 0 /\ openErrors = 0

(* relay_t::relay_t: wss_relay starts from what the file holds.            *)
StartWss(p) ==
  /\ p \notin HttpRelays
  /\ pc[p] = "down"
  /\ mem' = [mem EXCEPT ![p] = Read]
  /\ pc' = [pc EXCEPT ![p] = "idle"]
  /\ UNCHANGED <<file, buf, reply, acked, doors, counts>>

(* http_relay's main: "start with an empty database", saved over the file. *)
StartHttp(p) ==
  /\ p \in HttpRelays
  /\ pc[p] = "down"
  /\ mem' = [mem EXCEPT ![p] = << >>]
  /\ buf' = [buf EXCEPT ![p] = << >>]
  /\ pc' = [pc EXCEPT ![p] = "save_open"]
  /\ UNCHANGED <<file, reply, acked, doors, counts>>

(* An EVENT message, given the process' list with the event in it.         *)
HandleEvent(p, e, list) ==
  /\ pc[p] = "idle"
  /\ handled < MaxEvents
  /\ handled' = handled + 1
  /\ \/ /\ p \notin HttpRelays \/ e \notin Malformed
        /\ mem' = [mem EXCEPT ![p] = list]
        /\ pc' = [pc EXCEPT ![p] = "read"]
        /\ UNCHANGED reply
     \/ /\ p \in HttpRelays /\ e \in Malformed
        /\ reply' = Reply("dropped", {}, {})
        /\ UNCHANGED <<mem, pc>>
  /\ UNCHANGED <<file, buf, acked, doors, crashes, openErrors>>

(* Mutant of ReceiveEvent: the list is replaced, not extended.             *)
ReceiveForgets(p, e) == HandleEvent(p, e, <<e>>)

(* An EVENT message.  wss_relay ignores the failure of parse_client_event  *)
(* and keeps what was filled in; in http_relay from_json throws, and the   *)
(* socket is dropped with nothing stored and nothing answered.             *)
ReceiveEvent(p, e) == HandleEvent(p, e, Append(mem[p], e))

(* database::append reads, and goes on with the given text to write.       *)
BeginAppend(p, text) ==
  /\ pc[p] = "read"
  /\ buf' = [buf EXCEPT ![p] = text]
  /\ pc' = [pc EXCEPT ![p] = "open"]
  /\ doors' = IF OthersInAppend(p) THEN doors \cup {"overlap"} ELSE doors
  /\ UNCHANGED <<file, mem, reply, counts>>

(* Mutants of AppendRead: the vector pushed as one element, the file not   *)
(* read, only the last event pushed, and the answer given before the save. *)
AppendNests(p) == BeginAppend(p, Append(Read, mem[p])) /\ UNCHANGED acked
AppendSkipsRead(p) == BeginAppend(p, mem[p]) /\ UNCHANGED acked
AppendLastOnly(p) ==
  BeginAppend(p, Append(Read, mem[p][Len(mem[p])])) /\ UNCHANGED acked
AnswerBeforeSave(p) ==
  /\ BeginAppend(p, Read \o mem[p])
  /\ acked' = acked \cup {mem[p][Len(mem[p])]}

(* database::append, first part: the file as it is now, followed by the    *)
(* caller's whole list.                                                    *)
AppendRead(p) == BeginAppend(p, Read \o mem[p]) /\ UNCHANGED acked

(* ofstream::open with std::ofstream::out: the old text is gone.           *)
OpenTruncate(p) ==
  /\ pc[p] \in {"open", "save_open"}
  /\ file' = [state |-> "empty", events |-> << >>]
  /\ \/ /\ pc[p] = "open"
        /\ pc' = [pc EXCEPT ![p] = "write"]
        /\ UNCHANGED doors
     \/ /\ pc[p] = "save_open"
        /\ pc' = [pc EXCEPT ![p] = "save_write"]
        /\ doors' = doors \cup {"wipe"}
  /\ UNCHANGED <<mem, buf, reply, acked, counts>>

(* Answering an EVENT: ["EOSE", <id>] over the websocket, 200 OK by HTTP.  *)
Answer(p) ==
  /\ pc' = [pc EXCEPT ![p] = "idle"]
  /\ reply' = Reply(IF p \in HttpRelays THEN "OK" ELSE "EOSE", {}, {})
  /\ acked' = acked \cup {mem[p][Len(mem[p])]}

(* database::append and database::save return: their vector is gone.       *)
Return(p) == buf' = [buf EXCEPT ![p] = << >>]

(* The text after writing buf[p] from offset 0.  Over an empty file it is  *)
(* buf[p]; over the longer text another process wrote since the truncation *)
(* a tail of that text survives, and the result does not parse.            *)
Written(p) ==
  LET whole == [state |-> "json", events |-> buf[p]]
      torn  == [state |-> "torn", events |-> << >>]
  IN  IF file.state = "empty" \/ whole = file THEN {whole}
      ELSE IF buf[p] = << >> THEN {torn}
      ELSE {whole, torn}

(* The write and the close that end database::append and database::save;  *)
(* append is followed by the answer to the client.                         *)
Write(p) ==
  /\ file' \in Written(p)
  /\ \/ /\ pc[p] = "write"
        /\ Answer(p)
     \/ /\ pc[p] = "save_write"
        /\ pc' = [pc EXCEPT ![p] = "idle"]
        /\ UNCHANGED <<reply, acked>>
  /\ Return(p)
  /\ UNCHANGED <<mem, doors, counts>>

(* The stream cannot be opened: nothing is written, nothing is thrown, the *)
(* function returns 0 and the client is answered all the same.             *)
OpenFails(p) ==
  /\ openErrors < MaxOpenErrors
  /\ openErrors' = openErrors + 1
  /\ \/ /\ pc[p] = "open"
        /\ doors' = doors \cup {"open"}
        /\ Answer(p)
     \/ /\ pc[p] = "save_open"
        /\ pc' = [pc EXCEPT ![p] = "idle"]
        /\ UNCHANGED <<reply, acked, doors>>
  /\ Return(p)
  /\ UNCHANGED <<file, mem, handled, crashes>>

(* A REQ message, answered from the file: wss_relay sends the first match  *)
(* or EOSE, http_relay posts all of them.  A is {} when the filter has no  *)
(* authors or did not parse.                                               *)
Request(p, A) ==
  /\ pc[p] = "idle"
  /\ \/ /\ p \in HttpRelays
        /\ reply' = Reply("POST", A, {e \in Stored : Matches(e, A)})
     \/ /\ p \notin HttpRelays
        /\ \E i \in DOMAIN Read :
             /\ FirstMatch(Read, A, i)
             /\ reply' = Reply("EVENT", A, {Read[i]})
     \/ /\ p \notin HttpRelays
        /\ \A e \in Stored : ~Matches(e, A)
        /\ reply' = Reply("EOSE", A, {})
  /\ UNCHANGED <<file, pc, mem, buf, acked, doors, counts>>

(* Any other message: a NOTICE, or a closed socket from http_relay.        *)
OtherMessage(p) ==
  /\ pc[p] = "idle"
  /\ reply' = Reply(IF p \in HttpRelays THEN "dropped" ELSE "NOTICE", {}, {})
  /\ UNCHANGED <<file, pc, mem, buf, acked, doors, counts>>

(* The process dies.  Between the truncation and the end of the write the  *)
(* file is left empty or cut off.                                          *)
Crash(p) ==
  /\ pc[p] # "down"
  /\ crashes < MaxCrashes
  /\ crashes' = crashes + 1
  /\ pc' = [pc EXCEPT ![p] = "down"]
  /\ mem' = [mem EXCEPT ![p] = << >>]
  /\ buf' = [buf EXCEPT ![p] = << >>]
  /\ \/ UNCHANGED file
     \/ /\ pc[p] \in {"write", "save_write"}
        /\ file' = [state |-> "torn", events |-> << >>]
  /\ doors' = doors \cup {IF pc[p] = "write" THEN "cut" ELSE "stop"}
  /\ UNCHANGED <<reply, acked, handled, openErrors>>

Next ==
  \E p \in Relays :
    \/ StartWss(p) \/ StartHttp(p)
    \/ \E e \in Events : ReceiveEvent(p, e)
    \/ AppendRead(p) \/ OpenTruncate(p) \/ Write(p) \/ OpenFails(p)
    \/ \E A \in SUBSET Authors : Request(p, A)
    \/ OtherMessage(p)
    \/ Crash(p)

Spec == Init /\ [][Next]_vars

-----------------------------------------------------------------------------
(* Nothing has happened that may cost an event in the file.                *)
Undamaged == doors \subseteq {"stop"}

(* The abstract archive this database implements: see EventArchive.        *)
Held == Stored \cup UNION {Range(buf[p]) : p \in {q \in Relays : pc[q] = "write"}}
Archive == INSTANCE EventArchive WITH
             held <- Held, answered <- acked, damaged <- ~Undamaged
ImplementsArchive == Archive!Spec

Replies == [type : ReplyTypes, authors : SUBSET Authors, events : SUBSET Events]

(* Type correctness of the file, the processes and the histories.          *)
TypeOK ==
  /\ file \in [state : FileStates, events : Seq(Events)]
  /\ pc \in [Relays -> PCs]
  /\ mem \in [Relays -> Seq(Events)]
  /\ buf \in [Relays -> Seq(Events)]
  /\ reply \in Replies
  /\ acked \in SUBSET Events
  /\ doors \in SUBSET Causes
  /\ handled \in Nat /\ crashes \in Nat /\ openErrors \in Nat

(* Durability.  However many relay processes share database.json, an event *)
(* whose EVENT message was answered is in the file, or in the text a       *)
(* process is just writing over it, unless appends of two processes have   *)
(* overlapped, a crash cut off a write, http_relay was started on the      *)
(* file, or an open failed.  Crashes outside the write and relays that     *)
(* start in the middle of another one's write cost nothing.                *)
AnsweredEventsAreStored ==
  Undamaged =>
    \A e \in acked :
      \/ e \in Stored
      \/ \E p \in Relays : pc[p] = "write" /\ e \in Range(buf[p])

(* As long as no process crashes, an answered event that overlapping       *)
(* appends, a wipe or a failed open have taken out of the file is still in *)
(* the memory of a relay, whose next append puts it back (AppendHeals).    *)
AnsweredEventsAreRemembered ==
  doors \cap {"stop", "cut"} = {} =>
    \A e \in acked : \E p \in Relays : e \in Range(mem[p])

(* An append that finishes with nobody writing in between puts every event *)
(* of the relay's memory (back) into the file, whatever the file had lost, *)
(* together with all that the file held when the append read it.           *)
AppendHeals ==
  [][\A p \in Relays :
       (pc[p] = "write" /\ pc'[p] = "idle" /\ file.state = "empty")
         => Range(mem[p]) \cup Range(buf[p]) \subseteq Range(file'.events)]_vars

(* EOSE from wss_relay in reply to a REQ means that no answered event      *)
(* matches, provided nothing happened that may cost events and no relay is *)
(* between the truncation and the write of its append at that moment.      *)
EoseMeansNothingStored ==
  [][(Undamaged /\ \A q \in Relays : pc[q] # "write") =>
       ((reply' # reply /\ reply'.type = "EOSE") =>
          \A e \in acked : ~Matches(e, reply'.authors))]_vars
=============================================================================
