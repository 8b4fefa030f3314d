-------------------------- MODULE RelayStoreProofs --------------------------
(***************************************************************************)
(* Proofs about RelayStore, for any number of relay processes and events:  *)
(* types, durability of answered events, and the refinement of             *)
(* EventArchive.                                                           *)
(***************************************************************************)
EXTENDS RelayStore, TLAPS

(* Facts about the elements of sequences.                                  *)
LEMMA RangeConcat ==
  ASSUME NEW S, NEW s \in Seq(S), NEW t \in Seq(S)
  PROVE  Range(s \o t) = Range(s) \cup Range(t)
<1>1. ASSUME NEW x \in Range(s \o t) PROVE x \in Range(s) \cup Range(t)
  <2>1. PICK i \in DOMAIN (s \o t) : x = (s \o t)[i]
    BY <1>1 DEF Range
  <2>2. CASE i <= Len(s)
    BY <2>1, <2>2 DEF Range
  <2>3. CASE i > Len(s)
    <3>1. i - Len(s) \in DOMAIN t /\ x = t[i - Len(s)]
      BY <2>1, <2>3
    <3> QED BY <3>1 DEF Range
  <2> QED BY <2>1, <2>2, <2>3
<1>2. ASSUME NEW x \in Range(s) PROVE x \in Range(s \o t)
  <2>1. PICK i \in DOMAIN s : x = s[i]
    BY <1>2 DEF Range
  <2>2. i \in DOMAIN (s \o t) /\ (s \o t)[i] = x
    BY <2>1
  <2> QED BY <2>2 DEF Range
<1>3. ASSUME NEW x \in Range(t) PROVE x \in Range(s \o t)
  <2>1. PICK i \in DOMAIN t : x = t[i]
    BY <1>3 DEF Range
  <2>2. Len(s) + i \in DOMAIN (s \o t) /\ (s \o t)[Len(s) + i] = x
    BY <2>1
  <2> QED BY <2>2 DEF Range
<1> QED BY <1>1, <1>2, <1>3

(* The elements of a sequence over S are in S.                           *)
LEMMA RangeType ==
  ASSUME NEW S, NEW s \in Seq(S)
  PROVE  Range(s) \subseteq S
BY DEF Range

(* The last element of a sequence is one of its elements.                *)
LEMMA RangeLast ==
  ASSUME NEW S, NEW s \in Seq(S), s # << >>
  PROVE  s[Len(s)] \in Range(s)
BY DEF Range

(* Appending an element adds it, and nothing else.                       *)
LEMMA RangeAppend ==
  ASSUME NEW S, NEW s \in Seq(S), NEW e \in S
  PROVE  /\ Append(s, e) # << >>
         /\ Range(Append(s, e)) = Range(s) \cup {e}
<1>1. Len(Append(s, e)) = Len(s) + 1
  OBVIOUS
<1>2. ASSUME NEW x \in Range(s) PROVE x \in Range(Append(s, e))
  <2>1. PICK i \in DOMAIN s : x = s[i]
    BY <1>2 DEF Range
  <2>2. i \in DOMAIN Append(s, e) /\ Append(s, e)[i] = x
    BY <2>1
  <2> QED BY <2>2 DEF Range
<1>3. e \in Range(Append(s, e))
  <2>1. Len(s) + 1 \in DOMAIN Append(s, e) /\ Append(s, e)[Len(s) + 1] = e
    OBVIOUS
  <2> QED BY <2>1 DEF Range
<1>4. ASSUME NEW x \in Range(Append(s, e)) PROVE x \in Range(s) \cup {e}
  <2>1. PICK i \in DOMAIN Append(s, e) : x = Append(s, e)[i]
    BY <1>4 DEF Range
  <2> QED BY <2>1 DEF Range
<1>5. Append(s, e) # << >>
  <2>1. Len(Append(s, e)) > 0 /\ Len(<< >>) = 0
    BY <1>1
  <2> QED BY <2>1
<1> QED BY <1>2, <1>3, <1>4, <1>5

(* The empty sequence has no elements.                                   *)
LEMMA RangeEmpty == Range(<< >>) = {}
BY DEF Range

-----------------------------------------------------------------------------
(* database::read returns events, whatever state the file is in.         *)
LEMMA ReadType == TypeOK => Read \in Seq(Events) /\ Stored \subseteq Events
<1> SUFFICES ASSUME TypeOK PROVE Read \in Seq(Events) /\ Stored \subseteq Events
  OBVIOUS
<1>1. file.events \in Seq(Events) /\ << >> \in Seq(Events)
  BY DEF TypeOK
<1>2. Read \in Seq(Events)
  BY <1>1 DEF Read
<1> QED BY <1>2, RangeType DEF Stored

(* The initial state is well typed.                                      *)
LEMMA InitTypeOK == Init => TypeOK
BY DEF Init, TypeOK, FileStates, PCs, Replies, ReplyTypes, Reply, Causes

(* While a process handles an EVENT, that event ends its memory, and the   *)
(* text it is about to write covers its memory; a process that is down has *)
(* no memory.                                                              *)
ProcessInv ==
  \A p \in Relays :
    /\ pc[p] \in {"read", "open", "write"} => mem[p] # << >>
    /\ pc[p] \in {"open", "write"} => Range(mem[p]) \subseteq Range(buf[p])
    /\ pc[p] = "down" => mem[p] = << >>

(* Responses are well typed.                                             *)
LEMMA ReplyType ==
  ASSUME NEW t \in ReplyTypes, NEW A \in SUBSET Authors, NEW E \in SUBSET Events
  PROVE  Reply(t, A, E) \in Replies
BY DEF Reply, Replies

(* Every step keeps the types.                                           *)
LEMMA NextTypeOK ==
  ASSUME TypeOK, ProcessInv, [Next]_vars
  PROVE  TypeOK'
<1> USE DEF TypeOK
<1>0. << >> \in Seq(Events)
  OBVIOUS
<1>1. Read \in Seq(Events) /\ Stored \subseteq Events
  BY ReadType
<1>2. CASE UNCHANGED vars
  BY <1>2 DEF counts, vars
<1>3. ASSUME NEW p \in Relays, StartWss(p) PROVE TypeOK'
  BY <1>1, <1>3 DEF counts, StartWss, PCs
<1>4. ASSUME NEW p \in Relays, StartHttp(p) PROVE TypeOK'
  BY <1>0, <1>4 DEF counts, StartHttp, PCs
<1>5. ASSUME NEW p \in Relays, NEW e \in Events, ReceiveEvent(p, e) PROVE TypeOK'
  <2>1. Reply("dropped", {}, {}) \in Replies
    BY ReplyType DEF ReplyTypes
  <2>2. handled' \in Nat /\ crashes' \in Nat /\ openErrors' \in Nat
    BY <1>5 DEF counts, ReceiveEvent, HandleEvent
  <2>3. Append(mem[p], e) \in Seq(Events)
    OBVIOUS
  <2>4. mem' \in [Relays -> Seq(Events)]
    BY <1>5, <2>3 DEF counts, ReceiveEvent, HandleEvent
  <2>5. pc' \in [Relays -> PCs]
    BY <1>5 DEF counts, ReceiveEvent, HandleEvent, PCs
  <2>6. reply' \in Replies
    BY <1>5, <2>1 DEF counts, ReceiveEvent, HandleEvent
  <2> QED BY <1>5, <2>2, <2>4, <2>5, <2>6 DEF counts, ReceiveEvent, HandleEvent
<1>6. ASSUME NEW p \in Relays, AppendRead(p) PROVE TypeOK'
  <2>1. Read \o mem[p] \in Seq(Events)
    BY <1>1
  <2> QED BY <1>6, <2>1 DEF counts, AppendRead, BeginAppend, PCs, Causes
<1>7. ASSUME NEW p \in Relays, OpenTruncate(p) PROVE TypeOK'
  BY <1>0, <1>7 DEF counts, OpenTruncate, PCs, Causes, FileStates
<1>8. ASSUME NEW p \in Relays, pc[p] \in {"open", "write"}, Answer(p)
      PROVE  /\ pc' \in [Relays -> PCs]
             /\ reply' \in Replies
             /\ acked' \in SUBSET Events
  <2>1. mem[p][Len(mem[p])] \in Events
    <3>1. mem[p] \in Seq(Events) /\ mem[p] # << >>
      BY <1>8 DEF ProcessInv
    <3> QED BY <3>1, RangeLast, RangeType
  <2>2. Reply(IF p \in HttpRelays THEN "OK" ELSE "EOSE", {}, {}) \in Replies
    BY ReplyType DEF ReplyTypes
  <2> QED BY <1>8, <2>1, <2>2 DEF Answer, PCs
<1>9. ASSUME NEW p \in Relays, Write(p) PROVE TypeOK'
  <2>1. file' \in [state : FileStates, events : Seq(Events)]
    <3>1. Written(p) \subseteq [state : FileStates, events : Seq(Events)]
      <4>1. /\ [state |-> "json", events |-> buf[p]]
                 \in [state : FileStates, events : Seq(Events)]
            /\ [state |-> "torn", events |-> << >>]
                 \in [state : FileStates, events : Seq(Events)]
        BY <1>0 DEF FileStates
      <4> QED BY <4>1 DEF Written
    <3> QED BY <1>9, <3>1 DEF counts, Write
  <2>2. /\ pc' \in [Relays -> PCs]
        /\ reply' \in Replies
        /\ acked' \in SUBSET Events
    BY <1>8, <1>9 DEF counts, Write, PCs
  <2> QED BY <1>0, <1>9, <2>1, <2>2 DEF counts, Write, Return
<1>10. ASSUME NEW p \in Relays, OpenFails(p) PROVE TypeOK'
  <2>1. /\ pc' \in [Relays -> PCs]
        /\ reply' \in Replies
        /\ acked' \in SUBSET Events
    BY <1>8, <1>10 DEF counts, OpenFails, PCs
  <2>2. doors' \in SUBSET Causes
    BY <1>10 DEF counts, OpenFails, Causes
  <2>3. handled' \in Nat /\ crashes' \in Nat /\ openErrors' \in Nat
    BY <1>10 DEF counts, OpenFails
  <2>4. buf' \in [Relays -> Seq(Events)]
    BY <1>0, <1>10 DEF counts, OpenFails, Return
  <2> QED BY <1>10, <2>1, <2>2, <2>3, <2>4 DEF counts, OpenFails
<1>11. ASSUME NEW p \in Relays, NEW A \in SUBSET Authors, Request(p, A) PROVE TypeOK'
  <2>1. reply' \in Replies
    <3>1. Reply("POST", A, {e \in Stored : Matches(e, A)}) \in Replies
      BY <1>1, ReplyType DEF ReplyTypes
    <3>2. ASSUME NEW i \in DOMAIN Read PROVE Reply("EVENT", A, {Read[i]}) \in Replies
      <4>1. {Read[i]} \in SUBSET Events
        BY <1>1
      <4> QED BY <4>1, ReplyType DEF ReplyTypes
    <3>3. Reply("EOSE", A, {}) \in Replies
      BY ReplyType DEF ReplyTypes
    <3> QED BY <1>11, <3>1, <3>2, <3>3 DEF counts, Request
  <2> QED BY <1>11, <2>1 DEF counts, Request
<1>12. ASSUME NEW p \in Relays, OtherMessage(p) PROVE TypeOK'
  <2>1. Reply(IF p \in HttpRelays THEN "dropped" ELSE "NOTICE", {}, {}) \in Replies
    BY ReplyType DEF ReplyTypes
  <2> QED BY <1>12, <2>1 DEF counts, OtherMessage
<1>13. ASSUME NEW p \in Relays, Crash(p) PROVE TypeOK'
  <2>1. handled' \in Nat /\ crashes' \in Nat /\ openErrors' \in Nat
    BY <1>13 DEF counts, Crash
  <2>2. mem' \in [Relays -> Seq(Events)] /\ buf' \in [Relays -> Seq(Events)]
    BY <1>0, <1>13 DEF Crash
  <2>4. file' \in [state : FileStates, events : Seq(Events)]
    <3>1. [state |-> "torn", events |-> << >>] \in [state : FileStates, events : Seq(Events)]
      BY <1>0 DEF FileStates
    <3> QED BY <1>13, <3>1 DEF Crash
  <2>3. pc' \in [Relays -> PCs] /\ doors' \in SUBSET Causes
    BY <1>13 DEF counts, Crash, PCs, Causes
  <2> QED BY <1>13, <2>1, <2>2, <2>3, <2>4 DEF counts, Crash
<1> QED BY <1>2, <1>3, <1>4, <1>5, <1>6, <1>7, <1>9, <1>10, <1>11, <1>12, <1>13
         DEF Next

(* Every step keeps what a process knows inside an append.               *)
LEMMA NextProcessInv ==
  ASSUME TypeOK, ProcessInv, [Next]_vars
  PROVE  ProcessInv'
<1> USE DEF TypeOK, ProcessInv
<1>1. Read \in Seq(Events)
  BY ReadType
<1>2. CASE UNCHANGED vars
  BY <1>2 DEF counts, vars
<1>3. ASSUME NEW p \in Relays, StartWss(p) \/ StartHttp(p) \/ Crash(p) PROVE ProcessInv'
  BY <1>3 DEF counts, StartWss, StartHttp, Crash
<1>4. ASSUME NEW p \in Relays, NEW e \in Events, ReceiveEvent(p, e) PROVE ProcessInv'
  <2>1. Append(mem[p], e) # << >>
    BY RangeAppend
  <2> QED BY <1>4, <2>1 DEF counts, ReceiveEvent, HandleEvent
<1>5. ASSUME NEW p \in Relays, AppendRead(p) PROVE ProcessInv'
  <2>1. Range(mem[p]) \subseteq Range(Read \o mem[p])
    BY <1>1, RangeConcat
  <2> QED BY <1>5, <2>1 DEF counts, AppendRead, BeginAppend
<1>6. ASSUME NEW p \in Relays, OpenTruncate(p) PROVE ProcessInv'
  BY <1>6 DEF counts, OpenTruncate
<1>7. ASSUME NEW p \in Relays, Write(p) \/ OpenFails(p) PROVE ProcessInv'
  BY <1>7 DEF counts, Write, OpenFails, Answer, Return
<1>8. ASSUME NEW p \in Relays, NEW A \in SUBSET Authors, Request(p, A) PROVE ProcessInv'
  BY <1>8 DEF counts, Request
<1>9. ASSUME NEW p \in Relays, OtherMessage(p) PROVE ProcessInv'
  BY <1>9 DEF counts, OtherMessage
<1> QED BY <1>2, <1>3, <1>4, <1>5, <1>6, <1>7, <1>8, <1>9 DEF Next

(* Type correctness of the relays' database, for all constants: every      *)
(* step of a relay process keeps the file, the memories, the vectors being *)
(* written and the answers well typed.                                     *)
THEOREM TypeCorrect == Spec => []TypeOK
<1>1. Init => TypeOK /\ ProcessInv
  BY InitTypeOK DEF Init, ProcessInv
<1>2. TypeOK /\ ProcessInv /\ [Next]_vars => (TypeOK /\ ProcessInv)'
  BY NextTypeOK, NextProcessInv
<1> QED BY <1>1, <1>2, PTL DEF Spec

-----------------------------------------------------------------------------
(* The inductive invariant behind durability.  While nothing has damaged   *)
(* the file: one process at a time is inside an append; the text it is     *)
(* going to write covers the file it read and every answered event; from   *)
(* its truncation on the file stays empty; and when nobody is writing, the *)
(* file itself holds every answered event.                                 *)
DurableInv ==
  Undamaged =>
    /\ \A p, q \in Relays : InAppend(p) /\ InAppend(q) => p = q
    /\ \A p \in Relays : pc[p] = "open" => Stored \subseteq Range(buf[p])
    /\ \A p \in Relays : InAppend(p) => acked \subseteq Range(buf[p])
    /\ \A p \in Relays : pc[p] = "write" => file.state = "empty"
    /\ \A p \in Relays : pc[p] # "save_write"
    /\ (\A p \in Relays : pc[p] # "write") => acked \subseteq Stored

(* Damage is never undone.                                               *)
LEMMA UndamagedBefore ==
  ASSUME TypeOK, [Next]_vars, Undamaged'
  PROVE  Undamaged
<1>1. doors \subseteq doors'
  BY DEF Next, vars, counts, StartWss, StartHttp, ReceiveEvent, HandleEvent, AppendRead, BeginAppend,
         OpenTruncate, Write, OpenFails, Request, OtherMessage, Crash
<1> QED BY <1>1 DEF Undamaged

(* Every step keeps the answered events in the file or its new text.     *)
LEMMA NextDurableInv ==
  ASSUME TypeOK, ProcessInv, DurableInv, [Next]_vars
  PROVE  DurableInv'
<1> SUFFICES ASSUME Undamaged' PROVE DurableInv'
  BY DEF DurableInv
<1> USE DEF InAppend, DurableInv
<1>0. Undamaged
  BY UndamagedBefore
<1>1. Read \in Seq(Events) /\ Stored \subseteq Events
  BY ReadType
<1>2. CASE UNCHANGED vars
  BY <1>2 DEF vars, Undamaged, Stored, Read
<1>3. ASSUME NEW p \in Relays, StartWss(p) \/ StartHttp(p) \/ OtherMessage(p)
      PROVE  DurableInv'
  <2>1. file' = file /\ acked' = acked /\ Stored' = Stored
    BY <1>3 DEF StartWss, StartHttp, OtherMessage, Stored, Read
  <2>2. \A q \in Relays : InAppend(q)' => InAppend(q) /\ pc'[q] = pc[q] /\ buf'[q] = buf[q]
    BY <1>3 DEF TypeOK, StartWss, StartHttp, OtherMessage
  <2>3. \A q \in Relays : pc[q] = "write" => pc'[q] = "write"
    BY <1>3 DEF TypeOK, StartWss, StartHttp, OtherMessage
  <2>4. \A q \in Relays : pc'[q] # "save_write"
    BY <1>0, <1>3 DEF TypeOK, StartWss, StartHttp, OtherMessage
  <2> QED BY <1>0, <2>1, <2>2, <2>3, <2>4
<1>4. ASSUME NEW p \in Relays, NEW e \in Events, ReceiveEvent(p, e) PROVE DurableInv'
  <2>1. file' = file /\ acked' = acked /\ Stored' = Stored /\ buf' = buf
    BY <1>4 DEF ReceiveEvent, HandleEvent, Stored, Read
  <2>2. \A q \in Relays : InAppend(q)' => pc'[q] = pc[q]
    BY <1>4 DEF TypeOK, ReceiveEvent, HandleEvent
  <2>3. \A q \in Relays : pc[q] = "write" => pc'[q] = "write"
    BY <1>4 DEF TypeOK, ReceiveEvent, HandleEvent
  <2>4. \A q \in Relays : pc'[q] # "save_write"
    BY <1>0, <1>4 DEF TypeOK, ReceiveEvent, HandleEvent
  <2> QED BY <1>0, <2>1, <2>2, <2>3, <2>4
<1>5. ASSUME NEW p \in Relays, AppendRead(p) PROVE DurableInv'
  <2>1. ~OthersInAppend(p)
    BY <1>5 DEF AppendRead, BeginAppend, Undamaged
  <2>2. \A q \in Relays : pc[q] # "write"
    BY <1>5, <2>1 DEF AppendRead, BeginAppend, OthersInAppend
  <2>3. file' = file /\ acked' = acked /\ Stored' = Stored
    BY <1>5 DEF AppendRead, BeginAppend, Stored, Read
  <2>4. Stored \subseteq Range(buf'[p])
    BY <1>1, <1>5, RangeConcat DEF AppendRead, BeginAppend, TypeOK, Stored
  <2>5. /\ pc'[p] = "open"
        /\ \A q \in Relays \ {p} : pc'[q] = pc[q] /\ buf'[q] = buf[q]
    BY <1>5 DEF AppendRead, BeginAppend, TypeOK
  <2> QED BY <1>0, <2>1, <2>2, <2>3, <2>4, <2>5 DEF OthersInAppend
<1>6. ASSUME NEW p \in Relays, OpenTruncate(p) PROVE DurableInv'
  <2>1. pc[p] = "open"
    BY <1>6 DEF OpenTruncate, Undamaged
  <2>2. /\ pc'[p] = "write" /\ buf' = buf /\ acked' = acked
        /\ file'.state = "empty"
        /\ \A q \in Relays \ {p} : pc'[q] = pc[q]
    BY <1>6, <2>1 DEF OpenTruncate, TypeOK
  <2> QED BY <1>0, <2>1, <2>2
<1>7. ASSUME NEW p \in Relays, Write(p) PROVE DurableInv'
  <2>1. pc[p] = "write" /\ file.state = "empty"
    BY <1>0, <1>7 DEF Write
  <2>2. file' = [state |-> "json", events |-> buf[p]]
    BY <1>7, <2>1 DEF Write, Written
  <2>3. Stored' = Range(buf[p])
    BY <2>2 DEF Stored, Read
  <2>4. acked' \subseteq Range(buf[p])
    <3>1. mem[p] \in Seq(Events) /\ mem[p] # << >> /\ Range(mem[p]) \subseteq Range(buf[p])
      BY <2>1 DEF TypeOK, ProcessInv
    <3>2. acked' = acked \cup {mem[p][Len(mem[p])]}
      BY <1>7, <2>1 DEF Write, Answer
    <3> QED BY <1>0, <2>1, <3>1, <3>2, RangeLast
  <2>5. pc'[p] = "idle" /\ \A q \in Relays \ {p} : pc'[q] = pc[q]
    BY <1>7, <2>1 DEF Write, Answer, TypeOK
  <2>6. \A q \in Relays : pc'[q] \notin {"open", "write", "save_write"}
    BY <1>0, <2>1, <2>5
  <2> QED BY <2>3, <2>4, <2>6
<1>8. ASSUME NEW p \in Relays, OpenFails(p) PROVE DurableInv'
  <2>1. pc[p] = "save_open"
    BY <1>8 DEF OpenFails, Undamaged
  <2>2. /\ file' = file /\ acked' = acked /\ Stored' = Stored
        /\ pc'[p] = "idle"
        /\ \A q \in Relays \ {p} : pc'[q] = pc[q] /\ buf'[q] = buf[q]
    BY <1>8, <2>1 DEF OpenFails, Return, TypeOK, Stored, Read
  <2> QED BY <1>0, <2>1, <2>2
<1>9. ASSUME NEW p \in Relays, NEW A \in SUBSET Authors, Request(p, A) PROVE DurableInv'
  <2>1. pc' = pc /\ buf' = buf /\ file' = file /\ acked' = acked /\ Stored' = Stored
    BY <1>9 DEF Request, Stored, Read
  <2> QED BY <1>0, <2>1
<1>10. ASSUME NEW p \in Relays, Crash(p) PROVE DurableInv'
  <2>1. pc[p] \notin {"write", "save_write"}
    BY <1>0, <1>10 DEF Crash, Undamaged
  <2>2. /\ file' = file /\ acked' = acked /\ Stored' = Stored
        /\ pc'[p] = "down"
        /\ \A q \in Relays \ {p} : pc'[q] = pc[q] /\ buf'[q] = buf[q]
    BY <1>10, <2>1 DEF Crash, TypeOK, Stored, Read
  <2> QED BY <1>0, <2>1, <2>2
<1> QED BY <1>2, <1>3, <1>4, <1>5, <1>6, <1>7, <1>8, <1>9, <1>10 DEF Next

(* Nothing is answered at the start.                                     *)
LEMMA InitDurableInv == Init => DurableInv
BY DEF Init, DurableInv, InAppend

(* An answered event is in the file, or in the text being written over it, *)
(* for any number of relays, events and crashes, as long as appends do not *)
(* overlap, no write is cut off, no open fails and http_relay is not       *)
(* started on the file.                                                    *)
THEOREM Durability == Spec => []AnsweredEventsAreStored
<1>1. Init => TypeOK /\ ProcessInv /\ DurableInv
  BY InitTypeOK, InitDurableInv DEF Init, ProcessInv
<1>2. TypeOK /\ ProcessInv /\ DurableInv /\ [Next]_vars
        => (TypeOK /\ ProcessInv /\ DurableInv)'
  BY NextTypeOK, NextProcessInv, NextDurableInv
<1>3. DurableInv => AnsweredEventsAreStored
  BY DEF DurableInv, InAppend, AnsweredEventsAreStored
<1> QED BY <1>1, <1>2, <1>3, PTL DEF Spec

(* EOSE in reply to a REQ: no answered event matches the filter, unless    *)
(* the file may have been damaged or a relay is in the middle of a write.  *)
THEOREM EoseHonest == Spec => EoseMeansNothingStored
<1>1. Init => TypeOK /\ ProcessInv /\ DurableInv
  BY InitTypeOK, InitDurableInv DEF Init, ProcessInv
<1>2. TypeOK /\ ProcessInv /\ DurableInv /\ [Next]_vars
        => (TypeOK /\ ProcessInv /\ DurableInv)'
  BY NextTypeOK, NextProcessInv, NextDurableInv
<1> DEFINE Honest ==
      (Undamaged /\ \A q \in Relays : pc[q] # "write") =>
        ((reply' # reply /\ reply'.type = "EOSE") =>
           \A e \in acked : ~Matches(e, reply'.authors))
<1>3. ASSUME TypeOK, DurableInv, [Next]_vars PROVE [Honest]_vars
  <2> SUFFICES ASSUME Undamaged, \A q \in Relays : pc[q] # "write",
                      reply' # reply, reply'.type = "EOSE", NEW e \in acked
               PROVE  ~Matches(e, reply'.authors)
    OBVIOUS
  <2>1. e \in Stored
    BY <1>3 DEF DurableInv
  <2>2. ASSUME NEW q \in Relays,
               \/ \E f \in Events : ReceiveEvent(q, f)
               \/ Write(q) \/ OpenFails(q) \/ OtherMessage(q)
        PROVE  reply'.authors = {}
    BY <1>3, <2>2 DEF TypeOK, ReceiveEvent, HandleEvent, Write, OpenFails, OtherMessage, Answer, Reply
  <2>3. ASSUME NEW q \in Relays, NEW A \in SUBSET Authors, Request(q, A)
        PROVE  ~Matches(e, reply'.authors)
    <3>1. reply'.authors = A /\ \A f \in Stored : ~Matches(f, A)
      BY <1>3, <2>3 DEF TypeOK, Request, Reply
    <3> QED BY <2>1, <3>1
  <2> QED BY <1>3, <2>2, <2>3
          DEF Next, vars, Matches, StartWss, StartHttp, AppendRead, BeginAppend, OpenTruncate, Crash
<1>4. TypeOK /\ DurableInv /\ [Next]_vars => [Honest]_vars
  BY <1>3
<1> QED BY <1>1, <1>2, <1>4, PTL DEF Spec, EoseMeansNothingStored

(* An append that ends with nobody writing in between leaves in the file   *)
(* what its relay remembers and what the file held when it was read.       *)
THEOREM Heals == Spec => AppendHeals
<1>1. Init => TypeOK /\ ProcessInv
  BY InitTypeOK DEF Init, ProcessInv
<1>2. TypeOK /\ ProcessInv /\ [Next]_vars => (TypeOK /\ ProcessInv)'
  BY NextTypeOK, NextProcessInv
<1> DEFINE Healed ==
      \A p \in Relays :
        (pc[p] = "write" /\ pc'[p] = "idle" /\ file.state = "empty")
          => Range(mem[p]) \cup Range(buf[p]) \subseteq Range(file'.events)
<1>3. ASSUME TypeOK, ProcessInv, [Next]_vars PROVE [Healed]_vars
  <2> SUFFICES ASSUME NEW p \in Relays, pc[p] = "write", pc'[p] = "idle",
                      file.state = "empty", Next
               PROVE  Range(mem[p]) \cup Range(buf[p]) \subseteq Range(file'.events)
    BY <1>3 DEF vars
  <2>1. Range(mem[p]) \subseteq Range(buf[p])
    BY <1>3 DEF ProcessInv
  <2>2. Write(p)
    BY <1>3 DEF Next, TypeOK, StartWss, StartHttp, ReceiveEvent, HandleEvent,
                AppendRead, BeginAppend, OpenTruncate, Write, OpenFails, Answer,
                Request, OtherMessage, Crash
  <2>3. file'.events = buf[p]
    BY <2>2 DEF Write, Written
  <2> QED BY <2>1, <2>3
<1>4. TypeOK /\ ProcessInv /\ [Next]_vars => [Healed]_vars
  BY <1>3
<1> QED BY <1>1, <1>2, <1>4, PTL DEF Spec, AppendHeals

(* Without crashes an answered event stays in the memory of a relay, even  *)
(* when overlapping appends, a wipe or a failed open took it from the file.*)
THEOREM Remembered == Spec => []AnsweredEventsAreRemembered
<1> DEFINE Inv == TypeOK /\ ProcessInv /\ AnsweredEventsAreRemembered
<1>1. Init => Inv
  BY InitTypeOK DEF Init, ProcessInv, AnsweredEventsAreRemembered
<1>2. ASSUME Inv, [Next]_vars PROVE AnsweredEventsAreRemembered'
  <2> SUFFICES ASSUME doors' \cap {"stop", "cut"} = {}, NEW e \in acked'
               PROVE  \E r \in Relays : e \in Range(mem'[r])
    BY DEF AnsweredEventsAreRemembered
  <2> USE <1>2 DEF TypeOK
  <2>1. e \in acked => doors \cap {"stop", "cut"} = {}
    BY DEF Next, vars, StartWss, StartHttp, ReceiveEvent, HandleEvent, AppendRead, BeginAppend,
           OpenTruncate, Write, OpenFails, Request, OtherMessage, Crash
  <2>2. e \in acked => \E r \in Relays : e \in Range(mem[r])
    BY <2>1 DEF AnsweredEventsAreRemembered
  <2>3. CASE mem' = mem /\ acked' = acked
    BY <2>2, <2>3
  <2>4. ASSUME NEW p \in Relays, StartWss(p) \/ StartHttp(p)
        PROVE  \E r \in Relays : e \in Range(mem'[r])
    <3>1. Range(mem[p]) = {}
      BY <2>4, RangeEmpty DEF StartWss, StartHttp, ProcessInv
    <3>2. acked' = acked /\ \A r \in Relays \ {p} : mem'[r] = mem[r]
      BY <2>4 DEF StartWss, StartHttp
    <3> QED BY <2>2, <3>1, <3>2
  <2>5. ASSUME NEW p \in Relays, NEW f \in Events, ReceiveEvent(p, f)
        PROVE  \E r \in Relays : e \in Range(mem'[r])
    <3>1. Range(mem[p]) \subseteq Range(Append(mem[p], f))
      BY RangeAppend
    <3>2. acked' = acked /\ \A r \in Relays : Range(mem[r]) \subseteq Range(mem'[r])
      BY <2>5, <3>1 DEF ReceiveEvent, HandleEvent
    <3> QED BY <2>2, <3>2
  <2>6. ASSUME NEW p \in Relays, Write(p) \/ OpenFails(p)
        PROVE  \E r \in Relays : e \in Range(mem'[r])
    <3>1. mem' = mem
      BY <2>6 DEF Write, OpenFails
    <3>2. CASE e \in acked
      BY <2>2, <3>1, <3>2
    <3>3. CASE e \notin acked
      <4>1. e = mem[p][Len(mem[p])] /\ pc[p] \in {"open", "write"}
        BY <2>6, <3>3 DEF Write, OpenFails, Answer
      <4>2. mem[p] \in Seq(Events) /\ mem[p] # << >>
        BY <4>1 DEF ProcessInv
      <4> QED BY <3>1, <4>1, <4>2, RangeLast
    <3> QED BY <3>2, <3>3
  <2>7. ASSUME NEW p \in Relays, Crash(p) PROVE FALSE
    BY <2>7 DEF Crash
  <2>8. ASSUME NEW p \in Relays,
               \/ AppendRead(p) \/ OpenTruncate(p) \/ OtherMessage(p)
               \/ \E A \in SUBSET Authors : Request(p, A)
        PROVE  mem' = mem /\ acked' = acked
    BY <2>8 DEF AppendRead, BeginAppend, OpenTruncate, OtherMessage, Request
  <2> QED BY <2>3, <2>4, <2>5, <2>6, <2>7, <2>8 DEF Next, vars
<1>3. Inv /\ [Next]_vars => Inv'
  BY <1>2, NextTypeOK, NextProcessInv
<1> QED BY <1>1, <1>3, PTL DEF Spec

(* The archive holds events.                                             *)
LEMMA HeldType == TypeOK => Held \in SUBSET Events
<1> SUFFICES ASSUME TypeOK, NEW p \in Relays PROVE Range(buf[p]) \subseteq Events
  BY ReadType DEF Held
<1> QED BY RangeType DEF TypeOK

(* The database implements the archive that only grows and holds an event  *)
(* before its publisher is answered: initial states map to initial states, *)
(* and every step of a relay to an archive step or to none.                *)
THEOREM StoreImplementsArchive == Spec => ImplementsArchive
<1> DEFINE Inv == TypeOK /\ ProcessInv /\ DurableInv
<1>1. Init => Inv
  BY InitTypeOK, InitDurableInv DEF Init, ProcessInv
<1>2. Inv /\ [Next]_vars => Inv'
  BY NextTypeOK, NextProcessInv, NextDurableInv
<1>3. Init => Archive!Init
  <2> SUFFICES ASSUME Init PROVE Archive!Init
    OBVIOUS
  <2>1. Stored = {} /\ {q \in Relays : pc[q] = "write"} = {}
    BY RangeEmpty DEF Init, Stored, Read
  <2> QED BY <2>1 DEF Init, Archive!Init, Held, Undamaged
<1>4. (TypeOK => Held \in SUBSET Events)'
  BY HeldType, PTL
<1>5. ASSUME Inv, Inv', [Next]_vars PROVE [Archive!Next]_(Archive!avars)
  <2>1. acked \subseteq acked' /\ doors \subseteq doors'
    BY <1>5 DEF Next, vars, StartWss, StartHttp, ReceiveEvent, HandleEvent, AppendRead, BeginAppend, Answer,
                OpenTruncate, Write, OpenFails, Request, OtherMessage, Crash
  <2>2. Held' \in SUBSET Events /\ acked' \in SUBSET Events
    BY <1>4, <1>5 DEF TypeOK
  <2>3. CASE ~Undamaged'
    BY <2>1, <2>2, <2>3 DEF Archive!Next, Archive!Damage
  <2>4. CASE Undamaged'
    <3>0. Undamaged
      BY <2>1, <2>4 DEF Undamaged
    <3>1. CASE /\ acked' = acked
               /\ Stored' = Stored
               /\ \A q \in Relays : /\ pc'[q] = "write" <=> pc[q] = "write"
                                    /\ pc[q] = "write" => buf'[q] = buf[q]
      <4>1. Held' = Held
        BY <3>1 DEF Held
      <4> QED BY <2>4, <3>0, <3>1, <4>1 DEF Archive!avars
    <3>2. ASSUME NEW p \in Relays, OpenTruncate(p) PROVE Archive!Record
      <4>1. pc[p] = "open" /\ pc'[p] = "write" /\ buf' = buf /\ acked' = acked
        BY <1>5, <2>4, <3>2 DEF OpenTruncate, Undamaged, TypeOK
      <4>2. Stored \subseteq Range(buf[p]) /\ \A q \in Relays : pc[q] # "write"
        BY <1>5, <3>0, <4>1 DEF DurableInv, InAppend
      <4>3. Held \subseteq Held'
        BY <4>1, <4>2 DEF Held
      <4> QED BY <2>2, <2>4, <3>0, <4>1, <4>3 DEF Archive!Record
    <3>3. ASSUME NEW p \in Relays, Write(p) PROVE Archive!Confirm
      <4>1. pc[p] = "write" /\ file.state = "empty"
        BY <1>5, <3>0, <3>3 DEF Write, DurableInv
      <4>2. Stored = {} /\ Stored' = Range(buf[p])
        BY <3>3, <4>1, RangeEmpty DEF Write, Written, Stored, Read
      <4>3. \A q \in Relays : pc[q] = "write" => q = p
        BY <1>5, <3>0, <4>1 DEF DurableInv, InAppend
      <4>4. \A q \in Relays : pc'[q] # "write"
        BY <1>5, <3>3, <4>1, <4>3 DEF Write, Answer, TypeOK
      <4>5. Held' = Held
        BY <4>1, <4>2, <4>3, <4>4 DEF Held
      <4>6. acked' = acked \cup {mem[p][Len(mem[p])]}
        BY <3>3, <4>1 DEF Write, Answer
      <4>7. mem[p][Len(mem[p])] \in Held
        <5>1. /\ mem[p] \in Seq(Events) /\ mem[p] # << >>
              /\ Range(mem[p]) \subseteq Range(buf[p])
          BY <1>5, <4>1 DEF TypeOK, ProcessInv
        <5>2. mem[p][Len(mem[p])] \in Range(buf[p])
          BY <5>1, RangeLast
        <5> QED BY <4>1, <5>2 DEF Held
      <4> QED BY <2>4, <3>0, <4>5, <4>6, <4>7 DEF Archive!Confirm
    <3>4. ASSUME NEW p \in Relays,
                 \/ StartWss(p) \/ StartHttp(p) \/ AppendRead(p) \/ OtherMessage(p)
                 \/ \E e \in Events : ReceiveEvent(p, e)
                 \/ \E A \in SUBSET Authors : Request(p, A)
          PROVE  /\ acked' = acked
                 /\ Stored' = Stored
                 /\ \A q \in Relays : /\ pc'[q] = "write" <=> pc[q] = "write"
                                      /\ pc[q] = "write" => buf'[q] = buf[q]
      BY <1>5, <3>4 DEF TypeOK, StartWss, StartHttp, AppendRead, BeginAppend, OtherMessage,
                        ReceiveEvent, HandleEvent, Request, Stored, Read
    <3>5. ASSUME NEW p \in Relays, OpenFails(p) \/ Crash(p)
          PROVE  /\ acked' = acked
                 /\ Stored' = Stored
                 /\ \A q \in Relays : /\ pc'[q] = "write" <=> pc[q] = "write"
                                      /\ pc[q] = "write" => buf'[q] = buf[q]
      <4>1. pc[p] \notin {"write", "save_write"}
        BY <1>5, <2>4, <3>0, <3>5 DEF OpenFails, Crash, Undamaged, DurableInv
      <4>2. OpenFails(p) => pc[p] = "save_open"
        BY <2>4 DEF OpenFails, Undamaged
      <4> QED BY <1>5, <3>5, <4>1, <4>2
              DEF TypeOK, OpenFails, Crash, Return, Stored, Read
    <3>6. CASE UNCHANGED vars
      BY <3>1, <3>6 DEF vars, Stored, Read
    <3> QED BY <1>5, <3>1, <3>2, <3>3, <3>4, <3>5, <3>6 DEF Next, Archive!Next
  <2> QED BY <2>3, <2>4
<1>6. Inv /\ Inv' /\ [Next]_vars => [Archive!Next]_(Archive!avars)
  BY <1>5
<1> QED BY <1>1, <1>2, <1>3, <1>6, PTL DEF Spec, ImplementsArchive, Archive!Spec
=============================================================================
