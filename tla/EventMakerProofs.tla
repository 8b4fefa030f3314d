-------------------------- MODULE EventMakerProofs --------------------------
(***************************************************************************)
(* What gnostr prints, for any options, keys, texts and buffer sizes.      *)
(***************************************************************************)
EXTENDS EventMaker, TLAPS

Late == {"commit", "mining", "sign", "write"}

(* What the run knows between its steps: the options that exclude each     *)
(* other, and, once the event is made, how it follows from them.           *)
OptionsInv ==
  /\ args.tags # NoTags => "difficulty" \notin args.flags
  /\ pc \in Late \cup {"seckey", "encrypt"} => ev.explicit_tags = args.tags
  /\ out # {} => pc \in Ends

EventInv ==
  /\ pc \in Late => ev.pubkey = key
  /\ pc \in {"sign", "write"} => ev.id.of = Commitment(ev) /\ Fits(ev)
  /\ pc = "write" => ev.sig = [by |-> key, of |-> ev.id]

(* The tags asked for are there; while mining, before the nonce tag.       *)
Holds(a, n) == \E i \in 1..n : ev.tags[i] = a
TagsInv ==
  /\ pc \notin Ends => \A a \in asked : Holds(a, Len(ev.tags))
  /\ pc = "mining" => /\ ev.tags # << >>
                      /\ \A a \in asked : Holds(a, Len(ev.tags) - 1)

PowInv ==
  /\ (pc \in Late \cup {"encrypt"} /\ MinesKey /\ args.sec = NoKey)
       => KeyBits[key] >= args.difficulty
  /\ (pc \in {"sign", "write"} /\ MinesId)
       => /\ ev.id.bits >= args.difficulty
          /\ Len(ev.tags) >= 1
          /\ \E n \in Nat : ev.tags[Len(ev.tags)] = <<"nonce", n, args.difficulty>>

DmInv ==
  (pc \in Late /\ "encrypt" \in args.flags)
    => ev.content.to = args.encrypt_to /\ ev.content.by = key

-----------------------------------------------------------------------------
EventType ==
  [id : Ids, pubkey : Keys \cup {NoKey}, sig : [by : Keys \cup {NoKey}, of : Ids],
   content : Contents, created_at : Times \cup {0}, kind : Nat,
   explicit_tags : TagLists \cup {NoTags}, tags : Seq(Tag)]

(* The tags of an event, as text, and the commitment are well typed.       *)
LEMMA CommitmentType ==
  ASSUME NEW e \in EventType, Len(e.tags) <= MaxTags
  PROVE  Tags(e) \in TagTexts /\ Commitment(e) \in Commitments
<1>1. ASSUME NEW s \in Seq(Tag), Len(s) <= MaxTags
      PROVE  s \in UNION {[1..n -> Tag] : n \in 0..MaxTags}
  <2>1. s \in [1..Len(s) -> Tag] /\ Len(s) \in 0..MaxTags
    BY <1>1, MakerAssumption
  <2> QED BY <2>1
<1>2. e.tags \in UNION {[1..n -> Tag] : n \in 0..MaxTags}
  BY <1>1 DEF EventType
<1>3. << >> \in UNION {[1..n -> Tag] : n \in 0..MaxTags}
  <2>1. << >> \in Seq(Tag) /\ Len(<< >>) <= MaxTags
    BY MakerAssumption
  <2> QED BY <1>1, <2>1
<1>4. Tags(e) \in TagTexts
  <2>1. (IF e.explicit_tags = NoTags THEN e.tags ELSE << >>)
          \in UNION {[1..n -> Tag] : n \in 0..MaxTags}
    BY <1>2, <1>3
  <2>2. e.explicit_tags \in TagLists \cup {NoTags}
    BY DEF EventType
  <2> QED BY <2>1, <2>2 DEF Tags, TagTexts
<1>5. (IF e.created_at < TimeLimit THEN e.created_at ELSE ClipTime(e.created_at)) \in Nat
  BY MakerAssumption DEF EventType
<1>6. e.pubkey \in Keys \cup {NoKey} /\ e.kind \in Nat /\ e.content \in Contents
  BY DEF EventType
<1> QED BY <1>4, <1>5, <1>6 DEF Commitment, Commitments

(* Giving an event its id, or a nonce, keeps its type.                     *)
LEMMA WithIdType ==
  ASSUME NEW e \in EventType, Len(e.tags) <= MaxTags, NEW b \in Nat
  PROVE  /\ WithId(e, b) \in EventType
         /\ WithId(e, b).tags = e.tags
         /\ WithId(e, b).id = [of |-> Commitment(e), bits |-> b]
         /\ Commitment(WithId(e, b)) = Commitment(e)
         /\ Fits(WithId(e, b)) <=> Fits(e)
<1>1. [of |-> Commitment(e), bits |-> b] \in Ids
  BY CommitmentType DEF Ids
<1>2. WithId(e, b) \in EventType
  BY <1>1 DEF WithId, EventType
<1>3. /\ WithId(e, b).id = [of |-> Commitment(e), bits |-> b]
      /\ WithId(e, b).pubkey = e.pubkey
      /\ WithId(e, b).content = e.content
      /\ WithId(e, b).created_at = e.created_at
      /\ WithId(e, b).kind = e.kind
      /\ WithId(e, b).explicit_tags = e.explicit_tags
      /\ WithId(e, b).tags = e.tags
  BY DEF WithId, EventType
<1> QED BY <1>2, <1>3 DEF Commitment, Tags, Fits

(* Writing the nonce changes nothing but the last tag.                     *)
LEMMA WithNonceType ==
  ASSUME NEW e \in EventType, e.tags # << >>, nonce \in 0..MaxNonce,
         args.difficulty \in Difficulties \cup {0}
  PROVE  /\ WithNonce(e) \in EventType
         /\ Len(WithNonce(e).tags) = Len(e.tags)
         /\ WithNonce(e).tags[Len(e.tags)] = <<"nonce", nonce, args.difficulty>>
         /\ \A i \in 1..(Len(e.tags) - 1) : WithNonce(e).tags[i] = e.tags[i]
         /\ WithNonce(e).pubkey = e.pubkey
         /\ WithNonce(e).content = e.content
         /\ WithNonce(e).explicit_tags = e.explicit_tags
<1>1. e.tags \in Seq(Tag) /\ Len(e.tags) \in Nat \ {0}
  BY DEF EventType
<1> DEFINE new == <<"nonce", nonce, args.difficulty>>
           tags == [e.tags EXCEPT ![Len(e.tags)] = new]
<1>2. new \in Tag
  BY DEF Tag
<1>3. tags \in Seq(Tag) /\ Len(tags) = Len(e.tags)
  BY <1>1, <1>2
<1>4. /\ tags[Len(e.tags)] = new
      /\ \A i \in 1..(Len(e.tags) - 1) : tags[i] = e.tags[i]
  BY <1>1
<1>5. WithNonce(e) = [e EXCEPT !.tags = tags]
  BY DEF WithNonce
<1> HIDE DEF tags
<1> QED BY <1>3, <1>4, <1>5 DEF EventType

-----------------------------------------------------------------------------
(* The bounds are numbers.                                                 *)
LEMMA Bounds == MaxTags \in Nat /\ MaxNonce \in Nat /\ MaxBits \in Nat
BY MakerAssumption

(* The initial state is well typed.                                        *)
LEMMA InitTypeOK == Init => TypeOK
<1> SUFFICES ASSUME Init PROVE TypeOK
  OBVIOUS
<1>1. ev \in EventType
  <2>1. NoId \in Ids
    BY DEF NoId, Ids
  <2>2. NoSig \in [by : Keys \cup {NoKey}, of : Ids]
    BY <2>1 DEF NoSig
  <2>3. Plain(NoText) \in Contents
    BY MakerAssumption DEF Plain, Contents
  <2> QED BY <2>1, <2>2, <2>3 DEF Init, EventType
<1>2. Len(ev.tags) <= MaxTags
  BY MakerAssumption DEF Init
<1>3. /\ options \in Nat /\ nonce \in 0..MaxNonce
      /\ key \in Keys \cup {NoKey} /\ pc \in Steps
  BY Bounds DEF Init, Steps
<1>5. more \in BOOLEAN
  BY Zenon DEF Init
<1>4. args \in [flags : SUBSET Flags, sec : Keys \cup {NoKey, BadKey},
               tags : TagLists \cup {NoTags}, content : Texts,
               created_at : Times \cup {0}, kind : Nat,
               difficulty : Difficulties \cup {0}, encrypt_to : Keys \cup {NoKey}]
  BY MakerAssumption DEF Init
<1> QED BY <1>1, <1>2, <1>3, <1>4, <1>5 DEF TypeOK, EventType

(* A tag added to an event that has room for it.                           *)
LEMMA AddTagType ==
  ASSUME NEW s \in Seq(Tag), Len(s) + 1 <= MaxTags, NEW t \in Tag
  PROVE  /\ Append(s, t) \in Seq(Tag)
         /\ Len(Append(s, t)) = Len(s) + 1
         /\ Append(s, t)[Len(s) + 1] = t
         /\ \A i \in 1..Len(s) : Append(s, t)[i] = s[i]
         /\ Append(s, t) # << >>
OBVIOUS

ArgsType ==
  [flags : SUBSET Flags, sec : Keys \cup {NoKey, BadKey},
   tags : TagLists \cup {NoTags}, content : Texts,
   created_at : Times \cup {0}, kind : Nat,
   difficulty : Difficulties \cup {0}, encrypt_to : Keys \cup {NoKey}]

(* Reading an option keeps the types, and the event but for its tags.      *)
LEMMA OptionTypeOK ==
  ASSUME TypeOK,
         \/ ReadOption
         \/ \E d \in Difficulties : ReadPow(d)
         \/ \E t \in TagLists : ReadTags(t)
  PROVE  TypeOK' /\ pc = "args" /\ pc' = "args"
         /\ UNCHANGED <<ev, key, nonce, asked, out>>
<1>1. args \in ArgsType /\ options \in Nat
  BY DEF TypeOK, ArgsType
<1>2. args' \in ArgsType /\ more' \in BOOLEAN /\ options' = options + 1
  <2>1. ASSUME NEW s \in Keys \cup {BadKey}, Set([args EXCEPT !.sec = s])
        PROVE  args' \in ArgsType /\ more' \in BOOLEAN /\ options' = options + 1
    BY <1>1, <2>1 DEF Set, Option, ArgsType
  <2>2. ASSUME NEW t \in Times,
               Set([args EXCEPT !.created_at = t, !.flags = @ \cup {"created_at"}])
        PROVE  args' \in ArgsType /\ more' \in BOOLEAN /\ options' = options + 1
    BY <1>1, <2>2 DEF Set, Option, ArgsType, Flags
  <2>3. ASSUME NEW k \in KindNumbers,
               Set([args EXCEPT !.kind = k, !.flags = @ \cup {"kind"}])
        PROVE  args' \in ArgsType /\ more' \in BOOLEAN /\ options' = options + 1
    BY <1>1, <2>3, MakerAssumption DEF Set, Option, ArgsType, Flags
  <2>4. ASSUME NEW t \in Texts, Set([args EXCEPT !.content = t])
        PROVE  args' \in ArgsType /\ more' \in BOOLEAN /\ options' = options + 1
    BY <1>1, <2>4 DEF Set, Option, ArgsType
  <2>5. ASSUME NEW k \in Keys,
               Set([args EXCEPT !.encrypt_to = k, !.flags = @ \cup {"encrypt"}])
        PROVE  args' \in ArgsType /\ more' \in BOOLEAN /\ options' = options + 1
    BY <1>1, <2>5 DEF Set, Option, ArgsType, Flags
  <2>6. ASSUME SetFlag("envelope") \/ SetFlag("mine_pubkey")
        PROVE  args' \in ArgsType /\ more' \in BOOLEAN /\ options' = options + 1
    BY <1>1, <2>6 DEF SetFlag, Option, ArgsType, Flags
  <2>7. ASSUME NEW d \in Difficulties, ReadPow(d)
        PROVE  args' \in ArgsType /\ more' \in BOOLEAN /\ options' = options + 1
    BY <1>1, <2>7 DEF ReadPow, Set, Option, ArgsType, Flags
  <2>8. ASSUME NEW t \in TagLists, ReadTags(t)
        PROVE  args' \in ArgsType /\ more' \in BOOLEAN /\ options' = options + 1
    BY <1>1, <2>8 DEF ReadTags, Set, Option, ArgsType
  <2> QED BY <2>1, <2>2, <2>3, <2>4, <2>5, <2>6, <2>7, <2>8 DEF ReadOption
<1>3. pc = "args" /\ pc' = "args" /\ UNCHANGED <<ev, key, nonce, asked, out>>
  BY DEF ReadOption, ReadPow, ReadTags, Set, SetFlag, Option
<1> QED BY <1>1, <1>2, <1>3 DEF TypeOK, ArgsType

(* The run fails: nothing changes but where it ended.                      *)
LEMMA FailTypeOK ==
  ASSUME TypeOK, NEW end \in Ends, Fail(end), options' \in Nat
  PROVE  TypeOK'
BY DEF TypeOK, Fail

(* Steps that change the event.                                            *)
LEMMA EventTypeOK ==
  ASSUME TypeOK, ev' \in EventType, Len(ev'.tags) <= MaxTags, pc' \in Steps \cup Ends,
         args' = args, more' \in BOOLEAN, options' \in Nat, nonce' \in 0..MaxNonce,
         key' \in Keys \cup {NoKey}
  PROVE  TypeOK'
BY DEF TypeOK, EventType

(* Every step keeps the types; no tag is added without room for it.        *)
LEMMA NextTypeOK ==
  ASSUME TypeOK, TagsInv, [Next]_vars
  PROVE  TypeOK'
<1>1. /\ ev \in EventType /\ ev.tags \in Seq(Tag) /\ Len(ev.tags) <= MaxTags
      /\ args \in ArgsType /\ options \in Nat /\ more \in BOOLEAN
      /\ nonce \in 0..MaxNonce /\ key \in Keys \cup {NoKey} /\ Len(ev.tags) \in Nat
  BY DEF TypeOK, EventType, ArgsType
<1>2. CASE UNCHANGED vars
  BY <1>2 DEF TypeOK, vars
<1>3. CASE \/ ReadOption
           \/ \E d \in Difficulties : ReadPow(d)
           \/ \E t \in TagLists : ReadTags(t)
  BY <1>3, OptionTypeOK
<1>4. ASSUME NEW p \in TagPairs, NEW short \in BOOLEAN, ReadTag(p, short) PROVE TypeOK'
  <2>1. p \in Tag
    BY DEF Tag
  <2>2. ev' \in EventType /\ Len(ev'.tags) <= MaxTags
    BY <1>1, <1>4, <2>1, AddTagType DEF ReadTag, AddTag, EventType
  <2>3. more' \in BOOLEAN
    BY <1>4, Zenon DEF ReadTag
  <2>4. pc' \in Steps /\ args' = args /\ options' \in Nat /\ nonce' = nonce /\ key' = key
    BY <1>1, <1>4 DEF ReadTag, Option, Steps
  <2> QED BY <1>1, <2>2, <2>3, <2>4, EventTypeOK
<1>5. CASE Refuse
  BY <1>1, <1>5, FailTypeOK DEF Refuse, Option, Ends
<1>6. ASSUME NEW now \in Times, EndArgs(now) PROVE TypeOK'
  <2>1. Plain(args.content) \in Contents
    BY <1>1 DEF ArgsType, Plain, Contents
  <2>2. ev' \in EventType /\ ev'.tags = ev.tags
    BY <1>1, <1>6, <2>1 DEF EndArgs, EventType, ArgsType
  <2> QED BY <1>1, <1>6, <2>2, EventTypeOK DEF EndArgs, Steps
<1>7. CASE DecodeKey \/ GenerateKeyFails \/ \E k \in Keys : GenerateKey(k)
  BY <1>1, <1>7, FailTypeOK, EventTypeOK
     DEF DecodeKey, GenerateKeyFails, GenerateKey, Steps, Ends
<1>8. CASE MakeEncryptedDm
  <2> DEFINE t == <<"p", args.encrypt_to>>
  <2>1. t \in Tag
    BY <1>1 DEF Tag, ArgsType
  <2>2. Cipher \in Contents
    BY <1>1 DEF Cipher, Contents, ArgsType
  <2>3. ev' \in EventType /\ Len(ev'.tags) <= MaxTags
    BY <1>1, <1>8, <2>1, <2>2, AddTagType DEF MakeEncryptedDm, Encrypt, EventType, ArgsType
  <2> QED BY <1>1, <1>8, <2>3, EventTypeOK DEF MakeEncryptedDm, Encrypt, Steps
<1>9. CASE EncryptFails \/ SetPubkey
  <2>1. CASE EncryptFails
    BY <1>1, <2>1, FailTypeOK DEF EncryptFails, Ends
  <2>2. CASE SetPubkey
    <3>1. ev' \in EventType /\ ev'.tags = ev.tags
      BY <1>1, <2>2 DEF SetPubkey, EventType
    <3> QED BY <1>1, <2>2, <3>1, EventTypeOK DEF SetPubkey, Steps
  <2> QED BY <1>9, <2>1, <2>2
<1>10. CASE EnsureNonceTag
  <2>1. CASE Fail("abort") \/ Fail("mine")
    BY <1>1, <1>10, <2>1, FailTypeOK DEF EnsureNonceTag, Ends
  <2>2. CASE /\ Len(ev.tags) + 1 <= MaxTags
             /\ ev' = [ev EXCEPT !.tags = Append(@, <<"nonce", 0, args.difficulty>>)]
             /\ pc' = "mining"
             /\ UNCHANGED <<args, more, key, nonce, asked, out>>
    <3>1. <<"nonce", 0, args.difficulty>> \in Tag
      BY <1>1, Bounds DEF Tag, ArgsType
    <3>2. ev' \in EventType /\ Len(ev'.tags) <= MaxTags
      BY <1>1, <2>2, <3>1, AddTagType DEF EventType
    <3> QED BY <1>1, <1>10, <2>2, <3>2, EventTypeOK DEF EnsureNonceTag, Steps
  <2> QED BY <1>10, <2>1, <2>2 DEF EnsureNonceTag
<1>11. ASSUME NEW b \in 0..MaxBits, GenerateEventId(b) PROVE TypeOK'
  <2>0. b \in Nat
    BY Bounds
  <2>1. CASE Fail("id")
    BY <1>1, <1>11, <2>1, FailTypeOK DEF GenerateEventId, Ends
  <2>2. CASE ev' = WithId(ev, b) /\ pc' = "sign" /\ UNCHANGED <<args, more, key, nonce, asked, out>>
    <3>1. ev' \in EventType /\ Len(ev'.tags) <= MaxTags
      BY <1>1, <2>0, <2>2, WithIdType
    <3> QED BY <1>1, <1>11, <2>2, <3>1, EventTypeOK DEF GenerateEventId, Steps
  <2> QED BY <1>11, <2>1, <2>2 DEF GenerateEventId
<1>12. ASSUME NEW b \in 0..MaxBits, MineEvent(b) PROVE TypeOK'
  <2>0. b \in Nat
    BY Bounds
  <2>1. CASE Fail("mine")
    BY <1>1, <1>12, <2>1, FailTypeOK DEF MineEvent, MineRound, Ends
  <2>2. CASE /\ ev' = WithId(WithNonce(ev), b)
             /\ nonce' = nonce + 1
             /\ pc' = IF b >= args.difficulty THEN "sign" ELSE "mining"
             /\ UNCHANGED <<args, more, key, asked, out>>
    <3>1. ev.tags # << >> /\ nonce < MaxNonce /\ options' = options
      BY <1>12 DEF TagsInv, MineEvent, MineRound
    <3>2. WithNonce(ev) \in EventType /\ Len(WithNonce(ev).tags) <= MaxTags
      BY <1>1, <3>1, WithNonceType DEF ArgsType
    <3>3. ev' \in EventType /\ Len(ev'.tags) <= MaxTags
      BY <2>0, <2>2, <3>2, WithIdType
    <3>4. nonce' \in 0..MaxNonce
      BY <1>1, <2>2, <3>1, Bounds
    <3> QED BY <1>1, <2>2, <3>1, <3>3, <3>4, EventTypeOK DEF Steps
  <2> QED BY <1>12, <2>1, <2>2 DEF MineEvent, MineRound
<1>13. CASE SignEvent
  <2>1. CASE Fail("sig")
    BY <1>1, <1>13, <2>1, FailTypeOK DEF SignEvent, Ends
  <2>2. CASE /\ ev' = [ev EXCEPT !.sig = [by |-> key, of |-> ev.id]]
             /\ pc' = "write"
             /\ UNCHANGED <<args, more, key, nonce, asked, out>>
    <3>1. ev' \in EventType /\ ev'.tags = ev.tags
      BY <1>1, <2>2 DEF EventType
    <3> QED BY <1>1, <1>13, <2>2, <3>1, EventTypeOK DEF SignEvent, Steps
  <2> QED BY <1>13, <2>1, <2>2 DEF SignEvent
<1>14. CASE PrintEvent
  BY <1>1, <1>14, EventTypeOK DEF PrintEvent, Ends, Steps
<1> QED BY <1>2, <1>3, <1>4, <1>5, <1>6, <1>7, <1>8, <1>9, <1>10, <1>11, <1>12,
           <1>13, <1>14 DEF Next

-----------------------------------------------------------------------------
(* --tags and --pow exclude each other, and the event keeps --tags' text.  *)
LEMMA NextOptionsInv ==
  ASSUME TypeOK, OptionsInv, [Next]_vars
  PROVE  OptionsInv'
<1>1. ev \in EventType /\ args \in ArgsType
  BY DEF TypeOK, EventType, ArgsType
<1>2. (args.tags # NoTags => "difficulty" \notin args.flags)'
  <2>1. CASE args' = args
    BY <2>1 DEF OptionsInv
  <2>2. CASE ReadOption
    <3> DEFINE Kept == args'.tags = args.tags
                       /\ ("difficulty" \in args'.flags => "difficulty" \in args.flags)
    <3>1. ASSUME NEW t \in Keys \cup {BadKey}, Set([args EXCEPT !.sec = t]) PROVE Kept
      BY <1>1, <3>1 DEF Set, ArgsType
    <3>2. ASSUME NEW t \in Texts, Set([args EXCEPT !.content = t]) PROVE Kept
      BY <1>1, <3>2 DEF Set, ArgsType
    <3>3. ASSUME NEW t \in Times,
                 Set([args EXCEPT !.created_at = t, !.flags = @ \cup {"created_at"}])
          PROVE  Kept
      BY <1>1, <3>3 DEF Set, ArgsType
    <3>4. ASSUME NEW k \in KindNumbers,
                 Set([args EXCEPT !.kind = k, !.flags = @ \cup {"kind"}])
          PROVE  Kept
      BY <1>1, <3>4 DEF Set, ArgsType
    <3>5. ASSUME NEW k \in Keys,
                 Set([args EXCEPT !.encrypt_to = k, !.flags = @ \cup {"encrypt"}])
          PROVE  Kept
      BY <1>1, <3>5 DEF Set, ArgsType
    <3>6. ASSUME SetFlag("envelope") \/ SetFlag("mine_pubkey") PROVE Kept
      BY <1>1, <3>6 DEF SetFlag, ArgsType
    <3>7. Kept
      BY <2>2, <3>1, <3>2, <3>3, <3>4, <3>5, <3>6 DEF ReadOption
    <3> QED BY <3>7 DEF OptionsInv
  <2>3. CASE \E d \in Difficulties : ReadPow(d)
    BY <1>1, <2>3 DEF OptionsInv, ReadPow, Set, ArgsType
  <2>4. CASE \E t \in TagLists : ReadTags(t)
    BY <1>1, <2>4 DEF OptionsInv, ReadTags, Set, ArgsType
  <2> QED BY <2>1, <2>2, <2>3, <2>4 DEF Next, vars, ReadTag, Refuse, EndArgs, DecodeKey,
       GenerateKey, GenerateKeyFails, MakeEncryptedDm, Encrypt, EncryptFails, SetPubkey,
       EnsureNonceTag, GenerateEventId, MineEvent, MineRound, SignEvent, PrintEvent, Fail
<1>3. CASE UNCHANGED vars
  BY <1>2, <1>3 DEF OptionsInv, vars
<1>4. CASE \/ ReadOption
           \/ \E d \in Difficulties : ReadPow(d)
           \/ \E t \in TagLists : ReadTags(t)
  BY <1>2, <1>4, OptionTypeOK DEF OptionsInv, Late, Ends
<1>5. CASE \E p \in TagPairs, short \in BOOLEAN : ReadTag(p, short)
  BY <1>2, <1>5 DEF OptionsInv, ReadTag, Option, Late, Ends
<1>6. CASE Refuse
  BY <1>2, <1>6 DEF OptionsInv, Refuse, Fail, Option, Late, Ends
<1>7. CASE \E now \in Times : EndArgs(now)
  BY <1>1, <1>2, <1>7 DEF OptionsInv, EndArgs, EventType, Ends
<1>8. CASE DecodeKey \/ GenerateKeyFails \/ \E k \in Keys : GenerateKey(k)
  BY <1>2, <1>8 DEF OptionsInv, DecodeKey, GenerateKeyFails, GenerateKey, Fail, Late, Ends
<1>9. CASE MakeEncryptedDm \/ EncryptFails \/ SetPubkey
  BY <1>1, <1>2, <1>9 DEF OptionsInv, MakeEncryptedDm, Encrypt, EncryptFails, SetPubkey,
                         Fail, EventType, Late, Ends
<1>10. CASE EnsureNonceTag
  BY <1>1, <1>2, <1>10 DEF OptionsInv, EnsureNonceTag, Fail, EventType, Late, Ends
<1>11. CASE \E b \in 0..MaxBits : GenerateEventId(b)
  BY <1>1, <1>2, <1>11 DEF OptionsInv, GenerateEventId, WithId, Fail, EventType, Late, Ends
<1>12. CASE \E b \in 0..MaxBits : MineEvent(b)
  BY <1>1, <1>2, <1>12 DEF OptionsInv, MineEvent, MineRound, WithId, WithNonce, Fail,
                          EventType, Late, Ends
<1>13. CASE SignEvent
  BY <1>1, <1>2, <1>13 DEF OptionsInv, SignEvent, Fail, EventType, Late, Ends
<1>14. CASE PrintEvent
  BY <1>2, <1>14 DEF OptionsInv, PrintEvent, Late, Ends
<1> QED BY <1>3, <1>4, <1>5, <1>6, <1>7, <1>8, <1>9, <1>10, <1>11, <1>12,
           <1>13, <1>14 DEF Next

(* The steps before the event is committed to.                             *)
Early ==
  \/ ReadOption
  \/ \E d \in Difficulties : ReadPow(d)
  \/ \E t \in TagLists : ReadTags(t)
  \/ \E p \in TagPairs, short \in BOOLEAN : ReadTag(p, short)
  \/ Refuse
  \/ \E now \in Times : EndArgs(now)
  \/ DecodeKey \/ GenerateKeyFails \/ \E k \in Keys : GenerateKey(k)
  \/ EncryptFails

(* They do not get as far as that.                                         *)
LEMMA EarlySteps ==
  ASSUME TypeOK, Early
  PROVE  pc' \in {"args", "seckey", "encrypt"} \cup Ends
BY OptionTypeOK
   DEF Early, ReadTag, Option, Refuse, Fail, EndArgs, DecodeKey, GenerateKeyFails,
       GenerateKey, EncryptFails, Ends

(* The id is the hash of the event that is signed and printed.             *)
LEMMA NextEventInv ==
  ASSUME TypeOK, TagsInv, EventInv, [Next]_vars
  PROVE  EventInv'
<1>1. /\ ev \in EventType /\ Len(ev.tags) <= MaxTags /\ args \in ArgsType
      /\ nonce \in 0..MaxNonce
  BY DEF TypeOK, EventType, ArgsType
<1>2. CASE UNCHANGED vars
  BY <1>2 DEF EventInv, vars, Commitment, Tags, Fits
<1>3. CASE Early
  BY <1>3, EarlySteps DEF EventInv, Late, Ends
<1>4. CASE MakeEncryptedDm \/ SetPubkey
  BY <1>1, <1>4 DEF EventInv, MakeEncryptedDm, Encrypt, SetPubkey, EventType, Late
<1>5. CASE EnsureNonceTag
  BY <1>1, <1>5 DEF EventInv, EnsureNonceTag, Fail, EventType, Late, Ends
<1>6. ASSUME NEW b \in 0..MaxBits, GenerateEventId(b) PROVE EventInv'
  <2>1. CASE Fail("id")
    BY <2>1 DEF EventInv, Fail, Late
  <2>2. CASE Fits(ev) /\ ev' = WithId(ev, b) /\ pc' = "sign" /\ key' = key
    <3>1. b \in Nat
      BY Bounds
    <3>2. ev'.id.of = Commitment(ev') /\ Fits(ev')
      <4>1. /\ WithId(ev, b).id = [of |-> Commitment(ev), bits |-> b]
            /\ Commitment(WithId(ev, b)) = Commitment(ev)
            /\ Fits(WithId(ev, b)) <=> Fits(ev)
        BY <1>1, <3>1, WithIdType
      <4>2. WithId(ev, b).id.of = Commitment(ev)
        BY <4>1
      <4> QED BY <2>2, <4>1, <4>2, Zenon
    <3>3. ev'.pubkey = key'
      BY <1>1, <1>6, <2>2 DEF EventInv, GenerateEventId, WithId, EventType, Late
    <3>4. Commitment(ev)' = Commitment(ev') /\ (Fits(ev)' <=> Fits(ev'))
      BY DEF Commitment, Fits, Tags
    <3> QED BY <2>2, <3>2, <3>3, <3>4 DEF EventInv
  <2> QED BY <1>6, <2>1, <2>2 DEF GenerateEventId
<1>7. ASSUME NEW b \in 0..MaxBits, MineEvent(b) PROVE EventInv'
  <2>1. CASE Fail("mine")
    BY <2>1 DEF EventInv, Fail, Late
  <2>2. CASE /\ Fits(WithNonce(ev)) /\ ev' = WithId(WithNonce(ev), b) /\ key' = key
             /\ pc' \in {"sign", "mining"}
    <3>1. b \in Nat
      BY Bounds
    <3>2. /\ WithNonce(ev) \in EventType /\ Len(WithNonce(ev).tags) <= MaxTags
          /\ WithNonce(ev).pubkey = ev.pubkey
      BY <1>1, <1>7, WithNonceType DEF TagsInv, MineEvent, MineRound, ArgsType
    <3>3. ev'.id.of = Commitment(ev') /\ Fits(ev')
      <4> DEFINE e == WithNonce(ev)
      <4>1. /\ WithId(e, b).id = [of |-> Commitment(e), bits |-> b]
            /\ Commitment(WithId(e, b)) = Commitment(e)
            /\ Fits(WithId(e, b)) <=> Fits(e)
        BY <3>1, <3>2, WithIdType
      <4>2. WithId(e, b).id.of = Commitment(e)
        BY <4>1
      <4> QED BY <2>2, <4>1, <4>2, Zenon
    <3>4. ev'.pubkey = key'
      BY <1>7, <2>2, <3>2 DEF EventInv, MineEvent, MineRound, WithId, EventType, Late
    <3>5. Commitment(ev)' = Commitment(ev') /\ (Fits(ev)' <=> Fits(ev'))
      BY DEF Commitment, Fits, Tags
    <3> QED BY <2>2, <3>3, <3>4, <3>5 DEF EventInv
  <2> QED BY <1>7, <2>1, <2>2 DEF MineEvent, MineRound
<1>8. CASE SignEvent
  <2>1. CASE Fail("sig")
    BY <2>1 DEF EventInv, Fail, Late
  <2>2. CASE ev' = [ev EXCEPT !.sig = [by |-> key, of |-> ev.id]] /\ pc' = "write" /\ key' = key
    <3>1. /\ ev'.id = ev.id /\ ev'.pubkey = ev.pubkey /\ ev'.kind = ev.kind
          /\ ev'.content = ev.content /\ ev'.created_at = ev.created_at
          /\ ev'.explicit_tags = ev.explicit_tags /\ ev'.tags = ev.tags
          /\ ev'.sig = [by |-> key, of |-> ev.id]
      BY <1>1, <2>2 DEF EventType
    <3>2. Commitment(ev)' = Commitment(ev) /\ (Fits(ev)' <=> Fits(ev))
      BY <3>1 DEF Commitment, Fits, Tags
    <3> QED BY <1>8, <2>2, <3>1, <3>2 DEF EventInv, SignEvent, Late
  <2> QED BY <1>8, <2>1, <2>2 DEF SignEvent
<1>9. CASE PrintEvent
  BY <1>9 DEF EventInv, PrintEvent, Late
<1> QED BY <1>2, <1>3, <1>4, <1>5, <1>6, <1>7, <1>8, <1>9 DEF Next, Early

(* A tag appended to the event is found there, with the ones before it.    *)
LEMMA HoldsAppend ==
  ASSUME TypeOK, Len(ev.tags) + 1 <= MaxTags, NEW t \in Tag,
         ev'.tags = Append(ev.tags, t), asked' \subseteq asked \cup {t},
         \A a \in asked : Holds(a, Len(ev.tags))
  PROVE  \A a \in asked' : Holds(a, Len(ev.tags))'
<1>1. ev.tags \in Seq(Tag) /\ Len(ev.tags) \in Nat
  BY DEF TypeOK
<1>2. /\ Len(ev'.tags) = Len(ev.tags) + 1
      /\ ev'.tags[Len(ev.tags) + 1] = t
      /\ \A i \in 1..Len(ev.tags) : ev'.tags[i] = ev.tags[i]
  BY <1>1, AddTagType
<1>3. ASSUME NEW a \in asked' PROVE \E i \in 1..Len(ev'.tags) : ev'.tags[i] = a
  <2>1. CASE a = t
    BY <1>1, <1>2, <2>1
  <2>2. CASE a \in asked
    <3>1. PICK i \in 1..Len(ev.tags) : ev.tags[i] = a
      BY <2>2 DEF Holds
    <3> QED BY <1>1, <1>2, <3>1
  <2> QED BY <2>1, <2>2
<1> QED BY <1>3 DEF Holds

(* No tag that was asked for is lost on the way.                           *)
LEMMA NextTagsInv ==
  ASSUME TypeOK, TagsInv, [Next]_vars
  PROVE  TagsInv'
<1>1. /\ ev \in EventType /\ ev.tags \in Seq(Tag) /\ Len(ev.tags) \in Nat
      /\ args \in ArgsType /\ nonce \in 0..MaxNonce /\ Len(ev.tags) <= MaxTags
  BY DEF TypeOK, EventType, ArgsType
<1>2. CASE UNCHANGED vars
  BY <1>2 DEF TagsInv, Holds, vars
<1>3. ASSUME pc \notin Ends, pc' # "mining", ev'.tags = ev.tags, asked' = asked PROVE TagsInv'
  BY <1>3 DEF TagsInv, Holds
<1>4. ASSUME pc' \in Ends PROVE TagsInv'
  BY <1>4 DEF TagsInv, Ends
<1>5. CASE \/ ReadOption
           \/ \E d \in Difficulties : ReadPow(d)
           \/ \E t \in TagLists : ReadTags(t)
  BY <1>3, <1>5, OptionTypeOK DEF Ends
<1>6. ASSUME NEW p \in TagPairs, NEW short \in BOOLEAN, ReadTag(p, short) PROVE TagsInv'
  <2>1. p \in Tag
    BY DEF Tag
  <2>2. /\ Len(ev.tags) + 1 <= MaxTags /\ ev'.tags = Append(ev.tags, p)
        /\ asked' = asked \cup {p} /\ pc = "args" /\ pc' = "args"
    BY <1>1, <1>6 DEF ReadTag, AddTag, Option, EventType
  <2>3. \A a \in asked : Holds(a, Len(ev.tags))
    BY <2>2 DEF TagsInv, Ends
  <2> QED BY <2>1, <2>2, <2>3, HoldsAppend DEF TagsInv
<1>7. CASE Refuse
  BY <1>4, <1>7 DEF Refuse, Fail, Ends
<1>8. CASE \E now \in Times : EndArgs(now)
  BY <1>1, <1>3, <1>8 DEF EndArgs, EventType, Ends
<1>9. CASE DecodeKey \/ GenerateKeyFails \/ \E k \in Keys : GenerateKey(k)
  BY <1>3, <1>4, <1>9 DEF DecodeKey, GenerateKeyFails, GenerateKey, Fail, Ends
<1>10. CASE MakeEncryptedDm
  <2> DEFINE t == <<"p", args.encrypt_to>>
  <2>1. t \in Tag
    BY <1>1 DEF Tag, ArgsType
  <2>2. /\ Len(ev.tags) + 1 <= MaxTags /\ ev'.tags = Append(ev.tags, t)
        /\ asked' = asked \cup {t} /\ pc = "encrypt" /\ pc' = "commit"
    BY <1>1, <1>10 DEF MakeEncryptedDm, Encrypt, EventType
  <2>3. \A a \in asked : Holds(a, Len(ev.tags))
    BY <2>2 DEF TagsInv, Ends
  <2> QED BY <2>1, <2>2, <2>3, HoldsAppend DEF TagsInv
<1>11. CASE EncryptFails \/ SetPubkey
  BY <1>1, <1>3, <1>4, <1>11 DEF EncryptFails, SetPubkey, Fail, EventType, Ends
<1>12. CASE EnsureNonceTag
  <2> DEFINE t == <<"nonce", 0, args.difficulty>>
  <2>1. CASE Fail("abort") \/ Fail("mine")
    BY <1>4, <2>1 DEF Fail, Ends
  <2>2. CASE /\ Len(ev.tags) + 1 <= MaxTags
             /\ ev' = [ev EXCEPT !.tags = Append(@, t)]
             /\ pc' = "mining" /\ asked' = asked
    <3>1. t \in Tag
      BY <1>1, Bounds DEF Tag, ArgsType
    <3>2. ev'.tags = Append(ev.tags, t)
      BY <1>1, <2>2 DEF EventType
    <3>3. /\ Len(ev'.tags) = Len(ev.tags) + 1 /\ ev'.tags # << >>
          /\ \A i \in 1..Len(ev.tags) : ev'.tags[i] = ev.tags[i]
      BY <1>1, <2>2, <3>1, <3>2, AddTagType
    <3>4. \A a \in asked : \E i \in 1..Len(ev.tags) : ev.tags[i] = a
      BY <1>12 DEF TagsInv, Holds, EnsureNonceTag, Ends
    <3>5. \A a \in asked' : \E i \in 1..(Len(ev'.tags) - 1) : ev'.tags[i] = a
      BY <1>1, <2>2, <3>3, <3>4
    <3>6. \A a \in asked' : \E i \in 1..Len(ev'.tags) : ev'.tags[i] = a
      BY <1>1, <3>3, <3>5
    <3> QED BY <2>2, <3>3, <3>5, <3>6 DEF TagsInv, Holds
  <2> QED BY <1>12, <2>1, <2>2 DEF EnsureNonceTag
<1>13. CASE \E b \in 0..MaxBits : GenerateEventId(b)
  BY <1>1, <1>3, <1>4, <1>13 DEF GenerateEventId, WithId, Fail, EventType, Ends
<1>14. ASSUME NEW b \in 0..MaxBits, MineEvent(b) PROVE TagsInv'
  <2>1. CASE Fail("mine")
    BY <1>4, <2>1 DEF Fail, Ends
  <2>2. CASE /\ ev' = WithId(WithNonce(ev), b) /\ asked' = asked
             /\ pc' \in {"sign", "mining"}
    <3>1. ev.tags # << >> /\ \A a \in asked : \E i \in 1..(Len(ev.tags) - 1) : ev.tags[i] = a
      BY <1>14 DEF TagsInv, Holds, MineEvent, MineRound
    <3>2. /\ WithNonce(ev) \in EventType
          /\ Len(WithNonce(ev).tags) = Len(ev.tags)
          /\ \A i \in 1..(Len(ev.tags) - 1) : WithNonce(ev).tags[i] = ev.tags[i]
      BY <1>1, <3>1, WithNonceType DEF ArgsType
    <3>3. ev'.tags = WithNonce(ev).tags
      BY <2>2, <3>2 DEF WithId, EventType
    <3>4. \A a \in asked' : \E i \in 1..(Len(ev'.tags) - 1) : ev'.tags[i] = a
      BY <2>2, <3>1, <3>2, <3>3
    <3>5. \A a \in asked' : \E i \in 1..Len(ev'.tags) : ev'.tags[i] = a
      BY <1>1, <3>2, <3>3, <3>4
    <3>6. ev'.tags # << >>
      <4>1. ev'.tags \in Seq(Tag) /\ Len(ev'.tags) > 0
        BY <1>1, <3>1, <3>2, <3>3 DEF EventType
      <4> QED BY <4>1
    <3> QED BY <3>4, <3>5, <3>6 DEF TagsInv, Holds
  <2> QED BY <1>14, <2>1, <2>2 DEF MineEvent, MineRound
<1>15. CASE SignEvent
  BY <1>1, <1>3, <1>4, <1>15 DEF SignEvent, Fail, EventType, Ends
<1>16. CASE PrintEvent
  BY <1>4, <1>16 DEF PrintEvent, Ends
<1> QED BY <1>2, <1>5, <1>6, <1>7, <1>8, <1>9, <1>10, <1>11, <1>12,
           <1>13, <1>14, <1>15, <1>16 DEF Next

(* A direct message is encrypted before it is committed to.                *)
LEMMA NextDmInv ==
  ASSUME TypeOK, TagsInv, EventInv, DmInv, [Next]_vars
  PROVE  DmInv'
<1>1. /\ ev \in EventType /\ args \in ArgsType /\ nonce \in 0..MaxNonce
      /\ Len(ev.tags) <= MaxTags
  BY DEF TypeOK, EventType, ArgsType
<1>2. ASSUME pc \in Late, ev'.content = ev.content, args' = args, key' = key PROVE DmInv'
  BY <1>2 DEF DmInv
<1>3. ASSUME pc' \in Ends \cup {"args", "seckey", "encrypt"} PROVE DmInv'
  BY <1>3 DEF DmInv, Late, Ends
<1>4. CASE UNCHANGED vars
  BY <1>4 DEF DmInv, vars
<1>5. CASE Early
  BY <1>3, <1>5, EarlySteps
<1>6. CASE MakeEncryptedDm
  BY <1>1, <1>6 DEF DmInv, MakeEncryptedDm, Encrypt, Cipher, EventType
<1>7. CASE SetPubkey
  BY <1>7 DEF DmInv, SetPubkey
<1>8. CASE EnsureNonceTag
  BY <1>1, <1>2, <1>3, <1>8 DEF EnsureNonceTag, Fail, EventType, Late, Ends
<1>9. CASE \E b \in 0..MaxBits : GenerateEventId(b)
  BY <1>1, <1>2, <1>3, <1>9 DEF GenerateEventId, WithId, Fail, EventType, Late, Ends
<1>10. CASE \E b \in 0..MaxBits : MineEvent(b)
  BY <1>1, <1>2, <1>3, <1>10
     DEF MineEvent, MineRound, WithId, WithNonce, Fail, EventType, Late, Ends
<1>11. CASE SignEvent
  BY <1>1, <1>2, <1>3, <1>11 DEF SignEvent, Fail, EventType, Late, Ends
<1>12. CASE PrintEvent
  BY <1>3, <1>12 DEF PrintEvent, Ends
<1> QED BY <1>4, <1>5, <1>6, <1>7, <1>8, <1>9, <1>10, <1>11, <1>12 DEF Next, Early

(* The key, or the id, has the bits asked for once it is used.             *)
LEMMA NextPowInv ==
  ASSUME TypeOK, TagsInv, PowInv, [Next]_vars
  PROVE  PowInv'
<1>1. /\ ev \in EventType /\ args \in ArgsType /\ nonce \in 0..MaxNonce
      /\ Len(ev.tags) <= MaxTags /\ args.difficulty \in Nat
  <2>1. /\ ev \in EventType /\ args \in ArgsType /\ nonce \in 0..MaxNonce
        /\ Len(ev.tags) <= MaxTags /\ args.difficulty \in Difficulties \cup {0}
    BY DEF TypeOK, EventType, ArgsType
  <2>2. Difficulties \subseteq Nat
    BY MakerAssumption
  <2>3. args.difficulty \in Nat
    <3>1. CASE args.difficulty = 0
      BY <3>1
    <3>2. CASE args.difficulty \in Difficulties
      BY <2>2, <3>2, Zenon
    <3> QED BY <2>1, <3>1, <3>2, Zenon
  <2> QED BY <2>1, <2>3
<1> DEFINE KeyPart == (pc \in Late \cup {"encrypt"} /\ MinesKey /\ args.sec = NoKey)
                        => KeyBits[key] >= args.difficulty
           IdPart == (pc \in {"sign", "write"} /\ MinesId)
                       => /\ ev.id.bits >= args.difficulty
                          /\ Len(ev.tags) >= 1
                          /\ \E n \in Nat : ev.tags[Len(ev.tags)] = <<"nonce", n, args.difficulty>>
<1>2. KeyPart'
  <2>1. ASSUME pc \in Late \cup {"encrypt"}, key' = key, args' = args PROVE KeyPart'
    BY <2>1 DEF PowInv, MinesKey
  <2>2. ASSUME pc' \in Ends \cup {"args", "seckey"} PROVE KeyPart'
    BY <2>2 DEF Late, Ends
  <2>3. CASE UNCHANGED vars
    BY <2>3 DEF PowInv, vars, MinesKey
  <2>4. CASE \/ ReadOption
             \/ \E d \in Difficulties : ReadPow(d)
             \/ \E t \in TagLists : ReadTags(t)
    BY <2>2, <2>4, OptionTypeOK
  <2>5. CASE \/ \E p \in TagPairs, short \in BOOLEAN : ReadTag(p, short)
             \/ Refuse \/ GenerateKeyFails \/ EncryptFails
             \/ \E now \in Times : EndArgs(now)
    BY <2>2, <2>5 DEF ReadTag, Refuse, GenerateKeyFails, EncryptFails, EndArgs, Option,
                      Fail, Ends
  <2>6. CASE DecodeKey
    BY <2>6 DEF DecodeKey, Fail, Late, Ends
  <2>7. ASSUME NEW k \in Keys, GenerateKey(k) PROVE KeyPart'
    <3>1. KeyBits[k] \in Nat
      BY MakerAssumption
    <3> QED BY <1>1, <2>7, <3>1 DEF GenerateKey, MinesKey, Late
  <2>8. CASE MakeEncryptedDm \/ SetPubkey
    BY <2>1, <2>8 DEF MakeEncryptedDm, Encrypt, SetPubkey
  <2>9. CASE EnsureNonceTag \/ \E b \in 0..MaxBits : GenerateEventId(b) \/ MineEvent(b)
    BY <2>1, <2>2, <2>9 DEF EnsureNonceTag, GenerateEventId, MineEvent, MineRound, Fail,
                            Late, Ends
  <2>10. CASE SignEvent \/ PrintEvent
    BY <2>1, <2>2, <2>10 DEF SignEvent, PrintEvent, Fail, Late, Ends
  <2> QED BY <2>3, <2>4, <2>5, <2>6, <2>7, <2>8, <2>9, <2>10 DEF Next
<1>3. IdPart'
  <2>1. CASE UNCHANGED vars
    BY <2>1 DEF PowInv, vars, MinesId
  <2>2. ASSUME pc' \notin {"sign", "write"} PROVE IdPart'
    BY <2>2
  <2>3. CASE Early
    BY <2>2, <2>3, EarlySteps DEF Ends
  <2>4. CASE MakeEncryptedDm \/ SetPubkey \/ EnsureNonceTag \/ PrintEvent
    BY <2>2, <2>4 DEF MakeEncryptedDm, Encrypt, SetPubkey, EnsureNonceTag, PrintEvent, Fail
  <2>5. CASE \E b \in 0..MaxBits : GenerateEventId(b)
    BY <2>5 DEF GenerateEventId, Fail, MinesId
  <2>6. ASSUME NEW b \in 0..MaxBits, MineEvent(b) PROVE IdPart'
    <3>1. CASE Fail("mine")
      BY <2>2, <3>1 DEF Fail
    <3>2. CASE /\ ev' = WithId(WithNonce(ev), b) /\ args' = args
               /\ pc' = IF b >= args.difficulty THEN "sign" ELSE "mining"
      <4>1. ev.tags # << >> /\ b \in Nat
        BY <2>6, Bounds DEF TagsInv, MineEvent, MineRound
      <4>2. /\ WithNonce(ev) \in EventType
            /\ Len(WithNonce(ev).tags) = Len(ev.tags)
            /\ WithNonce(ev).tags[Len(ev.tags)] = <<"nonce", nonce, args.difficulty>>
        BY <1>1, <4>1, WithNonceType DEF ArgsType
      <4>3. ev'.tags = WithNonce(ev).tags /\ ev'.id.bits = b
        BY <3>2, <4>2 DEF WithId, EventType
      <4>4. Len(ev.tags) >= 1
        BY <1>1, <4>1 DEF EventType
      <4>5. nonce \in Nat
        BY <1>1, Bounds
      <4>6. ev'.tags[Len(ev'.tags)] = <<"nonce", nonce, args'.difficulty>>
        BY <3>2, <4>2, <4>3
      <4>7. Len(ev'.tags) >= 1
        BY <4>2, <4>3, <4>4
      <4> QED BY <3>2, <4>3, <4>5, <4>6, <4>7
    <3> QED BY <2>6, <3>1, <3>2 DEF MineEvent, MineRound
  <2>7. CASE SignEvent
    <3>1. CASE Fail("sig")
      BY <2>2, <3>1 DEF Fail
    <3>2. CASE ev' = [ev EXCEPT !.sig = [by |-> key, of |-> ev.id]] /\ args' = args
      <4>1. ev'.id = ev.id /\ ev'.tags = ev.tags
        BY <1>1, <3>2 DEF EventType
      <4> QED BY <2>7, <3>2, <4>1 DEF PowInv, SignEvent, MinesId
    <3> QED BY <2>7, <3>1, <3>2 DEF SignEvent
  <2> QED BY <2>1, <2>3, <2>4, <2>5, <2>6, <2>7 DEF Next, Early
<1> QED BY <1>2, <1>3 DEF PowInv

-----------------------------------------------------------------------------
MakerInv == TypeOK /\ OptionsInv /\ EventInv /\ TagsInv /\ PowInv /\ DmInv

(* The invariant holds at the start and every step keeps it.               *)
LEMMA MakerInvariant == Spec => []MakerInv
<1>1. Init => MakerInv
  <2> SUFFICES ASSUME Init PROVE MakerInv
    OBVIOUS
  <2>1. TypeOK
    BY InitTypeOK
  <2>2. pc = "args" /\ args.tags = NoTags /\ out = {} /\ asked = {}
    BY DEF Init
  <2>3. OptionsInv /\ EventInv /\ PowInv /\ DmInv
    BY <2>2 DEF OptionsInv, EventInv, PowInv, DmInv, Late
  <2>4. TagsInv
    BY <2>2 DEF TagsInv
  <2> QED BY <2>1, <2>3, <2>4 DEF MakerInv
<1>2. MakerInv /\ [Next]_vars => MakerInv'
  BY NextTypeOK, NextOptionsInv, NextEventInv, NextTagsInv, NextPowInv, NextDmInv DEF MakerInv
<1> QED BY <1>1, <1>2, PTL DEF Spec

(* An event is printed at the end of a run, at most once.                  *)
LEMMA PrintsOnce ==
  ASSUME OptionsInv, [Next]_vars
  PROVE  \/ UNCHANGED <<out, args, asked>>
         \/ out' = {}
         \/ /\ PrintEvent
            /\ out' = {Printed(ev)}
<1>1. CASE UNCHANGED vars
  BY <1>1 DEF vars
<1>2. CASE Next /\ ~PrintEvent
  <2>1. pc \notin Ends /\ out' = out
    BY <1>2 DEF Next, ReadOption, Set, SetFlag, Option, ReadPow, ReadTags, ReadTag, Refuse,
         EndArgs, DecodeKey, GenerateKey, GenerateKeyFails, MakeEncryptedDm, Encrypt,
         EncryptFails, SetPubkey, EnsureNonceTag, GenerateEventId, MineEvent, MineRound,
         SignEvent, Fail, Ends
  <2> QED BY <2>1 DEF OptionsInv
<1>3. CASE PrintEvent
  <2>1. out = {}
    BY <1>3 DEF OptionsInv, PrintEvent, Ends
  <2> QED BY <1>3, <2>1 DEF PrintEvent
<1> QED BY <1>1, <1>2, <1>3

(* gnostr keeps its options, event and key well formed, and never holds    *)
(* more tags than struct nostr_event has room for.                         *)
THEOREM MakerTypes == Spec => []TypeOK
<1>1. MakerInv => TypeOK
  BY DEF MakerInv
<1> QED BY <1>1, MakerInvariant, PTL

(* What print_event writes verifies: the id is the hash of what is written *)
(* and the signature is over that id, by the key that is written.          *)
THEOREM Verifies == Spec => []PrintedEventsVerify
<1>1. Init => PrintedEventsVerify
  BY DEF Init, PrintedEventsVerify
<1>2. PrintedEventsVerify /\ MakerInv /\ [Next]_vars => PrintedEventsVerify'
  <2> SUFFICES ASSUME PrintedEventsVerify, MakerInv, [Next]_vars
               PROVE  PrintedEventsVerify'
    OBVIOUS
  <2>1. CASE UNCHANGED out \/ out' = {}
    BY <2>1 DEF PrintedEventsVerify
  <2>2. CASE PrintEvent /\ out' = {Printed(ev)}
    <3>1. /\ ev.id.of = Commitment(ev) /\ ev.pubkey = key
          /\ ev.sig = [by |-> key, of |-> ev.id]
      BY <2>2 DEF MakerInv, EventInv, PrintEvent, Late
    <3> QED BY <2>2, <3>1 DEF PrintedEventsVerify, Printed, Commitment
  <2> QED BY <2>1, <2>2, PrintsOnce DEF MakerInv
<1> QED BY <1>1, <1>2, MakerInvariant, PTL DEF Spec

(* What was hashed and signed is printed: an event that fits               *)
(* event_commitment's buffer fits print_event's, which is as large.        *)
THEOREM SignedPrinted == Spec => []SignedIsPrinted
<1>1. Init => SignedIsPrinted
  BY DEF Init, SignedIsPrinted
<1>2. SignedIsPrinted /\ MakerInv /\ [Next]_vars => SignedIsPrinted'
  <2> SUFFICES ASSUME SignedIsPrinted, MakerInv, [Next]_vars
               PROVE  SignedIsPrinted'
    OBVIOUS
  <2>1. ASSUME pc = "write" PROVE TagsFit(ev) /\ Printed(ev).whole
    <3>1. FrameSize + TagsSize(Tags(ev)) + TextSize(ev.content) < BufSize
      BY <2>1 DEF MakerInv, EventInv, Fits
    <3>2. TagsSize(Tags(ev)) \in Nat /\ TextSize(ev.content) \in Nat
      <4>1. ev \in EventType /\ Len(ev.tags) <= MaxTags /\ ev.content \in Contents
        BY DEF MakerInv, TypeOK, EventType
      <4>2. Tags(ev) \in TagTexts
        BY <4>1, CommitmentType
      <4> QED BY <4>1, <4>2, MakerAssumption
    <3>3. FrameSize \in Nat /\ BufSize \in Nat
      BY MakerAssumption
    <3>4. TagsSize(Tags(ev)) < BufSize /\ TextSize(ev.content) <= BufSize
      BY <3>1, <3>2, <3>3
    <3>5. TagsFit(ev)
      BY <3>2, <3>3, <3>4 DEF TagsFit
    <3>6. Printed(ev).whole = (TextSize(ev.content) <= BufSize)
      BY Zenon DEF Printed
    <3> QED BY <3>4, <3>5, <3>6
  <2>2. CASE PrintEvent
    <3>1. pc' # "print" /\ (out' = out \cup {Printed(ev)})
      BY <2>1, <2>2 DEF PrintEvent
    <3> QED BY <2>1, <2>2, <3>1 DEF SignedIsPrinted, PrintEvent
  <2>3. CASE UNCHANGED vars
    BY <2>3 DEF SignedIsPrinted, vars
  <2>4. CASE Next /\ ~PrintEvent
    <3>1. pc' # "print" /\ out' = out
      <4>1. CASE \/ ReadOption
                 \/ \E d \in Difficulties : ReadPow(d)
                 \/ \E t \in TagLists : ReadTags(t)
        BY <4>1, OptionTypeOK DEF MakerInv
      <4> QED BY <2>4, <4>1 DEF Next, ReadTag, Option, Refuse,
           EndArgs, DecodeKey, GenerateKey, GenerateKeyFails, MakeEncryptedDm, Encrypt,
           EncryptFails, SetPubkey, EnsureNonceTag, GenerateEventId, MineEvent, MineRound,
           SignEvent, Fail
    <3> QED BY <3>1 DEF SignedIsPrinted
  <2> QED BY <2>2, <2>3, <2>4
<1> QED BY <1>1, <1>2, MakerInvariant, PTL DEF Spec

(* A direct message is printed encrypted, by the key printed with it.      *)
THEOREM DmEncrypted == Spec => []DmIsEncrypted
<1>1. Init => DmIsEncrypted
  BY DEF Init, DmIsEncrypted
<1>2. DmIsEncrypted /\ MakerInv /\ [Next]_vars => DmIsEncrypted'
  <2> SUFFICES ASSUME DmIsEncrypted, MakerInv, [Next]_vars
               PROVE  DmIsEncrypted'
    OBVIOUS
  <2>1. CASE UNCHANGED <<out, args>> \/ out' = {}
    BY <2>1 DEF DmIsEncrypted
  <2>2. CASE PrintEvent /\ out' = {Printed(ev)}
    BY <2>2 DEF DmIsEncrypted, MakerInv, DmInv, EventInv, Printed, PrintEvent, Late
  <2> QED BY <2>1, <2>2, PrintsOnce DEF MakerInv
<1> QED BY <1>1, <1>2, MakerInvariant, PTL DEF Spec

(* The tags asked for are in the printed event, unless --tags was given:   *)
(* mining only overwrites the tag it added itself.                         *)
THEOREM TagsKept == Spec => []TagsAreKept
<1>1. Init => TagsAreKept
  BY DEF Init, TagsAreKept
<1>2. TagsAreKept /\ MakerInv /\ [Next]_vars => TagsAreKept'
  <2> SUFFICES ASSUME TagsAreKept, MakerInv, [Next]_vars
               PROVE  TagsAreKept'
    OBVIOUS
  <2>1. CASE UNCHANGED <<out, asked>> \/ out' = {}
    BY <2>1 DEF TagsAreKept
  <2>2. CASE PrintEvent /\ out' = {Printed(ev)}
    <3> SUFFICES ASSUME ev.explicit_tags = NoTags
                 PROVE  asked \subseteq Range(ev.tags)
      BY <2>2 DEF TagsAreKept, Printed, Tags, PrintEvent
    <3>1. ev.tags \in Seq(Tag)
      BY DEF MakerInv, TypeOK
    <3>2. \A a \in asked : \E i \in 1..Len(ev.tags) : ev.tags[i] = a
      BY <2>2 DEF MakerInv, TagsInv, Holds, PrintEvent, Ends
    <3>3. DOMAIN ev.tags = 1..Len(ev.tags)
      BY <3>1
    <3> QED BY <3>2, <3>3 DEF Range
  <2> QED BY <2>1, <2>2, PrintsOnce DEF MakerInv
<1> QED BY <1>1, <1>2, MakerInvariant, PTL DEF Spec

(* --pow is honoured, by the id or with --mine-pubkey by the public key.   *)
THEOREM PowIsHonoured == Spec => []PowHonoured
<1>1. Init => PowHonoured
  BY DEF Init, PowHonoured
<1>2. PowHonoured /\ MakerInv /\ [Next]_vars => PowHonoured'
  <2> SUFFICES ASSUME PowHonoured, MakerInv, [Next]_vars
               PROVE  PowHonoured'
    OBVIOUS
  <2>1. CASE UNCHANGED <<out, args>> \/ out' = {}
    BY <2>1 DEF PowHonoured, MinesId, MinesKey
  <2>2. CASE PrintEvent /\ out' = {Printed(ev)}
    <3>1. /\ Printed(ev).id = ev.id /\ Printed(ev).pubkey = ev.pubkey
          /\ Printed(ev).tags.list = IF ev.explicit_tags = NoTags THEN ev.tags ELSE << >>
      BY DEF Printed, Tags
    <3>2. args' = args /\ pc = "write" /\ ev.pubkey = key
      BY <2>2 DEF PrintEvent, MakerInv, EventInv, Late
    <3>3. (MinesKey /\ args.sec = NoKey) => KeyBits[ev.pubkey] >= args.difficulty
      BY <3>2 DEF MakerInv, PowInv, Late
    <3>4. ASSUME MinesId
          PROVE  /\ ev.id.bits >= args.difficulty
                 /\ \E i \in DOMAIN Printed(ev).tags.list :
                      /\ Len(Printed(ev).tags.list[i]) = 3
                      /\ Printed(ev).tags.list[i][1] = "nonce"
                      /\ Printed(ev).tags.list[i][3] = args.difficulty
      <4>1. ev.explicit_tags = NoTags
        BY <3>2, <3>4 DEF MakerInv, OptionsInv, MinesId, Late
      <4>2. /\ ev.id.bits >= args.difficulty /\ Len(ev.tags) >= 1
            /\ \E n \in Nat : ev.tags[Len(ev.tags)] = <<"nonce", n, args.difficulty>>
        BY <3>2, <3>4 DEF MakerInv, PowInv
      <4>3. ev.tags \in Seq(Tag)
        BY DEF MakerInv, TypeOK
      <4>4. Len(ev.tags) \in DOMAIN ev.tags
        BY <4>2, <4>3
      <4>5. /\ Len(ev.tags[Len(ev.tags)]) = 3
            /\ ev.tags[Len(ev.tags)][1] = "nonce"
            /\ ev.tags[Len(ev.tags)][3] = args.difficulty
        BY <4>2
      <4> QED BY <3>1, <4>1, <4>2, <4>4, <4>5
    <3>5. \A o \in {Printed(ev)} :
            /\ MinesId => /\ o.id.bits >= args.difficulty
                          /\ \E i \in DOMAIN o.tags.list :
                               /\ Len(o.tags.list[i]) = 3
                               /\ o.tags.list[i][1] = "nonce"
                               /\ o.tags.list[i][3] = args.difficulty
            /\ (MinesKey /\ args.sec = NoKey) => KeyBits[o.pubkey] >= args.difficulty
      BY <3>1, <3>3, <3>4
    <3>6. (MinesId' <=> MinesId) /\ (MinesKey' <=> MinesKey)
      BY <3>2 DEF MinesId, MinesKey
    <3> QED BY <2>2, <3>2, <3>5, <3>6 DEF PowHonoured
  <2> QED BY <2>1, <2>2, PrintsOnce DEF MakerInv
<1> QED BY <1>1, <1>2, MakerInvariant, PTL DEF Spec
=============================================================================
