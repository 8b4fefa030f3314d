----------------------------- MODULE EventMaker -----------------------------
(***************************************************************************)
(* One run of the command line tool gnostr: it reads its options, gets a   *)
(* key, encrypts a direct message, mines the id, signs and prints.  Each   *)
(* step changes the event the next ones hash, sign and print, and each one *)
(* can end the run.                                                        *)
(*                                                                         *)
(* Hashes and signatures are records of what they were computed from; the  *)
(* number of leading zero bits of a hash is any number.                    *)
(***************************************************************************)
EXTENDS Naturals, Sequences, Functions

CONSTANTS
  Keys,          \* secret keys, each also standing for its public key
  KeyBits,       \* leading zero bits of each public key
  BadKey,        \* an argument of --sec or --dm that is not a key
  NoKey, NoTags, \* "not given"
  TagLists,      \* arguments of --tags
  TagPairs,      \* the arguments of --tag, and what -e, -p and -t stand for
  Texts,         \* contents; NoText is the empty one
  NoText,
  Times,         \* created_at, given or read from the clock: any uint64_t
  KindNumbers,
  Difficulties,
  TimeLimit,     \* the first number that does not fit timebuf: 10^15
  ClipTime(_),   \* what snprintf leaves of a number that does not fit it
  TagsSize(_),   \* length of a tag list, and of a content, as JSON
  TextSize(_),
  FrameSize,     \* length of all the rest of a commitment
  BufSize,       \* size of the commitment and print buffers: 102400
  MaxTags,
  MaxBits,       \* bound: leading zero bits of a hash
  MaxOptions,    \* bound: options on the command line
  MaxNonce       \* bound: nonces tried

(* The tags an event can have, its tags as text, and its contents.         *)
Tag == TagPairs \cup ({"p"} \X (Keys \cup {NoKey}))
                \cup ({"nonce"} \X (0..MaxNonce) \X (Difficulties \cup {0}))
TagTexts == [given : TagLists \cup {NoTags},
             list : UNION {[1..n -> Tag] : n \in 0..MaxTags}]
Contents == [text : Texts, by : Keys \cup {NoKey}, to : Keys \cup {NoKey}]

ASSUME MakerAssumption ==
  /\ KeyBits \in [Keys -> Nat] /\ NoKey \notin Keys /\ BadKey \notin Keys
  /\ NoTags \notin TagLists /\ NoText \in Texts
  /\ \A p \in TagPairs : p = <<p[1], p[2]>>
  /\ Times \subseteq Nat /\ KindNumbers \subseteq Nat /\ Difficulties \subseteq Nat
  /\ 1 \in KindNumbers /\ 4 \in KindNumbers
  /\ \A t \in Times \cup {0} : ClipTime(t) \in Nat
  /\ \A t \in TagTexts : TagsSize(t) \in Nat
  /\ \A c \in Contents : TextSize(c) \in Nat
  /\ TimeLimit \in Nat /\ BufSize \in Nat /\ FrameSize \in Nat \ {0} /\ MaxTags \in Nat
  /\ MaxBits \in Nat /\ MaxOptions \in Nat /\ MaxNonce \in Nat

VARIABLES
  pc,      \* where main is, or how it ended
  args,    \* struct args
  more,    \* the option just read was not the last argument
  options, \* number of options read
  ev,      \* struct nostr_event
  key,     \* struct key
  nonce,   \* the nonce mine_event tries next
  asked,   \* history: tags asked for with --tag, -e, -p, -t and --dm
  out      \* history: the events printed

vars == <<pc, args, more, options, ev, key, nonce, asked, out>>

Flags == {"created_at", "kind", "envelope", "encrypt", "difficulty", "mine_pubkey"}
Ends == {"usage", "key", "dm", "mine", "id", "sig", "print", "done", "abort"}
Steps == {"args", "seckey", "encrypt", "commit", "mining", "sign", "write"}

Plain(t) == [text |-> t, by |-> NoKey, to |-> NoKey]
NoId == [of |-> << >>, bits |-> 0]
NoSig == [by |-> NoKey, of |-> NoId]

(* struct args and struct nostr_event are zeroed.                          *)
Init ==
  /\ pc = "args"
  /\ args = [flags |-> {}, sec |-> NoKey, tags |-> NoTags, content |-> NoText,
             created_at |-> 0, kind |-> 0, difficulty |-> 0, encrypt_to |-> NoKey]
  /\ ev = [id |-> NoId, pubkey |-> NoKey, sig |-> NoSig, content |-> Plain(NoText),
           created_at |-> 0, kind |-> 0, explicit_tags |-> NoTags, tags |-> << >>]
  /\ more = FALSE /\ options = 0
  /\ key = NoKey
  /\ nonce = 0
  /\ asked = {} /\ out = {}

-----------------------------------------------------------------------------
(* parse_args: one option is read.                                         *)
Option ==
  /\ pc = "args"
  /\ options < MaxOptions
  /\ options' = options + 1

(* The run ends: a message on stderr, an exit status, nothing printed.     *)
Fail(end) ==
  /\ pc' = end
  /\ UNCHANGED <<args, more, ev, key, nonce, asked, out>>

(* An option that only sets fields of args.                                *)
Set(a) ==
  /\ Option
  /\ args' = a
  /\ more' = FALSE
  /\ UNCHANGED <<pc, ev, key, nonce, asked, out>>

(* Options that take no argument still need one to follow.                 *)
SetFlag(f) ==
  /\ Option
  /\ args' = [args EXCEPT !.flags = @ \cup {f}]
  /\ more' = TRUE
  /\ UNCHANGED <<pc, ev, key, nonce, asked, out>>

ReadOption ==
  \/ \E s \in Keys \cup {BadKey} : Set([args EXCEPT !.sec = s])
  \/ \E t \in Times : Set([args EXCEPT !.created_at = t, !.flags = @ \cup {"created_at"}])
  \/ \E k \in KindNumbers : Set([args EXCEPT !.kind = k, !.flags = @ \cup {"kind"}])
  \/ \E t \in Texts : Set([args EXCEPT !.content = t])
  \/ \E k \in Keys : Set([args EXCEPT !.encrypt_to = k, !.flags = @ \cup {"encrypt"}])
  \/ SetFlag("envelope") \/ SetFlag("mine_pubkey")

(* --tags and --pow exclude each other, whichever comes first.             *)
ReadPow(d) ==
  /\ args.tags = NoTags
  /\ Set([args EXCEPT !.difficulty = d, !.flags = @ \cup {"difficulty"}])

(* --tags is refused after --pow, --tag, -e, -p and -t.                    *)
ReadTags(t) ==
  /\ "difficulty" \notin args.flags
  /\ asked = {}
  /\ Set([args EXCEPT !.tags = t])

(* Mutant: the room for tags is not checked.                               *)
AddTagAnyway(tag) ==
  /\ ev' = [ev EXCEPT !.tags = Append(@, tag)]
  /\ asked' = asked \cup {tag}

(* nostr_add_tag, with room for the tag.                                   *)
AddTag(tag) ==
  /\ Len(ev.tags) + 1 <= MaxTags
  /\ ev' = [ev EXCEPT !.tags = Append(@, tag)]
  /\ asked' = asked \cup {tag}

(* --tag, refused after --tags, and -e, -p and -t, which are not.          *)
ReadTag(tag, short) ==
  /\ Option
  /\ IF short THEN tag[1] \in {"e", "p", "t"} ELSE args.tags = NoTags
  /\ AddTag(tag)
  /\ more' = FALSE
  /\ UNCHANGED <<pc, args, key, nonce, out>>

(* All the ways to end before an event is made: no arguments, no secp256k1 *)
(* context, a gnostr-<subcommand> that takes over, --help, --hash and the  *)
(* like, and what parse_args refuses: unknown options, missing arguments,  *)
(* --dm without a key, tags that do not go together or are too many, after *)
(* which usage() prints the options and exits, with status 0.              *)
Refuse ==
  /\ pc = "args"
  /\ UNCHANGED options
  /\ Fail("usage")

(* The end of the arguments, and make_event_from_args.                     *)
EndArgs(now) ==
  /\ pc = "args"
  /\ options > 0 /\ ~more
  /\ pc' = "seckey"
  /\ ev' = [ev EXCEPT
       !.explicit_tags = args.tags,
       !.created_at = IF "created_at" \in args.flags THEN args.created_at ELSE now,
       !.content = Plain(args.content),
       !.kind = IF "kind" \in args.flags THEN args.kind ELSE 1]
  /\ UNCHANGED <<args, more, options, key, nonce, asked, out>>

-----------------------------------------------------------------------------
MinesKey == {"difficulty", "mine_pubkey"} \subseteq args.flags
MinesId == "difficulty" \in args.flags /\ "mine_pubkey" \notin args.flags

(* decode_key                                                              *)
DecodeKey ==
  /\ pc = "seckey"
  /\ args.sec # NoKey
  /\ UNCHANGED options
  /\ \/ /\ args.sec \in Keys
        /\ key' = args.sec
        /\ pc' = "encrypt"
        /\ UNCHANGED <<args, more, ev, nonce, asked, out>>
     \/ /\ args.sec \notin Keys
        /\ Fail("key")

(* One round of generate_key: with --pow and --mine-pubkey, a public key   *)
(* with too few bits is mixed into the next secret key.                    *)
GenerateKey(k) ==
  /\ pc = "seckey"
  /\ args.sec = NoKey
  /\ key' = k
  /\ pc' = IF MinesKey /\ KeyBits[k] < args.difficulty THEN "seckey" ELSE "encrypt"
  /\ UNCHANGED <<args, more, options, ev, nonce, asked, out>>

(* The random number generator, or secp256k1, fails.                       *)
GenerateKeyFails ==
  /\ pc = "seckey"
  /\ args.sec = NoKey
  /\ UNCHANGED options
  /\ Fail("key")

(* make_encrypted_dm, given the event's new content and tags; then the     *)
(* event's pubkey is set.                                                  *)
Encrypt(content, tags) ==
  /\ pc = "encrypt"
  /\ "encrypt" \in args.flags
  /\ Len(ev.tags) + 1 <= MaxTags
  /\ ev' = [ev EXCEPT !.content = content, !.pubkey = key, !.tags = tags,
                      !.kind = IF "kind" \in args.flags THEN args.kind ELSE 4]
  /\ asked' = asked \cup {<<"p", args.encrypt_to>>}
  /\ pc' = "commit"
  /\ UNCHANGED <<args, more, options, key, nonce, out>>

Cipher == [text |-> args.content, by |-> key, to |-> args.encrypt_to]

(* Mutants of MakeEncryptedDm: the content stays, the tags are replaced.   *)
DmInTheClear == Encrypt(ev.content, Append(ev.tags, <<"p", args.encrypt_to>>))
DmDropsTags == Encrypt(Cipher, << <<"p", args.encrypt_to>> >>)

MakeEncryptedDm == Encrypt(Cipher, Append(ev.tags, <<"p", args.encrypt_to>>))

(* A key is refused, no random bytes, or no room for the tag: status 0.    *)
EncryptFails ==
  /\ pc = "encrypt"
  /\ "encrypt" \in args.flags
  /\ UNCHANGED options
  /\ Fail("dm")

SetPubkey ==
  /\ pc = "encrypt"
  /\ "encrypt" \notin args.flags
  /\ ev' = [ev EXCEPT !.pubkey = key]
  /\ pc' = "commit"
  /\ UNCHANGED <<args, more, options, key, nonce, asked, out>>

-----------------------------------------------------------------------------
(* cursor_push_tags                                                        *)
Tags(e) ==
  [given |-> e.explicit_tags,
   list  |-> IF e.explicit_tags = NoTags THEN e.tags ELSE << >>]

(* event_commitment: the text an id is the hash of.                        *)
Commitment(e) ==
  [pubkey |-> e.pubkey, kind |-> e.kind, tags |-> Tags(e), content |-> e.content,
   created_at |-> IF e.created_at < TimeLimit THEN e.created_at ELSE ClipTime(e.created_at)]

(* Mutant: only the tags are checked against the buffer.                   *)
TagsOnlyFit(e) == FrameSize + TagsSize(Tags(e)) < BufSize

(* The last byte of the buffer stays free: cursor_push wants p + len < end.*)
Fits(e) == FrameSize + TagsSize(Tags(e)) + TextSize(e.content) < BufSize

(* generate_event_id, of an event that fits.                               *)
WithId(e, b) == [e EXCEPT !.id = [of |-> Commitment(e), bits |-> b]]

GenerateEventId(b) ==
  /\ pc = "commit"
  /\ ~MinesId
  /\ UNCHANGED options
  /\ \/ /\ Fits(ev)
        /\ ev' = WithId(ev, b)
        /\ pc' = "sign"
        /\ UNCHANGED <<args, more, key, nonce, asked, out>>
     \/ /\ ~Fits(ev)
        /\ Fail("id")

(* ensure_nonce_tag takes a tag of two strings for a nonce tag, mine_event *)
(* asserts that it has three.                                              *)
EnsureNonceTag ==
  LET given == \E i \in DOMAIN ev.tags : Len(ev.tags[i]) = 2 /\ ev.tags[i][1] = "nonce"
  IN  /\ pc = "commit"
      /\ MinesId
      /\ UNCHANGED options
      /\ \/ /\ given
            /\ Fail("abort")
         \/ /\ ~given
            /\ Len(ev.tags) + 1 > MaxTags
            /\ Fail("mine")
         \/ /\ ~given
            /\ Len(ev.tags) + 1 <= MaxTags
            /\ ev' = [ev EXCEPT !.tags = Append(@, <<"nonce", 0, args.difficulty>>)]
            /\ pc' = "mining"
            /\ UNCHANGED <<args, more, key, nonce, asked, out>>

(* One round of mining with event e, that gives up or ends with event next.*)
MineRound(e, next, enough) ==
  /\ pc = "mining"
  /\ nonce < MaxNonce
  /\ UNCHANGED options
  /\ \/ /\ Fits(e)
        /\ ev' = next
        /\ nonce' = nonce + 1
        /\ pc' = IF enough THEN "sign" ELSE "mining"
        /\ UNCHANGED <<args, more, key, asked, out>>
     \/ /\ ~Fits(e)
        /\ Fail("mine")

(* The event with the current nonce in its nonce tag, which is the last.   *)
WithNonce(e) == [e EXCEPT !.tags[Len(e.tags)] = <<"nonce", nonce, args.difficulty>>]

(* Mutants of MineEvent: the nonce that was hashed is not the one that is  *)
(* left in the tag; one bit too few is enough.                             *)
MineOtherNonce(b) ==
  MineRound(ev, [ev EXCEPT !.id = [of |-> Commitment(WithNonce(ev)), bits |-> b]],
            b >= args.difficulty)
MineOneBitLess(b) ==
  MineRound(WithNonce(ev), WithId(WithNonce(ev), b), b + 1 >= args.difficulty)

(* One round of mine_event.                                                *)
MineEvent(b) ==
  MineRound(WithNonce(ev), WithId(WithNonce(ev), b), b >= args.difficulty)

(* sign_event                                                              *)
SignEvent ==
  /\ pc = "sign"
  /\ UNCHANGED options
  /\ \/ /\ ev' = [ev EXCEPT !.sig = [by |-> key, of |-> ev.id]]
        /\ pc' = "write"
        /\ UNCHANGED <<args, more, key, nonce, asked, out>>
     \/ Fail("sig")

(* print_event: the tags are put into a buffer and printed, then the       *)
(* content is, through the same buffer; without room for it the text on    *)
(* stdout is cut off.                                                      *)
TagsFit(e) ==
  IF e.explicit_tags = NoTags THEN TagsSize(Tags(e)) <= BufSize
                              ELSE TagsSize(Tags(e)) < BufSize
Printed(e) ==
  [id |-> e.id, pubkey |-> e.pubkey, created_at |-> e.created_at, kind |-> e.kind,
   tags |-> Tags(e), content |-> e.content, sig |-> e.sig,
   envelope |-> "envelope" \in args.flags, whole |-> TextSize(e.content) <= BufSize]
PrintEvent ==
  /\ pc = "write"
  /\ UNCHANGED <<args, more, options, ev, key, nonce, asked>>
  /\ \/ /\ TagsFit(ev)
        /\ out' = out \cup {Printed(ev)}
        /\ pc' = IF Printed(ev).whole THEN "done" ELSE "print"
     \/ /\ ~TagsFit(ev)
        /\ pc' = "print"
        /\ UNCHANGED out

Next ==
  \/ ReadOption
  \/ \E d \in Difficulties : ReadPow(d)
  \/ \E t \in TagLists : ReadTags(t)
  \/ \E p \in TagPairs, short \in BOOLEAN : ReadTag(p, short)
  \/ Refuse
  \/ \E now \in Times : EndArgs(now)
  \/ DecodeKey \/ GenerateKeyFails \/ \E k \in Keys : GenerateKey(k)
  \/ MakeEncryptedDm \/ EncryptFails \/ SetPubkey
  \/ EnsureNonceTag
  \/ \E b \in 0..MaxBits : GenerateEventId(b) \/ MineEvent(b)
  \/ SignEvent \/ PrintEvent

Spec == Init /\ [][Next]_vars

-----------------------------------------------------------------------------
Commitments ==
  [pubkey : Keys \cup {NoKey}, kind : Nat, tags : TagTexts, content : Contents,
   created_at : Nat]
Ids == [of : Commitments \cup {<< >>}, bits : Nat]

(* Type correctness of the options, the event and the key.                 *)
TypeOK ==
  /\ pc \in Steps \cup Ends
  /\ args \in [flags : SUBSET Flags, sec : Keys \cup {NoKey, BadKey},
               tags : TagLists \cup {NoTags}, content : Texts,
               created_at : Times \cup {0}, kind : Nat,
               difficulty : Difficulties \cup {0}, encrypt_to : Keys \cup {NoKey}]
  /\ ev \in [id : Ids, pubkey : Keys \cup {NoKey},
             sig : [by : Keys \cup {NoKey}, of : Ids], content : Contents,
             created_at : Times \cup {0}, kind : Nat,
             explicit_tags : TagLists \cup {NoTags}, tags : Seq(Tag)]
  /\ Len(ev.tags) <= MaxTags
  /\ more \in BOOLEAN /\ options \in Nat /\ nonce \in 0..MaxNonce
  /\ key \in Keys \cup {NoKey}

(* A printed event verifies: its id is the hash of the very fields that    *)
(* are printed with it, whatever --dm and mining did to them on the way,   *)
(* and its signature is made over that id with the key whose public key is *)
(* printed.  created_at has to be below 10^15 (see event_commitment).      *)
PrintedEventsVerify ==
  \A o \in out :
    o.created_at < TimeLimit =>
      /\ o.id.of = [pubkey |-> o.pubkey, created_at |-> o.created_at, kind |-> o.kind,
                    tags |-> o.tags, content |-> o.content]
      /\ o.sig = [by |-> o.pubkey, of |-> o.id]

(* An event that was hashed and signed is also printed, in one piece: what *)
(* fits the commitment buffer fits the print buffer.                       *)
SignedIsPrinted ==
  /\ pc # "print"
  /\ \A o \in out : o.whole

(* --pow is honoured: the id of a printed event has the bits asked for and *)
(* commits to that target, or its public key has them with --mine-pubkey,  *)
(* unless --sec gave the key.                                              *)
PowHonoured ==
  \A o \in out :
    /\ MinesId => /\ o.id.bits >= args.difficulty
                  /\ \E i \in DOMAIN o.tags.list :
                       /\ Len(o.tags.list[i]) = 3
                       /\ o.tags.list[i][1] = "nonce"
                       /\ o.tags.list[i][3] = args.difficulty
    /\ (MinesKey /\ args.sec = NoKey) => KeyBits[o.pubkey] >= args.difficulty

(* Every tag asked for, the one of --dm included, is in the printed event, *)
(* unless --tags replaced the list.                                        *)
TagsAreKept ==
  \A o \in out : o.tags.given = NoTags => asked \subseteq Range(o.tags.list)

(* A direct message never goes out in the clear.                           *)
DmIsEncrypted ==
  \A o \in out : "encrypt" \in args.flags =>
                   /\ o.content.to = args.encrypt_to
                   /\ o.content.by = o.pubkey

(* The assertion of mine_event, that the nonce tag has three strings, does *)
(* not fail.                                                               *)
NoAssertionFails == pc # "abort"
=============================================================================
