---------------------------- MODULE MCEventMaker ----------------------------
(* A small command line: a key with leading zero bits and one without, a    *)
(* short text and one that overflows the commitment buffer, room for two    *)
(* tags, and a timestamp that does not fit timebuf.                         *)
EXTENDS EventMaker

CONSTANTS weak, strong, short, long, T

MCKeyBits == [k \in Keys |-> IF k = strong THEN 1 ELSE 0]
MCTagPairs == {<<"e", "x">>, <<"nonce", "x">>}
MCTimeLimit == 100
MCClipTime(t) == t \div 10
MCTagsSize(t) == IF t.given # NoTags THEN 2 ELSE 1 + Len(t.list)
MCTextSize(c) == (IF c.text = long THEN 11 ELSE 1) + (IF c.to = NoKey THEN 0 ELSE 4)
MCBufSize == 14
=============================================================================
