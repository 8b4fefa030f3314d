---------------------------- MODULE MCHyperRelay ----------------------------
(* Small instances of HyperRelay.  Each event is a record of the fields the *)
(* relay looks at; the filter lists ask for one author, for all events, for *)
(* those with one of two tags, of which only carol's have both, or for the  *)
(* newest one.                                                              *)
EXTENDS HyperRelay

CONSTANTS c1, c2, s1, s2

Ev(n, kind, pubkey, time) == [n |-> n, kind |-> kind, pubkey |-> pubkey, time |-> time]
note1 == Ev(1, 1, "alice", 1)
note2 == Ev(2, 1, "bob", 2)
far == Ev(3, 1, "carol", 1)
meta1 == Ev(4, 10002, "alice", 4)
meta2 == Ev(5, 10002, "alice", 5)
gone == Ev(6, 5, "alice", 6)
param == Ev(7, 30000, "bob", 7)
param0 == Ev(8, 30000, "bob", 0)

Notes == {note1, far}
Kinds == {meta1, meta2, param, param0, gone}
OneNote == {note1}

MCKind == [e \in Events |-> e.kind]
MCPubKey == [e \in Events |-> e.pubkey]
MCCreatedAt == [e \in Events |-> e.time]
MCDeletes == [e \in Events |-> IF e.kind = 5 THEN {meta1, param0} \cap Events ELSE {}]
MCSameD == [e \in Events |-> {d \in Events : d.kind = e.kind}]

Of(pubkey) == {e \in Events : e.pubkey = pubkey}
All == [plain |-> Events, tagged |-> Events, alltags |-> Events, limit |-> 0]
Latest == [All EXCEPT !.limit = 1]
Alice == [All EXCEPT !.plain = Of("alice")]
Both == [All EXCEPT !.alltags = Of("carol")]
AskAll == {{All}}
AskLatest == {{Both}, {Latest}}
AskAlice == {{Alice}}

Separate == [c \in Conns |-> IF c = c1 THEN {s1} ELSE {s2}]
Far == {{far}}
Versions == {{meta1, param0}}
None == {}
=============================================================================
