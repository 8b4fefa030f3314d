-------------------------- MODULE MCClientSession --------------------------
(* Two users of one web server and a desktop client.  alice follows bob and *)
(* herself; her newest note does not parse.                                 *)
EXTENDS ClientSession

CONSTANTS alice, bob, a1, a2, c1, b1, b2, m1, w1, w2, d

MCEvents == {a1, a2, c1, b1, b2, m1}
MCAuthor == [e \in MCEvents |-> IF e \in {b1, b2, m1} THEN bob ELSE alice]
MCKind == [e \in MCEvents |-> CASE e = c1 -> 3 [] e = m1 -> 0 [] OTHER -> 1]
MCPTags == [e \in MCEvents |-> IF e = c1 THEN <<bob, alice>>
                               ELSE IF e = b1 THEN <<alice>> ELSE << >>]
MCBudgets ==
  { [u \in Users |-> CASE u = w1 -> 3 [] u = w2 -> 1 [] OTHER -> 0],
    [u \in Users |-> IF u = d THEN 0 ELSE 2],
    [u \in Users |-> IF u = d THEN 2 ELSE 0] }
Alone == {[u \in Users |-> 2]}
MCStored == <<b1, a1, c1, b2, m1, a2>>
=============================================================================
