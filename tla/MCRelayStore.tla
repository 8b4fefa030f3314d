---------------------------- MODULE MCRelayStore ----------------------------
(* Small instances of RelayStore: three events of two authors, one of them  *)
(* what is left of a message that did not parse.                            *)
EXTENDS RelayStore

CONSTANTS e1, e2, bad, alice, bob, w1, w2, h

MCEvents == {e1, e2, bad}
MCMalformed == {bad}
MCAuthors == {alice, bob}
MCPubKey == [e \in Events |-> IF e = e1 THEN alice ELSE bob]
=============================================================================
