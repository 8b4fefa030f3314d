----------------------------- MODULE MCDbGossip -----------------------------
(* Three relays in a line: the outer two hear of each other only through    *)
(* the one in the middle.                                                   *)
EXTENDS DbGossip

CONSTANTS a, b, c

Line == {{a, b}, {b, c}}
Pair == {{a, b}}
=============================================================================
