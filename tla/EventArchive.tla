---------------------------- MODULE EventArchive ----------------------------
(***************************************************************************)
(* What the event database of the relays promises: an archive that only    *)
(* grows, and that holds an event before the client who published it is    *)
(* answered.  The promise is off once the archive has been damaged.        *)
(***************************************************************************)
CONSTANT Events

VARIABLES held, answered, damaged

avars == <<held, answered, damaged>>

Init ==
  /\ held = {}
  /\ answered = {}
  /\ damaged = FALSE

(* Events are recorded together; none that was held is given up.           *)
Record ==
  /\ ~damaged
  /\ held' \in SUBSET Events
  /\ held \subseteq held'
  /\ UNCHANGED <<answered, damaged>>

(* A publisher is answered; the event was recorded before.                 *)
Confirm ==
  /\ ~damaged
  /\ \E e \in held : answered' = answered \cup {e}
  /\ UNCHANGED <<held, damaged>>

(* Damage is for good, and nothing is promised after it.                   *)
Damage ==
  /\ damaged' = TRUE
  /\ held' \in SUBSET Events
  /\ answered \subseteq answered'
  /\ answered' \in SUBSET Events

Next == Record \/ Confirm \/ Damage

Spec == Init /\ [][Next]_avars
=============================================================================
