-------------------------------- MODULE Room --------------------------------
(* What readers and writers ask of the room they share: readers together, a *)
(* writer alone.                                                            *)

CONSTANTS Readers, Writers
VARIABLE inside

RoomInit == inside = {}

Enter(t) ==
  /\ t \notin inside
  /\ inside \cap Writers = {}
  /\ t \in Writers => inside = {}
  /\ inside' = inside \cup {t}

Leave(t) ==
  /\ t \in inside
  /\ inside' = inside \ {t}

RoomNext == \E t \in Readers \cup Writers : Enter(t) \/ Leave(t)

RoomSpec == RoomInit /\ [][RoomNext]_inside
=============================================================================
