---------------------------- MODULE RoundBarrier ----------------------------
(***************************************************************************)
(* What the reporting round of sistema.c promises to the threads that take *)
(* part in it: in one round every reporter reports once, and nobody goes   *)
(* on to the next round before all of them have reported.                  *)
(***************************************************************************)
CONSTANT Reporters   \* the threads that report once per round

VARIABLE reported    \* those that have reported in the round under way

BarrierInit == reported = {}

Report(r) ==
  /\ r \notin reported
  /\ reported' = reported \cup {r}

Release ==
  /\ reported = Reporters
  /\ reported' = {}

BarrierNext == Release \/ \E r \in Reporters : Report(r)

BarrierSpec == BarrierInit /\ [][BarrierNext]_reported
=============================================================================
