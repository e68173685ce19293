------------------------------- MODULE Buffer -------------------------------
(* What a bounded buffer promises: never more than MAX items produced and   *)
(* not yet consumed, never an item consumed before it is produced.          *)
EXTENDS Naturals

CONSTANT MAX
VARIABLE food

BufferInit == food = 0

Produce == food < MAX /\ food' = food + 1

Consume == food > 0 /\ food' = food - 1

BufferSpec == BufferInit /\ [][Produce \/ Consume]_food
=============================================================================
