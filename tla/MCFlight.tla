------------------------------ MODULE MCFlight ------------------------------
(* Instances of Flight for TLC: two meters from the ground, one engine turn  *)
(* from too little gasoline.                                                 *)
EXTENDS Flight

NearGround == {2}
LittleFuel == {10}
Tilts == {0, 1}
=============================================================================
