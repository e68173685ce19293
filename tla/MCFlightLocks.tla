--------------------------- MODULE MCFlightLocks ----------------------------
(* The instance of FlightLocks for TLC: one gyroscope, two engines one after *)
(* the other, and every alarm.                                               *)
EXTENDS FlightLocks

AllAlarms == {"engine", "thrusters", "both"}
=============================================================================
