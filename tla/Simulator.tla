------------------------------ MODULE Simulator -----------------------------
(***************************************************************************)
(* Proyecto/simulador_2.c, the process that flies the rocket for the       *)
(* controller: it writes distance, gasoline, the gyroscopes and alarma in  *)
(* memory that the two processes share without any lock.  `*distancia =    *)
(* *distancia - 1' is a load and a store, and the controller's own updates *)
(* may fall in between.                                                    *)
(*                                                                         *)
(* scanf stores three numbers, one after the other; here each is an input  *)
(* of its own, and one that repeats what is there changes nothing.         *)
(***************************************************************************)
EXTENDS Integers

CONSTANTS
  NUM_GYROS,
  Flights,      \* the flights to consider: see FlightsAssumption
  Angles,       \* what the user may type for a gyroscope
  Codes,        \* and for the alarm
  LeastFuel     \* gasoline is not counted below it: a bound

\* A flight starts where the command line says, and is bounded: so many meters of
\* descent, so many angles typed and so many alarms given, SIGINT included.
ASSUME FlightsAssumption ==
  Flights \subseteq [distance : Nat, gasoline : Nat, descents : Nat, shocks : Nat, alarms : Nat]
ASSUME InstrumentsAssumption ==
  NUM_GYROS \in Nat \ {0} /\ LeastFuel \in Nat /\ Angles \subseteq Int /\ Codes \subseteq Int

VARIABLES
  distance, gasoline, gyros, alarma,   \* shared with the controller
  descender,   \* "sleep", "sink" or "burn" with a load made, or "ended"
  read,        \* what it has loaded
  user,        \* "types", "interrupted" by SIGINT, or "gone"
  flight       \* what is left of it

instruments == <<distance, gasoline, gyros, alarma>>
simulator == <<descender, read, user, flight>>

Gyros == 0 .. NUM_GYROS - 1

\* gasoline matters only down to the last threshold it is compared with.
Fuel(g) == IF g < LeastFuel THEN LeastFuel ELSE g

SimulatorInit ==
  /\ flight \in Flights
  /\ distance = flight.distance /\ gasoline = flight.gasoline
  /\ gyros = [i \in Gyros |-> 0] /\ alarma = 0
  /\ descender = "sleep" /\ read = 0
  /\ user = "types"

Descend ==
  /\ flight.descents > 0 /\ flight' = [flight EXCEPT !.descents = @ - 1]
  /\ descender = "sleep" /\ descender' = "sink"
  /\ read' = distance
  /\ UNCHANGED <<instruments, user>>

\* The store of the distance, and the load of the gasoline.
Sink ==
  /\ descender = "sink" /\ descender' = "burn"
  /\ distance' = read - 1
  /\ read' = gasoline
  /\ UNCHANGED <<gasoline, gyros, alarma, user, flight>>

\* Mutant: the ground is noticed a meter late.
BurnFuelLate ==
  /\ descender = "burn"
  /\ gasoline' = Fuel(read - 1) /\ read' = 0
  /\ IF distance < -1
     THEN descender' = "ended" /\ alarma' = 101
     ELSE descender' = "sleep" /\ UNCHANGED alarma
  /\ UNCHANGED <<distance, gyros, user, flight>>

\* The store of the gasoline; on the ground, alarm 101 and the end.
BurnFuel ==
  /\ descender = "burn"
  /\ gasoline' = Fuel(read - 1) /\ read' = 0
  /\ IF distance < 0
     THEN descender' = "ended" /\ alarma' = 101
     ELSE descender' = "sleep" /\ UNCHANGED alarma
  /\ UNCHANGED <<distance, gyros, user, flight>>

TypeAngle(i) ==
  /\ flight.shocks > 0 /\ flight' = [flight EXCEPT !.shocks = @ - 1]
  /\ user = "types"
  /\ \E a \in Angles : gyros' = [gyros EXCEPT ![i] = a]
  /\ UNCHANGED <<distance, gasoline, alarma, descender, read, user>>

TypeAlarm ==
  /\ flight.alarms > 0 /\ flight' = [flight EXCEPT !.alarms = @ - 1]
  /\ user = "types"
  /\ \E c \in Codes : alarma' = c
  /\ UNCHANGED <<distance, gasoline, gyros, descender, read, user>>

\* SIGINT: alarm 101, a second's sleep in the handler, and exit.
sig_handlerINT ==
  /\ flight.alarms > 0 /\ flight' = [flight EXCEPT !.alarms = @ - 1]
  /\ user = "types" /\ user' = "interrupted"
  /\ alarma' = 101
  /\ UNCHANGED <<distance, gasoline, gyros, descender, read>>

Exit ==
  /\ user = "interrupted" /\ user' = "gone"
  /\ descender' = "ended" /\ read' = 0
  /\ UNCHANGED <<instruments, flight>>

SimulatorNext ==
  \/ Descend \/ Sink \/ BurnFuel
  \/ TypeAlarm \/ \E i \in Gyros : TypeAngle(i)
  \/ sig_handlerINT \/ Exit

=============================================================================
