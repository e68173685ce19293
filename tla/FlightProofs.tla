----------------------------- MODULE FlightProofs ----------------------------
(***************************************************************************)
(* What is true of a flight for any number of gyroscopes, any climb, any   *)
(* start and any number of gyroscope_threads.                              *)
(***************************************************************************)
EXTENDS Flight, TLAPS

-----------------------------------------------------------------------------
(* Types.                                                                  *)

LEMMA FlightInit == Init => TypeOK
<1> SUFFICES ASSUME Init PROVE TypeOK
  OBVIOUS
<1>1. corrector \in [Correctors -> CorrectorLocations]
  BY DEF Init, CorrectorLocations
<1>2. array_threads \in [Gyros -> Correctors]
  BY SimulatorAssumption DEF Init, Correctors
<1>3. gyros \in [Gyros -> Int] /\ state_gyros \in [Gyros -> {0, 1}]
  BY SimulatorAssumption DEF Init
<1>4. distance \in Int /\ gasoline \in Int /\ time \in 0 .. INTERVALS /\ shocks \in 0 .. Shocks
  BY RocketAssumption, SimulatorAssumption DEF Init
<1>5. /\ CURRENT_ACTION \in {EVENT_1, EVENT_3, EVENT_5} /\ reported \subseteq Masters
      /\ restarter \in {"look", "cancel", "wake"} /\ exploder \in {"look", "reported", "kill"}
      /\ lander \in {"look", "decide"} /\ dist \in Int
      /\ climb \in {"asleep", "up", "create", "action", "doze"}
      /\ lowTurns \in Nat
  BY DEF Init
<1>6. is_on \in BOOLEAN /\ exploded \in BOOLEAN
  BY DEF Init
<1> QED
  BY <1>1, <1>2, <1>3, <1>4, <1>5, <1>6 DEF TypeOK

\* terminate_event_1 and create_signals_gyros keep the gyroscope_threads' types.
LEMMA WithoutType ==
  ASSUME TypeOK, NEW G
  PROVE  Without(G) \in [Correctors -> CorrectorLocations]
  BY DEF TypeOK, Without, CorrectorLocations

LEMMA CreateType ==
  ASSUME TypeOK, create_signals_gyros
  PROVE  /\ array_threads' \in [Gyros -> Correctors]
         /\ corrector' \in [Correctors -> CorrectorLocations]
         /\ state_gyros' \in [Gyros -> {0, 1}]
<1>1. ASSUME NEW i \in Gyros PROVE (CHOOSE g \in Free(i) : TRUE) \in Correctors
  BY <1>1 DEF create_signals_gyros, Free
<1>2. array_threads' \in [Gyros -> Correctors]
  BY <1>1 DEF create_signals_gyros
<1>3. \A g \in Correctors : g[1] \in Gyros
  BY DEF Correctors
<1>4. corrector' \in [Correctors -> CorrectorLocations]
  BY <1>3 DEF create_signals_gyros, TypeOK, CorrectorLocations
<1> QED
  BY <1>2, <1>4 DEF create_signals_gyros

LEMMA MasterNames ==
  {Engine, Restarter, Exploder, Lander} \subseteq Masters /\ \A i \in Gyros : <<"signal_gyro", i>> \in Masters
  BY DEF Masters, SignalGyros

LEMMA MasterTypes == TypeOK /\ MasterStep => TypeOK'
<1> SUFFICES ASSUME TypeOK, MasterStep PROVE TypeOK'
  OBVIOUS
<1> USE DEF rocket, over, masters, slaves, Report, InBody
<1>1. ASSUME NEW i \in Gyros, signal_gyro(i) PROVE TypeOK'
  <2>1. corrector' \in [Correctors -> CorrectorLocations]
    BY <1>1 DEF signal_gyro, TypeOK, CorrectorLocations
  <2> QED
    BY <1>1, <2>1, MasterNames DEF signal_gyro, TypeOK
<1>2. CASE pricipal_engine_thread
  <2>1. distance' \in Int /\ gasoline' \in Int /\ lowTurns' \in Nat
    BY <1>2 DEF pricipal_engine_thread, TypeOK, LessHalf
  <2> QED
    BY <1>2, <2>1, MasterNames DEF pricipal_engine_thread, TypeOK
<1>3. CASE RestartLanding \/ KeepLanding \/ WakeClimb
  BY <1>3, MasterNames DEF RestartLanding, KeepLanding, WakeClimb, TypeOK
<1>4. CASE CancelThrusters
  BY <1>4, WithoutType DEF CancelThrusters, terminate_event_1, TypeOK
<1>5. CASE signal_explote_rocket
  BY <1>5, MasterNames DEF signal_explote_rocket, CheckFuel, Explode, TypeOK
<1>6. CASE LookDown \/ DeclareLanding \/ NotYet
  <2>1. CASE LookDown
    BY <2>1 DEF LookDown, TypeOK
  <2>2. CASE DeclareLanding
    BY <2>2 DEF DeclareLanding, TypeOK
  <2>3. CASE NotYet
    BY <2>3, MasterNames DEF NotYet, TypeOK
  <2> QED
    BY <1>6, <2>1, <2>2, <2>3
<1>7. CASE CutThrusters
  <2>1. corrector' \in [Correctors -> CorrectorLocations]
    BY <1>7, WithoutType DEF CutThrusters, terminate_event_1
  <2> QED
    BY <1>7, <2>1, MasterNames DEF CutThrusters, TypeOK
<1>8. CASE Release
  BY <1>8 DEF Release, TypeOK
<1> QED
  BY <1>1, <1>2, <1>3, <1>4, <1>5, <1>6, <1>7, <1>8
  DEF MasterStep, signal_restart_landing, signal_landing_check

LEMMA SlaveTypes ==
  ASSUME TypeOK, go_up_30m \/ \E g \in Correctors : gyroscope_thread(g)
  PROVE  TypeOK'
<1> USE DEF rocket, over, masters, slaves, ClimbSteps, CorrectorSteps
<1>1. CASE CreateThrusters
  BY <1>1, CreateType DEF CreateThrusters, TypeOK
<1>2. CASE GoUp \/ Top \/ LandAgain \/ Doze
  BY <1>2, RocketAssumption DEF GoUp, Top, LandAgain, Doze, TypeOK
<1>3. ASSUME NEW g \in Correctors, gyroscope_thread(g) PROVE TypeOK'
  <2>1. g[1] \in Gyros
    BY DEF Correctors
  <2>2. corrector' \in [Correctors -> CorrectorLocations]
    BY <1>3 DEF gyroscope_thread, FirstPause, OffLevel, Correct, BackToPause, TypeOK,
       CorrectorLocations
  <2>3. gyros' \in [Gyros -> Int] /\ gasoline' \in Int /\ state_gyros' \in [Gyros -> {0, 1}]
    BY <1>3, <2>1 DEF gyroscope_thread, FirstPause, OffLevel, Correct, BackToPause, TypeOK
  <2> QED
    BY <1>3, <2>2, <2>3 DEF gyroscope_thread, FirstPause, OffLevel, Correct, BackToPause, TypeOK
<1> QED
  BY <1>1, <1>2, <1>3 DEF go_up_30m

LEMMA FlightTypes == TypeOK /\ [Next]_vars => TypeOK'
<1> SUFFICES ASSUME TypeOK, [Next]_vars PROVE TypeOK'
  OBVIOUS
<1> USE DEF rocket, over, masters, slaves
<1>1. ASSUME NEW i \in Gyros, Shock(i) PROVE TypeOK'
  BY <1>1, SimulatorAssumption DEF Shock, TypeOK
<1>2. CASE UNCHANGED vars
  BY <1>2 DEF vars, TypeOK
<1> QED
  BY <1>1, <1>2, MasterTypes, SlaveTypes DEF Next, Ended

\* Every variable keeps its type; time stays within the climb.
THEOREM TypeCorrect == Spec => []TypeOK
  BY FlightInit, FlightTypes, PTL DEF Spec

-----------------------------------------------------------------------------
(* The gyroscopes' current threads are off while they should be.           *)

LEMMA OffSlaves ==
  ASSUME TypeOK, ThrustersOff, go_up_30m \/ \E g \in Correctors : gyroscope_thread(g)
  PROVE  ThrustersOff'
<1> USE DEF rocket, over, masters, slaves, ClimbSteps, CorrectorSteps, On
<1>1. CASE CreateThrusters \/ LandAgain
  BY <1>1 DEF CreateThrusters, LandAgain, ThrustersOff
<1>2. CASE GoUp \/ Top \/ Doze
  BY <1>2 DEF GoUp, Top, Doze, ThrustersOff
<1>3. ASSUME NEW g \in Correctors, gyroscope_thread(g) PROVE ThrustersOff'
  <2>1. /\ UNCHANGED <<CURRENT_ACTION, restarter, climb, array_threads>>
        /\ corrector[g] # "none"
        /\ \E to \in CorrectorLocations \ {"none"} : corrector' = [corrector EXCEPT ![g] = to]
    BY <1>3 DEF gyroscope_thread, FirstPause, OffLevel, Correct, BackToPause, CorrectorLocations
  <2>2. \A h \in Correctors : On(h)' <=> On(h)
    BY <2>1 DEF TypeOK
  <2> QED
    BY <2>1, <2>2 DEF ThrustersOff, TypeOK
<1> QED
  BY <1>1, <1>2, <1>3 DEF go_up_30m

LEMMA OffMasters == TypeOK /\ ThrustersOff /\ MasterStep => ThrustersOff'
<1> SUFFICES ASSUME TypeOK, ThrustersOff, MasterStep PROVE ThrustersOff'
  OBVIOUS
<1> USE DEF rocket, over, masters, slaves, On
<1>1. ASSUME NEW i \in Gyros, signal_gyro(i) PROVE ThrustersOff'
  <2>1. \A h \in Correctors : On(h)' <=> On(h)
    BY <1>1 DEF signal_gyro, TypeOK
  <2> QED
    BY <1>1, <2>1 DEF signal_gyro, ThrustersOff, TypeOK
<1>2. CASE terminate_event_1 /\ UNCHANGED array_threads
  BY <1>2 DEF terminate_event_1, Without, ThrustersOff, TypeOK
<1>3. CASE RestartLanding
  BY <1>3 DEF RestartLanding, ThrustersOff
<1>4. CASE WakeClimb
  BY <1>4 DEF WakeClimb, ThrustersOff
<1>5. CASE UNCHANGED <<CURRENT_ACTION, restarter, climb, corrector, array_threads>>
  BY <1>5 DEF ThrustersOff
<1> QED
  BY <1>1, <1>2, <1>3, <1>4, <1>5
  DEF MasterStep, pricipal_engine_thread, signal_restart_landing, KeepLanding, CancelThrusters,
      signal_explote_rocket, CheckFuel, Explode, signal_landing_check, LookDown, DeclareLanding,
      CutThrusters, NotYet, Release

\* However many gyroscopes there are and however often the landing is restarted,
\* no current gyroscope_thread is on while they should all be off.
THEOREM ThrustersStayOff == Spec => []ThrustersOff
<1>1. Init => ThrustersOff
  BY DEF Init, ThrustersOff
<1>2. TypeOK /\ ThrustersOff /\ [Next]_vars => ThrustersOff'
  <2> SUFFICES ASSUME TypeOK, ThrustersOff, [Next]_vars PROVE ThrustersOff'
    OBVIOUS
  <2>1. ASSUME NEW i \in Gyros, Shock(i) PROVE ThrustersOff'
    BY <2>1 DEF Shock, ThrustersOff, On, over, masters, slaves
  <2>2. CASE UNCHANGED vars
    BY <2>2 DEF ThrustersOff, On, vars, rocket, over, masters, slaves
  <2> QED
    BY <2>1, <2>2, OffMasters, OffSlaves DEF Next, Ended
<1> QED
  BY <1>1, <1>2, TypeCorrect, PTL DEF Spec

-----------------------------------------------------------------------------
(* The abort is prompt.  Gasoline never grows, so once signal_explote_rocket *)
(* looks again it sees what the engine has seen: how many turns the engine *)
(* has had by then depends on who has reported in the round.               *)

Turn == IF Engine \in reported THEN 1 ELSE 0

AbortPhase ==
  /\ gasoline >= 10 => lowTurns = 0
  /\ exploder = "look" => lowTurns <= (IF Exploder \in reported THEN 0 ELSE 1) + Turn
  /\ exploder = "reported" => Exploder \in reported /\ lowTurns <= 1 + Turn
  /\ exploder = "kill" => Exploder \notin reported /\ lowTurns <= 2 + Turn

\* What most steps do to the abort: nothing, while another thread reports.
Aside ==
  /\ gasoline' \in Int /\ gasoline' <= gasoline
  /\ UNCHANGED <<exploder, lowTurns>>
  /\ Exploder \in reported' <=> Exploder \in reported
  /\ Engine \in reported' <=> Engine \in reported

LEMMA AsidePhase == TypeOK /\ AbortPhase /\ Aside => AbortPhase'
  BY DEF TypeOK, AbortPhase, Aside, Turn

LEMMA OthersAside ==
  ASSUME TypeOK, [Next]_vars, ~pricipal_engine_thread, ~signal_explote_rocket, ~Release
  PROVE  Aside
<1> USE DEF rocket, over, masters, slaves, Report
<1>0. \A i \in Gyros : <<"signal_gyro", i>> \notin {Engine, Exploder}
  BY DEF Engine, Exploder
<1>1. ASSUME NEW i \in Gyros, signal_gyro(i) PROVE Aside
  BY <1>0, <1>1 DEF signal_gyro, Aside, TypeOK
<1>2. CASE signal_restart_landing \/ signal_landing_check
  <2>1. Restarter \notin {Engine, Exploder} /\ Lander \notin {Engine, Exploder}
    BY DEF Restarter, Lander, Engine, Exploder
  <2>2. CASE KeepLanding \/ WakeClimb
    BY <2>1, <2>2 DEF KeepLanding, WakeClimb, Aside, TypeOK
  <2>3. CASE CutThrusters \/ NotYet
    BY <2>1, <2>3 DEF CutThrusters, NotYet, Aside, TypeOK
  <2>4. CASE RestartLanding \/ CancelThrusters
    BY <2>4 DEF RestartLanding, CancelThrusters, Aside, TypeOK
  <2>5. CASE LookDown \/ DeclareLanding
    BY <2>5 DEF LookDown, DeclareLanding, Aside, TypeOK
  <2> QED
    BY <1>2, <2>2, <2>3, <2>4, <2>5 DEF signal_restart_landing, signal_landing_check
<1>3. CASE go_up_30m
  BY <1>3 DEF go_up_30m, GoUp, Top, CreateThrusters, LandAgain, Doze, Aside, TypeOK
<1>4. ASSUME NEW g \in Correctors, gyroscope_thread(g) PROVE Aside
  BY <1>4 DEF gyroscope_thread, FirstPause, OffLevel, Correct, BackToPause, CorrectorSteps, Aside,
     TypeOK
<1>5. ASSUME NEW i \in Gyros, Shock(i) PROVE Aside
  BY <1>5 DEF Shock, Aside, TypeOK
<1>6. CASE UNCHANGED vars
  BY <1>6 DEF vars, Aside, TypeOK
<1> QED
  BY <1>1, <1>2, <1>3, <1>4, <1>5, <1>6 DEF Next, MasterStep, Ended

LEMMA PhaseNext == TypeOK /\ AbortPhase /\ [Next]_vars => AbortPhase'
<1> SUFFICES ASSUME TypeOK, AbortPhase, [Next]_vars PROVE AbortPhase'
  OBVIOUS
<1> USE DEF Report, InBody
<1>0. Engine # Exploder
  BY DEF Engine, Exploder
<1>1. CASE pricipal_engine_thread
  BY <1>0, <1>1 DEF pricipal_engine_thread, LessHalf, TypeOK, AbortPhase, Turn
<1>2. CASE CheckFuel
  BY <1>0, <1>2 DEF CheckFuel, rocket, TypeOK, AbortPhase, Turn
<1>3. CASE Explode
  BY <1>3 DEF Explode, rocket, masters, AbortPhase, Turn
<1>4. CASE Release
  BY <1>4, MasterNames DEF Release, rocket, TypeOK, AbortPhase, Turn
<1> QED
  BY <1>1, <1>2, <1>3, <1>4, OthersAside, AsidePhase DEF signal_explote_rocket

\* Short of gasoline the engine takes three more turns at most, whatever the
\* number of gyroscopes, the climb and the order of the threads.
THEOREM AbortIsPrompt == Spec => []AbortPrompt
<1>1. Init => AbortPhase
  BY DEF Init, AbortPhase, Turn
<1>2. TypeOK /\ AbortPhase => AbortPrompt
  BY DEF TypeOK, AbortPhase, Turn, AbortPrompt
<1> QED
  BY <1>1, <1>2, PhaseNext, TypeCorrect, PTL DEF Spec

=============================================================================
