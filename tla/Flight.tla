------------------------------- MODULE Flight -------------------------------
(***************************************************************************)
(* What the threads of Proyecto/sistema.c do to the rocket: distance,      *)
(* gasoline, the gyroscopes and CURRENT_ACTION.                            *)
(*                                                                         *)
(* A step is a stretch of code that holds the semaphores of what it reads  *)
(* and writes, so its order with respect to the others is all that         *)
(* matters; a body that posts them and acts on what it has read is split   *)
(* there.  The masters run one body per round (RoundBarrier, which         *)
(* ReportRound implements); the slaves run on their own clock.  How the    *)
(* threads can block one another for good is the subject of FlightLocks    *)
(* and ReportRound, what follows the decision to end that of Shutdown.     *)
(*                                                                         *)
(* Left out: princp_engine, which nothing but a datagram shows, and the    *)
(* alarms; sig_handler_manual without them only reports, and a round that  *)
(* waits for it is one that Release is slow to end.  Nothing sets EVENT_4. *)
(***************************************************************************)
EXTENDS Integers, FiniteSets

CONSTANTS
  NUM_GYROS,
  RATE_GO_UP,
  INTERVALS,    \* the climb's number of steps (5 in go_up_30m)
  Distances,    \* distances from which the simulator may start
  Fuels,        \* gasoline with which it may start
  Angles,       \* what the simulator may write in a gyroscope
  Shocks,       \* how often it may do so once the program runs: a bound
  Lives,        \* gyroscope_threads of one gyroscope at once: a bound
  LeastFuel     \* gyroscope_threads burn no gasoline below it: a bound

ASSUME RocketAssumption ==
  /\ NUM_GYROS \in Nat \ {0} /\ RATE_GO_UP \in Nat /\ INTERVALS \in Nat
  /\ Distances \subseteq Int /\ Fuels \subseteq Int
ASSUME SimulatorAssumption ==
  /\ Angles \subseteq Int
  /\ Shocks \in Nat /\ Lives \in Nat \ {0} /\ LeastFuel \in Int

EVENT_1 == 1   \* landing
EVENT_3 == 3   \* restarting the landing
EVENT_5 == 5   \* the thrusters have been cut

Gyros == 0 .. NUM_GYROS - 1
SignalGyros == {<<"signal_gyro", i>> : i \in Gyros}
Engine == <<"pricipal_engine_thread">>
Restarter == <<"signal_restart_landing">>
Exploder == <<"signal_explote_rocket">>
Lander == <<"signal_landing_check">>
Masters == SignalGyros \cup {Engine, Restarter, Exploder, Lander}

\* The gyroscope_threads of gyroscope g[1].
Correctors == Gyros \X (1 .. Lives)

VARIABLES
  distance, gasoline, gyros,
  CURRENT_ACTION,
  state_gyros,   \* a gyroscope_thread is correcting, or was when it was cancelled
  is_on,         \* FALSE: signal_landing_check has declared the landing
  exploded,      \* signal_explote_rocket has sent its SIGINT
  reported,      \* the masters that have reported in the round under way
  restarter,     \* signal_restart_landing: "look", "cancel" or "wake"
  exploder,      \* signal_explote_rocket: "look", "reported" or "kill"
  lander,        \* signal_landing_check: "look", or "decide" on dist
  dist,          \* its copy of distance
  climb,         \* go_up_30m: "asleep", "up", "create", "action" or "doze"
  time,          \* its count
  corrector,     \* where each gyroscope_thread is
  array_threads, \* the gyroscope_thread last created for each gyroscope
  shocks,        \* how many there have been
  lowTurns       \* history: engine turns that began with too little gasoline

rocket == <<distance, gasoline, gyros, CURRENT_ACTION, state_gyros>>
over == <<is_on, exploded>>
masters == <<reported, restarter, exploder, lander, dist>>
slaves == <<climb, time, corrector, array_threads>>
vars == <<rocket, over, masters, slaves, shocks, lowTurns>>

\* "none", "start" before its first pause, "asleep" in pause, "run" at the top of
\* its loop, "gas" at sem_wait(&sem_gas), and "dud": created while sem_gs was
\* taken, its copy of it will never be free.
CorrectorLocations == {"none", "start", "asleep", "run", "gas", "dud"}

Init ==
  /\ distance \in Distances /\ gasoline \in Fuels
  /\ gyros \in [Gyros -> Angles]
  /\ CURRENT_ACTION = EVENT_1
  /\ state_gyros = [i \in Gyros |-> 0]
  /\ is_on = TRUE /\ exploded = FALSE
  /\ reported = {}
  /\ restarter = "look" /\ exploder = "look"
  /\ lander = "look" /\ dist = 0
  /\ climb = "doze" /\ time = 0
  /\ corrector = [g \in Correctors |-> IF g[2] = 1 THEN "start" ELSE "none"]
  /\ array_threads = [i \in Gyros |-> <<i, 1>>]
  /\ shocks = 0
  /\ lowTurns = 0

Flying == is_on /\ ~exploded
Level(i) == gyros[i] = 0

-----------------------------------------------------------------------------
(* What several threads do.                                                *)

\* The end of a master's body: its report and its wait for the round.
Report(m) == m \notin reported /\ reported' = reported \cup {m}

InBody(m) == Flying /\ m \notin reported

\* The gyroscope_threads in G are cancelled.  Every place one can be at is a
\* cancellation point, so it is as good as gone; state_gyros stays as it is.
Without(G) == [g \in Correctors |-> IF g \in G THEN "none" ELSE corrector[g]]

\* Mutant: the second gyroscope_thread is forgotten.
terminate_event_1_first == corrector' = Without({array_threads[i] : i \in {0}})

\* terminate_event_1(0): the thread last created for each gyroscope.
terminate_event_1 == corrector' = Without({array_threads[i] : i \in Gyros})

Free(i) == {g \in Correctors : g[1] = i /\ corrector[g] = "none"}

\* create_signals_gyros(0): as the copies may catch sem_gs taken, each thread may
\* be a dud.  There must be a life left (a bound).
create_signals_gyros ==
  /\ \A i \in Gyros : Free(i) # {}
  /\ array_threads' = [i \in Gyros |-> CHOOSE g \in Free(i) : TRUE]
  /\ \E kind \in [Gyros -> {"start", "dud"}] :
       corrector' = [g \in Correctors |->
                       IF g = array_threads'[g[1]] THEN kind[g[1]] ELSE corrector[g]]
  /\ state_gyros' = [i \in Gyros |-> 0]

-----------------------------------------------------------------------------
(* The masters.                                                            *)

\* SIGCONT is lost on a thread that is not in pause().
signal_gyro(i) ==
  LET slave == array_threads[i] IN
  /\ InBody(<<"signal_gyro", i>>)
  /\ corrector' =
       IF CURRENT_ACTION = EVENT_1 /\ ~Level(i) /\ corrector[slave] = "asleep"
       THEN [corrector EXCEPT ![slave] = "run"]
       ELSE corrector
  /\ Report(<<"signal_gyro", i>>)
  /\ UNCHANGED <<rocket, over, restarter, exploder, lander, dist,
                 climb, time, array_threads, shocks, lowTurns>>

\* gasoline is an int: what is left of gasoline - 0.5 is cut towards 0.
LessHalf == IF gasoline > 0 THEN gasoline - 1 ELSE gasoline

\* The condition on CURRENT_ACTION is always true: the rocket always sinks.
pricipal_engine_thread ==
  /\ InBody(Engine)
  /\ distance' = distance - 1
  /\ gasoline' = IF CURRENT_ACTION = EVENT_3 THEN gasoline - 5
                 ELSE IF \E i \in Gyros : state_gyros[i] = 1 THEN LessHalf
                 ELSE gasoline - 1
  /\ lowTurns' = IF gasoline < 10 THEN lowTurns + 1 ELSE lowTurns
  /\ Report(Engine)
  /\ UNCHANGED <<gyros, CURRENT_ACTION, state_gyros, over, restarter, exploder,
                 lander, dist, slaves, shocks>>

\* signal_restart_landing decides with every semaphore, and acts without them.
RestartLanding ==
  /\ InBody(Restarter) /\ restarter = "look"
  /\ distance < 5 /\ \E i \in Gyros : ~Level(i)
  /\ CURRENT_ACTION' = EVENT_3
  /\ restarter' = "cancel"
  /\ UNCHANGED <<distance, gasoline, gyros, state_gyros, over, reported,
                 exploder, lander, dist, slaves, shocks, lowTurns>>

KeepLanding ==
  /\ InBody(Restarter) /\ restarter = "look"
  /\ distance >= 5 \/ \A i \in Gyros : Level(i)
  /\ Report(Restarter)
  /\ UNCHANGED <<rocket, over, restarter, exploder, lander, dist, slaves,
                 shocks, lowTurns>>

CancelThrusters ==
  /\ Flying /\ restarter = "cancel"
  /\ terminate_event_1
  /\ restarter' = "wake"
  /\ UNCHANGED <<rocket, over, reported, exploder, lander, dist,
                 climb, time, array_threads, shocks, lowTurns>>

WakeClimb ==
  /\ Flying /\ restarter = "wake"
  /\ climb' = IF climb = "asleep" THEN "up" ELSE climb
  /\ restarter' = "look"
  /\ Report(Restarter)
  /\ UNCHANGED <<rocket, over, exploder, lander, dist,
                 time, corrector, array_threads, shocks, lowTurns>>

signal_restart_landing ==
  RestartLanding \/ KeepLanding \/ CancelThrusters \/ WakeClimb

\* Mutant: short of gasoline it waits for the round without a report.
CheckFuelSilent ==
  /\ InBody(Exploder) /\ exploder = "look"
  /\ IF gasoline < 10
     THEN exploder' = "reported" /\ UNCHANGED reported
     ELSE Report(Exploder) /\ UNCHANGED exploder
  /\ UNCHANGED <<rocket, over, restarter, lander, dist, slaves, shocks, lowTurns>>

\* signal_explote_rocket: short of gasoline it reports, waits for the round
\* (see Release) and sends the SIGINT.
CheckFuel ==
  /\ InBody(Exploder) /\ exploder = "look"
  /\ exploder' = IF gasoline < 10 THEN "reported" ELSE "look"
  /\ Report(Exploder)
  /\ UNCHANGED <<rocket, over, restarter, lander, dist, slaves, shocks, lowTurns>>

Explode ==
  /\ Flying /\ exploder = "kill"
  /\ exploded' = TRUE
  /\ UNCHANGED <<rocket, is_on, masters, slaves, shocks, lowTurns>>

signal_explote_rocket == CheckFuel \/ Explode

\* signal_landing_check decides on a copy of distance.
LookDown ==
  /\ InBody(Lander) /\ lander = "look"
  /\ dist' = distance
  /\ lander' = "decide"
  /\ UNCHANGED <<rocket, over, reported, restarter, exploder, slaves, shocks, lowTurns>>

Grounded == dist <= 0 /\ \A i \in Gyros : Level(i)

DeclareLanding ==
  /\ Flying /\ lander = "decide"
  /\ Grounded
  /\ is_on' = FALSE
  /\ UNCHANGED <<rocket, exploded, masters, slaves, shocks, lowTurns>>

\* A meter from the ground and one gyroscope level: the thrusters are cut.
CutThrusters ==
  /\ Flying /\ lander = "decide"
  /\ ~Grounded /\ dist <= 1 /\ \E i \in Gyros : Level(i)
  /\ CURRENT_ACTION' = EVENT_5
  /\ terminate_event_1
  /\ lander' = "look" /\ dist' = 0
  /\ Report(Lander)
  /\ UNCHANGED <<distance, gasoline, gyros, state_gyros, over, restarter, exploder,
                 climb, time, array_threads, shocks, lowTurns>>

NotYet ==
  /\ Flying /\ lander = "decide"
  /\ ~Grounded /\ (dist > 1 \/ \A i \in Gyros : ~Level(i))
  /\ lander' = "look" /\ dist' = 0
  /\ Report(Lander)
  /\ UNCHANGED <<rocket, over, restarter, exploder, slaves, shocks, lowTurns>>

signal_landing_check == LookDown \/ DeclareLanding \/ CutThrusters \/ NotYet

\* Mutant: signal_explote_rocket sends its SIGINT only if it looks again.
ReleaseForgets ==
  /\ Flying /\ reported = Masters
  /\ reported' = {}
  /\ exploder' = "look"
  /\ UNCHANGED <<rocket, over, restarter, lander, dist, slaves, shocks, lowTurns>>

\* Main ends the round.
Release ==
  /\ Flying /\ reported = Masters
  /\ reported' = {}
  /\ exploder' = IF exploder = "reported" THEN "kill" ELSE exploder
  /\ UNCHANGED <<rocket, over, restarter, lander, dist, slaves, shocks, lowTurns>>

-----------------------------------------------------------------------------
(* The slaves.                                                             *)

ClimbSteps(from, to) == Flying /\ climb = from /\ climb' = to

\* go_up_30m: another RATE_GO_UP, or the landing starts again.
GoUp ==
  /\ ClimbSteps("up", "up")
  /\ time < INTERVALS
  /\ distance' = distance + RATE_GO_UP
  /\ time' = time + 1
  /\ UNCHANGED <<gasoline, gyros, CURRENT_ACTION, state_gyros, over, masters,
                 corrector, array_threads, shocks, lowTurns>>

Top ==
  /\ ClimbSteps("up", "create")
  /\ time >= INTERVALS
  /\ time' = 0
  /\ UNCHANGED <<rocket, over, masters, corrector, array_threads, shocks, lowTurns>>

CreateThrusters ==
  /\ ClimbSteps("create", "action")
  /\ create_signals_gyros
  /\ UNCHANGED <<distance, gasoline, gyros, CURRENT_ACTION, over, masters,
                 time, shocks, lowTurns>>

LandAgain ==
  /\ ClimbSteps("action", "doze")
  /\ CURRENT_ACTION' = EVENT_1
  /\ UNCHANGED <<distance, gasoline, gyros, state_gyros, over, masters,
                 time, corrector, array_threads, shocks, lowTurns>>

Doze ==
  /\ ClimbSteps("doze", "asleep")
  /\ UNCHANGED <<rocket, over, masters, time, corrector, array_threads,
                 shocks, lowTurns>>

go_up_30m == GoUp \/ Top \/ CreateThrusters \/ LandAgain \/ Doze

CorrectorSteps(g, from, to) ==
  /\ Flying /\ corrector[g] = from
  /\ corrector' = [corrector EXCEPT ![g] = to]
  /\ UNCHANGED <<distance, CURRENT_ACTION, over, masters, climb, time, array_threads, shocks, lowTurns>>

FirstPause(g) ==
  CorrectorSteps(g, "start", "asleep") /\ UNCHANGED <<gasoline, gyros, state_gyros>>

OffLevel(g) ==
  /\ ~Level(g[1])
  /\ CorrectorSteps(g, "run", "gas")
  /\ state_gyros' = [state_gyros EXCEPT ![g[1]] = 1]
  /\ UNCHANGED <<gasoline, gyros>>

\* One of gasoline and one degree; whoever shares the gyroscope may have made it
\* 0 since, and then it goes off level the other way.
Correct(g) ==
  /\ gasoline > LeastFuel
  /\ CorrectorSteps(g, "gas", "run")
  /\ gasoline' = gasoline - 1
  /\ gyros' = [gyros EXCEPT ![g[1]] = IF @ > 0 THEN @ - 1 ELSE @ + 1]
  /\ UNCHANGED state_gyros

\* Level: back to pause.  A SIGCONT that comes before it is repeated in the next
\* round, so the two are one step.
BackToPause(g) ==
  /\ Level(g[1])
  /\ CorrectorSteps(g, "run", "asleep")
  /\ state_gyros' = [state_gyros EXCEPT ![g[1]] = 0]
  /\ UNCHANGED <<gasoline, gyros>>

gyroscope_thread(g) ==
  FirstPause(g) \/ OffLevel(g) \/ Correct(g) \/ BackToPause(g)

-----------------------------------------------------------------------------

\* The simulator writes a gyroscope.
Shock(i) ==
  /\ Flying /\ shocks < Shocks /\ shocks' = shocks + 1
  /\ \E a \in Angles : gyros' = [gyros EXCEPT ![i] = a]
  /\ UNCHANGED <<distance, gasoline, CURRENT_ACTION, state_gyros, over, masters, slaves,
                 lowTurns>>

Ended == ~Flying /\ UNCHANGED vars

MasterStep ==
  \/ \E i \in Gyros : signal_gyro(i)
  \/ pricipal_engine_thread
  \/ signal_restart_landing \/ signal_explote_rocket
  \/ signal_landing_check
  \/ Release

Next ==
  \/ MasterStep
  \/ go_up_30m
  \/ \E g \in Correctors : gyroscope_thread(g)
  \/ \E i \in Gyros : Shock(i)
  \/ Ended

Spec == Init /\ [][Next]_vars

\* Every thread is scheduled; the simulator need not do anything.
FairSpec ==
  /\ Spec
  /\ \A i \in Gyros : WF_vars(signal_gyro(i))
  /\ WF_vars(pricipal_engine_thread)
  /\ WF_vars(signal_restart_landing) /\ WF_vars(signal_explote_rocket)
  /\ WF_vars(signal_landing_check)
  /\ WF_vars(Release)
  /\ WF_vars(go_up_30m)
  /\ \A g \in Correctors : WF_vars(gyroscope_thread(g))

-----------------------------------------------------------------------------
(* Properties.                                                             *)

\* Every variable has its type.
TypeOK ==
  /\ distance \in Int /\ gasoline \in Int /\ gyros \in [Gyros -> Int]
  /\ CURRENT_ACTION \in {EVENT_1, EVENT_3, EVENT_5}
  /\ state_gyros \in [Gyros -> {0, 1}]
  /\ is_on \in BOOLEAN /\ exploded \in BOOLEAN
  /\ reported \subseteq Masters
  /\ restarter \in {"look", "cancel", "wake"}
  /\ exploder \in {"look", "reported", "kill"}
  /\ lander \in {"look", "decide"} /\ dist \in Int
  /\ climb \in {"asleep", "up", "create", "action", "doze"}
  /\ time \in 0 .. INTERVALS
  /\ corrector \in [Correctors -> CorrectorLocations]
  /\ array_threads \in [Gyros -> Correctors]
  /\ shocks \in 0 .. Shocks
  /\ lowTurns \in Nat

\* signal_explote_rocket is in time: from the moment gasoline is below 10 the
\* engine takes three turns at most, however long the abort is under way (one it
\* had still to take in that round, one in the round that is reported in, and
\* one before the SIGINT).
AbortPrompt == lowTurns <= 3

On(g) == corrector[g] # "none"

\* While the landing is restarted, or the thrusters are cut, the gyroscopes'
\* current threads are off, but for the moment before they are cancelled and the
\* one in which go_up_30m has the new ones ready.
ThrustersOff ==
  CURRENT_ACTION # EVENT_1 =>
    \/ restarter = "cancel" \/ climb = "action"
    \/ \A i \in Gyros : ~On(array_threads[i])

\* The rocket lands or gives up: it cannot hang about for ever.
FuelEnds == <>~Flying

=============================================================================
