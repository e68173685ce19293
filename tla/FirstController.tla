--------------------------- MODULE FirstController --------------------------
(***************************************************************************)
(* Proyecto/sistemasck.c, the first version of the controller, with the    *)
(* simulator of its instruments.  Its masters keep no round: they poll,    *)
(* and wake one another with SIGCONT, which is lost on a thread that is    *)
(* not in pause(); SIGTSTP parks the engine in a pause() of its handler,   *)
(* wherever it happens to be.                                              *)
(*                                                                         *)
(* A thread is at "top" in the sleep(INTERVAL) of its loop; a step ends    *)
(* where another thread can tell; a condition is read at once, and calls   *)
(* in a row that only cancel or create threads are one step.  sem_gs[i] is *)
(* shared by the engines only: each gyroscope_thread waits on its own      *)
(* copy.  The sockets, to which the engine reports, and `landscape', which *)
(* nothing sets, are left out.                                             *)
(***************************************************************************)
EXTENDS Simulator, FiniteSets

CONSTANTS
  Lives,     \* pairs of signal_gyro and gyroscope_thread of a gyroscope at once: a bound
  Engines,   \* how many engine threads may exist, one after the other: a bound
  TOP,       \* where the climb of go_up_30m ends (30 in the code)
  CEILING    \* distances above it are not told apart: a bound

ASSUME BoundsAssumption ==
  /\ Lives \in Nat \ {0} /\ Engines \in Nat \ {0} /\ TOP \in Nat /\ CEILING \in Nat /\ TOP < CEILING
  /\ \A f \in Flights : f.distance <= CEILING

Pairs == Gyros \X (1..Lives)

\* The threads.  SG(i, k) and GT(i, k) are the signal_gyro and the gyroscope_thread
\* of the k-th pair of gyroscope i, and PE(k) the k-th engine.
SG(i, k) == <<"signal_gyro", i, k>>
GT(i, k) == <<"gyroscope_thread", i, k>>
PE(k) == <<"pricipal_engine_thread", k>>
RL == <<"signal_restart_landing">>
SE == <<"signal_explote_rocket">>
LC == <<"signal_landing_check">>
MA == <<"sig_handler_manual">>
GU == <<"go_up_30m">>
EX == <<"go_up_explode">>
MAIN == <<"main">>

SignalGyros == {SG(p[1], p[2]) : p \in Pairs}
GyroThreads == {GT(p[1], p[2]) : p \in Pairs}
EngineThreads == {PE(k) : k \in 1..Engines}
Threads == SignalGyros \cup GyroThreads \cup EngineThreads \cup {RL, SE, LC, MA, GU, EX, MAIN}
Nobody == <<"nobody">>

VARIABLES
  pc,
  cancelled,       \* threads with a request pending
  parked,          \* engines in the pause() of sig_handler_threads
  pair,            \* array_threads[i] and array_threads_signals[i] hold pair <<i, pair[i]>>
  engine,          \* array_threads[2] holds PE(engine)
  dud,             \* gyroscope_threads whose copy of sem_gs[i] was taken while it was 0
  sem_gs, sem_gas, \* who holds them
  loaded,          \* what the holder of sem_gas has read of gasoline, or of distance
  climb,           \* what go_up_30m has read of distance
  is_on, princp_engine, manual_explote, last_alamra, state_gyros,
  missed,          \* history: threads whose last SIGCONT found them awake
  raced            \* history: which windows another thread has stepped into

locks == <<sem_gs, sem_gas, loaded>>
flags == <<is_on, princp_engine, manual_explote, last_alamra>>
arrays == <<pair, engine, dud, state_gyros>>
vars == <<instruments, simulator, pc, cancelled, parked, locks, climb, flags, arrays, missed, raced>>

\* main has created its threads, and the slaves have come to their first pause().
Init ==
  /\ SimulatorInit
  /\ pc = [t \in Threads |->
             CASE t = GU \/ (t \in GyroThreads /\ t[3] = 1) -> "asleep"
               [] t \in {PE(1), RL, SE, LC, MA, MAIN} \/ (t \in SignalGyros /\ t[3] = 1) -> "top"
               [] OTHER -> "dead"]
  /\ cancelled = {} /\ parked = {}
  /\ pair = [i \in Gyros |-> 1] /\ engine = 1 /\ dud = {}
  /\ sem_gs = [i \in Gyros |-> Nobody] /\ sem_gas = Nobody /\ loaded = 0 /\ climb = 0
  /\ is_on = TRUE /\ princp_engine = 1 /\ manual_explote = 0 /\ last_alamra = 0
  /\ state_gyros = [i \in Gyros |-> 0]
  /\ missed = {} /\ raced = {}

-----------------------------------------------------------------------------
(* What the threads have in common.                                        *)

\* Mutant: PTHREAD_CANCEL_ASYNCHRONOUS.
CancellationPointsAnywhere == {"top", "pause", "asleep", "gs", "gas", "burn", "store", "post"}

\* Cancellation is deferred (PTHREAD_CANCEL_DEFERRED) to testcancel, sleep, pause
\* and sem_wait.
CancellationPoints == {"top", "pause", "asleep", "gs", "gas"}

At(t, l) ==
  /\ pc[t] = l /\ t \notin parked
  /\ t \in cancelled => l \notin CancellationPoints

\* Once more around `while (is_on)', or the end of the thread.
Loop == IF is_on THEN "top" ELSE "dead"

Go(t, l) == pc' = [pc EXCEPT ![t] = l]

\* pthread_kill(t, SIGCONT) by u, which goes on to its pause().
SignalAndPause(u, t) ==
  /\ pc' = [pc EXCEPT ![u] = "pause", ![t] = IF @ = "asleep" THEN Loop ELSE @]
  /\ missed' = IF pc[t] = "asleep" THEN missed \ {t} ELSE missed \cup {t}

Cancellable(t) == pc[t] \in CancellationPoints \/ t \in parked

\* Thread u goes on to l after pthread_cancel of the threads in T: who is at a
\* cancellation point is as good as dead, the others stop at their next one.  What
\* they hold stays taken.
Cancel(T, u, l) ==
  /\ pc' = [t \in Threads |->
              IF t = u THEN l ELSE IF t \in T /\ Cancellable(t) THEN "dead" ELSE pc[t]]
  /\ cancelled' = cancelled \cup {t \in T : pc[t] # "dead" /\ ~Cancellable(t)}

CurrentPairs == {SG(i, pair[i]) : i \in Gyros} \cup {GT(i, pair[i]) : i \in Gyros}

terminate_event_1 == CurrentPairs

\* Mutant: go_up_30m is forgotten.
terminate_event_3_half == {RL}

terminate_event_3 == {GU, RL}

\* Places for a new pair; dead threads' places are used again.
FreePlaces(i) == {k \in 1..Lives : pc[SG(i, k)] = "dead" /\ pc[GT(i, k)] = "dead"}

\* A new pair for each gyroscope, by a thread u that goes on to l.  A pair must be
\* left for each (a bound).
create_signals_gyros(u, l) ==
  /\ \A i \in Gyros : FreePlaces(i) # {}
  /\ pair' = [i \in Gyros |-> CHOOSE k \in FreePlaces(i) : TRUE]
  /\ LET new == {SG(i, pair'[i]) : i \in Gyros} \cup {GT(i, pair'[i]) : i \in Gyros} IN
       /\ pc' = [t \in Threads |->
                   IF t = u THEN l
                   ELSE IF t \notin new THEN pc[t]
                   ELSE IF t \in SignalGyros THEN Loop ELSE "pause"]
       /\ missed' = missed \ new /\ cancelled' = cancelled \ new
  /\ dud' = (dud \ {GT(i, pair'[i]) : i \in Gyros})
              \cup {GT(i, pair'[i]) : i \in {j \in Gyros : sem_gs[j] # Nobody}}
  /\ state_gyros' = [i \in Gyros |-> 0]

\* The windows a thread that sets princp_engine to 1 steps into: signal_landing_check
\* is between princp_engine = 0 and its SIGTSTP, or sig_handler_manual between its
\* SIGTSTP and the new engine.
Windows ==
  {w \in {"cut", "restart"} :
     \/ w = "cut" /\ pc[LC] = "stop"
     \/ w = "restart" /\ pc[MA] \in {"engine", "engine and thrusters"}}

\* manage_principal_engine(0).
WakeEngine ==
  IF princp_engine = 0
  THEN /\ princp_engine' = 1
       /\ parked' = parked \ {PE(engine)}
       /\ raced' = raced \cup Windows
  ELSE UNCHANGED <<princp_engine, parked, raced>>

\* Mutant: the engine is not stopped.
StopEngineNot == UNCHANGED parked

\* pthread_kill(array_threads[2], SIGTSTP); one that is parked already stays so: the
\* signal is blocked in its own handler, and the SIGCONT that ends it drops it.
StopEngine == parked' = IF pc[PE(engine)] = "dead" THEN parked ELSE parked \cup {PE(engine)}

Pause(t) ==
  /\ At(t, "pause") /\ Go(t, "asleep")
  /\ UNCHANGED <<instruments, simulator, cancelled, parked, locks, climb, flags, arrays, missed, raced>>

Cancelled(t) ==
  /\ t \in cancelled /\ Cancellable(t)
  /\ Go(t, "dead")
  /\ cancelled' = cancelled \ {t} /\ parked' = parked \ {t}
  /\ UNCHANGED <<instruments, simulator, locks, climb, flags, arrays, missed, raced>>

\* A test of is_on that came late: nothing happens between the end of a turn and it.
Leave(t) ==
  /\ (At(t, "top") /\ t # MAIN) \/ (At(t, "gas") /\ t = EX)
  /\ ~is_on /\ Go(t, "dead")
  /\ UNCHANGED <<instruments, simulator, cancelled, parked, locks, climb, flags, arrays, missed, raced>>

-----------------------------------------------------------------------------
(* A gyroscope's pair: signal_gyro wakes gyroscope_thread and pauses;       *)
(* gyroscope_thread corrects the angle, wakes signal_gyro and pauses.       *)

signal_gyro(i, k) ==
  LET t == SG(i, k) IN
  \/ /\ At(t, "top")
     /\ Go(t, IF distance <= 5 THEN "dead" ELSE IF gyros[i] # 0 THEN "kill" ELSE Loop)
     /\ UNCHANGED <<instruments, simulator, cancelled, parked, locks, climb, flags, arrays, missed, raced>>
  \/ /\ At(t, "kill")
     /\ SignalAndPause(t, GT(i, pair[i]))
     /\ UNCHANGED <<instruments, simulator, cancelled, parked, locks, climb, flags, arrays, raced>>

Look(i, k) ==
  LET t == GT(i, k) IN
  /\ At(t, "top") /\ t \notin dud
  /\ Go(t, IF gyros[i] # 0 THEN "gas" ELSE "kill")
  /\ state_gyros' = IF gyros[i] # 0 THEN [state_gyros EXCEPT ![i] = 1] ELSE state_gyros
  /\ UNCHANGED <<instruments, simulator, cancelled, parked, locks, climb, flags, pair, engine, dud, missed, raced>>

TakeGas(t, l) ==
  /\ At(t, "gas") /\ sem_gas = Nobody
  /\ sem_gas' = t /\ loaded' = gasoline
  /\ Go(t, l)
  /\ UNCHANGED <<instruments, simulator, cancelled, parked, sem_gs, climb, flags, arrays, missed, raced>>

\* gyros[i] is an int: taking 0.5 from it, or adding 0.5, moves it by one towards 0.
Correct(i, k) ==
  LET t == GT(i, k) IN
  /\ At(t, "burn") /\ Go(t, Loop)
  /\ gasoline' = Fuel(loaded - 1)
  /\ sem_gas' = Nobody /\ loaded' = 0
  /\ gyros' = [gyros EXCEPT ![i] = IF @ > 0 THEN @ - 1 ELSE IF @ < 0 THEN @ + 1 ELSE 0]
  /\ UNCHANGED <<distance, alarma, simulator, cancelled, parked, sem_gs, climb, flags, arrays, missed, raced>>

\* Mutant: gyroscope_thread pauses without waking signal_gyro.
WakeSignalGyroNot(i, k) ==
  /\ At(GT(i, k), "kill") /\ Go(GT(i, k), "pause")
  /\ UNCHANGED <<instruments, simulator, cancelled, parked, locks, climb, flags, arrays, missed, raced>>

WakeSignalGyro(i, k) ==
  /\ At(GT(i, k), "kill")
  /\ SignalAndPause(GT(i, k), SG(i, pair[i]))
  /\ UNCHANGED <<instruments, simulator, cancelled, parked, locks, climb, flags, arrays, raced>>

gyroscope_thread(i, k) ==
  Look(i, k) \/ TakeGas(GT(i, k), "burn") \/ Correct(i, k) \/ WakeSignalGyro(i, k)

-----------------------------------------------------------------------------
(* The engine: sem_gs[0], sem_gs[1], ..., then sem_gas.                    *)

TakeGyros(k) ==
  LET t == PE(k)
      i == CHOOSE j \in Gyros : sem_gs[j] # t /\ \A h \in 0..(j - 1) : sem_gs[h] = t
  IN
  /\ At(t, "top") \/ At(t, "gs")
  /\ sem_gs[i] = Nobody
  /\ sem_gs' = [sem_gs EXCEPT ![i] = t]
  /\ Go(t, IF i = NUM_GYROS - 1 THEN "gas" ELSE "gs")
  /\ UNCHANGED <<instruments, simulator, cancelled, parked, sem_gas, loaded, climb, flags, arrays, missed, raced>>

\* Adding 0.5 to an int stores what was read, and undoes what the simulator has
\* burnt meanwhile.
Refill(k) ==
  LET t == PE(k) IN
  /\ At(t, "store") \/ At(t, "post")
  /\ Go(t, Loop)
  /\ gasoline' = IF pc[t] = "store" THEN loaded ELSE gasoline
  /\ sem_gas' = Nobody /\ loaded' = 0
  /\ sem_gs' = [i \in Gyros |-> Nobody]
  /\ UNCHANGED <<distance, gyros, alarma, simulator, cancelled, parked, climb, flags, arrays, missed, raced>>

pricipal_engine_thread(k) ==
  \/ TakeGyros(k)
  \/ TakeGas(PE(k), IF \E i \in Gyros : state_gyros[i] # 0 THEN "store" ELSE "post")
  \/ Refill(k)

-----------------------------------------------------------------------------
(* The landing: signal_restart_landing sends go_up_30m up when the rocket   *)
(* is near the ground and off level; signal_landing_check ends it or cuts   *)
(* the thrusters and the engine.                                            *)

signal_restart_landing ==
  \/ /\ At(RL, "top")
     /\ IF distance < 5 /\ \E i \in Gyros : gyros[i] # 0
        THEN Cancel(terminate_event_1, RL, "kill") /\ WakeEngine
        ELSE Go(RL, Loop) /\ UNCHANGED <<cancelled, parked, princp_engine, raced>>
     /\ UNCHANGED <<instruments, simulator, locks, climb, is_on, manual_explote, last_alamra, arrays, missed>>
  \/ /\ At(RL, "kill")
     /\ SignalAndPause(RL, GU)
     /\ UNCHANGED <<instruments, simulator, cancelled, parked, locks, climb, flags, arrays, raced>>

\* *distance += 2 is a load and a store, and no lock is held.
LoadDistance ==
  /\ At(GU, "top") /\ distance < TOP
  /\ climb' = distance /\ Go(GU, "climb")
  /\ UNCHANGED <<instruments, simulator, cancelled, parked, locks, flags, arrays, missed, raced>>

StoreDistance ==
  /\ At(GU, "climb") /\ Go(GU, Loop)
  /\ distance' = climb + 2 /\ climb' = 0
  /\ UNCHANGED <<gasoline, gyros, alarma, simulator, cancelled, parked, locks, flags, arrays, missed, raced>>

EndClimb ==
  /\ At(GU, "top") /\ distance >= TOP
  /\ create_signals_gyros(GU, "kill")
  /\ UNCHANGED <<instruments, simulator, parked, locks, climb, flags, engine, raced>>

WakeRestarter ==
  /\ At(GU, "kill")
  /\ SignalAndPause(GU, RL)
  /\ UNCHANGED <<instruments, simulator, cancelled, parked, locks, climb, flags, arrays, raced>>

go_up_30m == LoadDistance \/ StoreDistance \/ EndClimb \/ WakeRestarter

DeclareLanding ==
  \/ /\ At(LC, "top") /\ distance = 0 /\ \A i \in Gyros : gyros[i] = 0
     /\ is_on' = FALSE /\ Go(LC, "landed")
     /\ UNCHANGED <<instruments, simulator, cancelled, parked, locks, climb, princp_engine, manual_explote, last_alamra, arrays, missed, raced>>
  \/ /\ At(LC, "landed")
     /\ Cancel(terminate_event_3 \cup {SE, MAIN}, LC, "dead")
     /\ UNCHANGED <<instruments, simulator, parked, locks, climb, flags, arrays, missed, raced>>

\* Mutant: princp_engine is left at 1.
CutEngineFlagged ==
  \/ /\ At(LC, "top") /\ distance <= 1 /\ \E i \in Gyros : gyros[i] = 0
     /\ ~(distance = 0 /\ \A i \in Gyros : gyros[i] = 0)
     /\ Cancel(terminate_event_1, LC, "stop")
     /\ UNCHANGED princp_engine
     /\ UNCHANGED <<instruments, simulator, parked, locks, climb, is_on, manual_explote, last_alamra, arrays, missed, raced>>
  \/ /\ At(LC, "stop") /\ Go(LC, Loop)
     /\ StopEngine
     /\ UNCHANGED <<instruments, simulator, cancelled, locks, climb, flags, arrays, missed, raced>>

\* At a meter from the ground one level gyroscope is enough.
CutEngine ==
  \/ /\ At(LC, "top") /\ distance <= 1 /\ \E i \in Gyros : gyros[i] = 0
     /\ ~(distance = 0 /\ \A i \in Gyros : gyros[i] = 0)
     /\ Cancel(terminate_event_1, LC, "stop")
     /\ princp_engine' = 0
     /\ UNCHANGED <<instruments, simulator, parked, locks, climb, is_on, manual_explote, last_alamra, arrays, missed, raced>>
  \/ /\ At(LC, "stop") /\ Go(LC, Loop)
     /\ StopEngine
     /\ UNCHANGED <<instruments, simulator, cancelled, locks, climb, flags, arrays, missed, raced>>

GoOnLanding ==
  /\ At(LC, "top") /\ ~(distance <= 1 /\ \E i \in Gyros : gyros[i] = 0)
  /\ Go(LC, Loop)
  /\ UNCHANGED <<instruments, simulator, cancelled, parked, locks, climb, flags, arrays, missed, raced>>

signal_landing_check == DeclareLanding \/ CutEngine \/ GoOnLanding

-----------------------------------------------------------------------------
(* The abort.                                                              *)

signal_explote_rocket ==
  \/ /\ At(SE, "top")
     /\ IF gasoline < 10 \/ manual_explote = 1
        THEN WakeEngine /\ Cancel(terminate_event_1, SE, "abort")
        ELSE Go(SE, Loop) /\ UNCHANGED <<cancelled, parked, princp_engine, raced>>
     /\ UNCHANGED <<instruments, simulator, locks, climb, is_on, manual_explote, last_alamra, arrays, missed>>
  \/ /\ At(SE, "abort")
     /\ Cancel(terminate_event_3, SE, "create")
     /\ UNCHANGED <<instruments, simulator, parked, locks, climb, flags, arrays, missed, raced>>
  \/ /\ At(SE, "create")
     /\ pc' = [pc EXCEPT ![SE] = "dead", ![EX] = IF is_on THEN "gas" ELSE "dead"]
     /\ UNCHANGED <<instruments, simulator, cancelled, parked, locks, climb, flags, arrays, missed, raced>>

\* Under sem_gas, which the last turn does not post.
TakeGasToClimb ==
  /\ At(EX, "gas") /\ sem_gas = Nobody /\ sem_gas' = EX
  /\ IF gasoline > 5
     THEN Go(EX, "climb") /\ loaded' = distance /\ UNCHANGED is_on
     ELSE Go(EX, "explode") /\ is_on' = FALSE /\ UNCHANGED loaded
  /\ UNCHANGED <<instruments, simulator, cancelled, parked, sem_gs, climb, princp_engine, manual_explote, last_alamra, arrays, missed, raced>>

Compensate ==
  /\ At(EX, "climb")
  /\ Go(EX, IF is_on THEN "gas" ELSE "dead")
  /\ distance' = IF loaded + 2 > CEILING THEN CEILING ELSE loaded + 2
  /\ sem_gas' = Nobody /\ loaded' = 0
  /\ UNCHANGED <<gasoline, gyros, alarma, simulator, cancelled, parked, sem_gs, climb, flags, arrays, missed, raced>>

Explode ==
  /\ At(EX, "explode")
  /\ Cancel({PE(engine), MAIN}, EX, "dead") /\ parked' = parked \ {PE(engine)}
  /\ UNCHANGED <<instruments, simulator, locks, climb, flags, arrays, missed, raced>>

go_up_explode == TakeGasToClimb \/ Compensate \/ Explode

-----------------------------------------------------------------------------
(* The alarms.                                                             *)

\* Mutant: the branch of 104 does not break.
BranchGoesOn ==
  CASE alarma = 101 -> "stop and thrusters"
    [] alarma = 102 -> "stop"
    [] alarma = 103 -> "thrusters"
    [] OTHER        -> "seen"

\* Where the branch that *alarma selects begins; "seen" is last_alamra = *alarma.
Branch ==
  CASE alarma = 101 -> "stop and thrusters"
    [] alarma = 102 -> "stop"
    [] alarma = 103 -> "thrusters"
    [] alarma = 104 -> "dead"
    [] OTHER        -> "seen"

ReadAlarm ==
  /\ At(MA, "top")
  /\ IF last_alamra # alarma
     THEN Go(MA, Branch) /\ manual_explote' = IF alarma = 104 THEN 1 ELSE manual_explote
     ELSE Go(MA, Loop) /\ UNCHANGED manual_explote
  /\ UNCHANGED <<instruments, simulator, cancelled, parked, locks, climb, is_on, princp_engine, last_alamra, arrays, missed, raced>>

\* manage_principal_engine(1), as long as an engine is left (a bound).
RestartEngine ==
  \/ /\ pc[MA] \in {"stop", "stop and thrusters"} /\ engine < Engines
     /\ StopEngine /\ princp_engine' = 0
     /\ Go(MA, IF pc[MA] = "stop" THEN "engine" ELSE "engine and thrusters")
     /\ UNCHANGED <<instruments, simulator, cancelled, locks, climb, is_on, manual_explote, last_alamra, arrays, missed, raced>>
  \/ /\ pc[MA] \in {"engine", "engine and thrusters"}
     /\ engine' = engine + 1
     /\ pc' = [pc EXCEPT ![PE(engine + 1)] = Loop,
                         ![MA] = IF @ = "engine" THEN "seen" ELSE "thrusters"]
     /\ princp_engine' = 1 /\ raced' = raced \cup (Windows \ {"restart"})
     /\ UNCHANGED <<instruments, simulator, cancelled, parked, locks, climb, is_on, manual_explote, last_alamra, pair, dud, state_gyros, missed>>

restart_thrusters ==
  \/ /\ pc[MA] = "thrusters"
     /\ Cancel(terminate_event_1, MA, "create")
     /\ UNCHANGED <<instruments, simulator, parked, locks, climb, flags, arrays, missed, raced>>
  \/ /\ pc[MA] = "create"
     /\ create_signals_gyros(MA, "seen")
     /\ UNCHANGED <<instruments, simulator, parked, locks, climb, flags, engine, raced>>

SeeAlarm ==
  /\ pc[MA] = "seen" /\ Go(MA, Loop)
  /\ last_alamra' = alarma
  /\ UNCHANGED <<instruments, simulator, cancelled, parked, locks, climb, is_on, princp_engine, manual_explote, arrays, missed, raced>>

sig_handler_manual == ReadAlarm \/ RestartEngine \/ restart_thrusters \/ SeeAlarm

-----------------------------------------------------------------------------

\* main returns, and the process ends, if it reads is_on before it is cancelled.
Main ==
  /\ At(MAIN, "top") /\ ~is_on
  /\ Go(MAIN, "exited")
  /\ UNCHANGED <<instruments, simulator, cancelled, parked, locks, climb, flags, arrays, missed, raced>>

\* An alarm that comes while sig_handler_manual is busy with another.
SimulatorStep ==
  /\ SimulatorNext
  /\ raced' = IF alarma' # alarma /\ pc[MA] # "top" THEN raced \cup {"alarm"} ELSE raced
  /\ UNCHANGED <<pc, cancelled, parked, locks, climb, flags, arrays, missed>>

Next ==
  /\ pc[MAIN] # "exited"
  /\ \/ SimulatorStep \/ Main
     \/ \E p \in Pairs : signal_gyro(p[1], p[2]) \/ gyroscope_thread(p[1], p[2])
     \/ \E k \in 1..Engines : pricipal_engine_thread(k)
     \/ signal_restart_landing \/ go_up_30m \/ signal_landing_check
     \/ signal_explote_rocket \/ go_up_explode \/ sig_handler_manual
     \/ \E t \in Threads : Pause(t) \/ Cancelled(t) \/ Leave(t)

Spec == Init /\ [][Next]_vars

-----------------------------------------------------------------------------
(* Properties.                                                             *)

Locations ==
  {"top", "pause", "asleep", "dead", "exited", "kill", "gas", "burn", "gs", "store", "post",
   "climb", "landed", "stop", "abort", "create", "explode", "stop and thrusters", "thrusters",
   "engine", "engine and thrusters", "seen"}

\* The type invariant; the rocket is never below the meter it sinks into the ground.
TypeOK ==
  /\ pc \in [Threads -> Locations]
  /\ distance \in -1..CEILING /\ gasoline \in Int /\ gyros \in [Gyros -> Int] /\ alarma \in Int
  /\ cancelled \subseteq Threads /\ parked \subseteq EngineThreads
  /\ pair \in [Gyros -> 1..Lives] /\ engine \in 1..Engines /\ dud \subseteq GyroThreads
  /\ sem_gs \in [Gyros -> EngineThreads \cup {Nobody}] /\ sem_gas \in Threads \cup {Nobody}
  /\ is_on \in BOOLEAN /\ princp_engine \in 0..1 /\ manual_explote \in 0..1
  /\ state_gyros \in [Gyros -> 0..1]

Dozing(t, u) == {t, u} \cap cancelled = {} /\ pc[t] = "asleep" /\ pc[u] = "asleep"

\* The two threads of a gyroscope's pair, or signal_restart_landing and go_up_30m,
\* sleep on both only when a SIGCONT to one of them came before its pause().
MissedSignal ==
  /\ Dozing(RL, GU) => missed \cap {RL, GU} # {}
  /\ \A i \in Gyros :
       Dozing(SG(i, pair[i]), GT(i, pair[i])) =>
         missed \cap {SG(i, pair[i]), GT(i, pair[i])} # {}

\* sem_gas stays taken for good only by an engine that SIGTSTP has parked or by
\* go_up_explode, which ends with it.
GasKept ==
  sem_gas \in Threads \ (parked \cup {EX}) =>
    pc[sem_gas] \in {"burn", "store", "post"}

\* The current engine is parked with princp_engine at 1, where nothing wakes it,
\* only if another thread set the flag between the two steps of CutEngine.
EngineFlag == PE(engine) \in parked /\ princp_engine = 1 => "cut" \in raced

\* An engine that has been replaced runs on only if somebody woke it between its
\* SIGTSTP and the creation of the new one.
OldEngineParked ==
  \A k \in 1..Engines :
    pc[PE(k)] # "dead" /\ k # engine => PE(k) \in parked \/ "restart" \in raced

\* Once signal_landing_check is done only threads of a gyroscope's pair are left asleep, in a pause()
\* that nobody ends: signal_restart_landing and go_up_30m have gone.
LandedSleepers ==
  pc[LC] = "dead" =>
    \A t \in Threads :
      pc[t] = "asleep" /\ t \notin cancelled => t \in SignalGyros \cup GyroThreads

\* Alarm 104 is taken for seen without an abort only if it came while
\* sig_handler_manual was busy with another alarm.
AlarmSwallowed == last_alamra = 104 => "alarm" \in raced

=============================================================================
