----------------------------- MODULE FlightLocks ----------------------------
(***************************************************************************)
(* The semaphores of Proyecto/sistema.c: in which order each thread takes  *)
(* and posts sem_dist, sem_action, sem_gs[i] and sem_gas in a turn of its  *)
(* loop, what a cancelled engine takes with it, and the private copies of  *)
(* sem_gs[i] that the gyroscope threads wait on.                           *)
(*                                                                         *)
(* A turn of a thread is a script, one of those its branches allow; which  *)
(* branch the data selects is left open.  The turns follow one another     *)
(* without the round of ReportRound between them, which only delays them.  *)
(* signal_explote_rocket is left out: it takes sem_gas and sem_action one  *)
(* at a time and never holds one while it waits for the other.  Landing    *)
(* and aborting end the program and are left to ReportRound and Shutdown.  *)
(***************************************************************************)
EXTENDS Integers, Sequences, FiniteSets

CONSTANTS
  NUM_GYROS,
  EngineLives,   \* how many engine threads may exist, one after the other: a bound
  GyroLives,     \* how many gyroscope threads of one gyroscope may exist at once: a bound
  AlarmWork      \* what sig_handler_manual may do in a turn (see ManualTurn)

ASSUME GyrosAssumption == NUM_GYROS \in Nat \ {0}
ASSUME LivesAssumption == EngineLives \in Nat \ {0} /\ GyroLives \in Nat \ {0}
ASSUME WorkAssumption == AlarmWork \subseteq {"engine", "thrusters", "both"}

Gyros == 0 .. NUM_GYROS - 1

\* The threads: signal_gyro i and its gyroscope_threads, the engine's lives, and
\* signal_restart_landing, signal_explote_rocket, signal_landing_check,
\* sig_handler_manual and go_up_30m.
SG(i) == <<"SG", i>>
GT(i, k) == <<"GT", i, k>>
PE(k) == <<"PE", k>>
RL == <<"RL">>
LC == <<"LC">>
MA == <<"MA">>
GU == <<"GU">>

SignalGyros == {SG(i) : i \in Gyros}
GyroThreads == {GT(i, k) : i \in Gyros, k \in 1..GyroLives}
Engines == {PE(k) : k \in 1..EngineLives}
Threads == SignalGyros \cup GyroThreads \cup Engines \cup {RL, LC, MA, GU}

Dist == <<"dist">>
Action == <<"action">>
Gas == <<"gas">>
Gs(i) == <<"gs", i>>
Shared == {Dist, Action, Gas} \cup {Gs(i) : i \in Gyros}

\* The copy of arg->sem_gyro that a thread makes when it starts.
Copy(t) == <<"copy", t>>
Copies == {Copy(t) : t \in SignalGyros \cup GyroThreads}

VARIABLES
  script,      \* what is left of each thread's turn
  status,      \* "unborn", "start", "run", "asleep" or "dead"
  cancelled,   \* threads with a pending pthread_cancel
  sem,         \* the value of each semaphore
  held,        \* the semaphores a thread has taken and not posted
  arg,         \* array_gyros[i].sem_gyro
  engine,      \* array_threads[2]
  gyro         \* array_threads[i]

vars == <<script, status, cancelled, sem, held, arg, engine, gyro>>

-----------------------------------------------------------------------------
(* The scripts.  Use(s) takes s and posts it with nothing in between that   *)
(* can block; Post posts several semaphores in one step, since posts never *)
(* block and are no cancellation points.                                   *)

Wait(s) == <<"wait", s>>
Use(s) == <<"use", s>>
Post(S) == <<"post", S>>
CancelThrusters == <<"cancel_thrusters">>
CreateThrusters == <<"create_thrusters">>
RestartEngine == <<"restart_engine">>
WakeClimb == <<"wake_climb">>
WakeGyro == <<"wake_gyro">>
Pause == <<"pause">>
WaitGyros == [i \in 1..NUM_GYROS |-> Wait(Gs(i - 1))]
AllGs == {Gs(i) : i \in Gyros}

change_action == Use(Action)

\* The gyroscope is off level and the rocket landing, or not.
SignalGyroTurns(t) ==
  {<<Wait(Action), Wait(Copy(t))>> \o wake \o <<Post({Action, Copy(t)})>> :
     wake \in {<<>>, <<WakeGyro>>}}

EngineTurn ==
  <<Wait(Dist), Wait(Action)>> \o WaitGyros
    \o <<Use(Gas), Post(AllGs \cup {Action, Dist})>>

\* Mutant: sem_dist is posted along with sem_action, before change_action.
RestartTurnEarlyPost ==
  <<Wait(Dist), Wait(Action)>> \o WaitGyros
    \o <<Post({Action, Dist}), change_action, Post(AllGs), CancelThrusters, WakeClimb>>

\* Mutant: sem_action is posted before the branch and once more in it.
NoRestartTurnTwice ==
  <<Wait(Dist), Wait(Action)>> \o WaitGyros
    \o <<Post({Action}), Post(AllGs \cup {Action, Dist})>>

RestartTurn ==   \* the landing has to start again
  <<Wait(Dist), Wait(Action)>> \o WaitGyros
    \o <<Post({Action}), change_action, Post(AllGs \cup {Dist}), CancelThrusters, WakeClimb>>

NoRestartTurn ==
  <<Wait(Dist), Wait(Action)>> \o WaitGyros \o <<Post(AllGs \cup {Action, Dist})>>

LandingTurn == <<Use(Dist)>> \o WaitGyros \o <<Post(AllGs)>>

CutTurn ==       \* a meter from the ground: the thrusters are cut
  <<Use(Dist)>> \o WaitGyros \o <<change_action, CancelThrusters, Post(AllGs)>>

\* Alarms 102, 103 and 101.
ManualTurn(work) ==
  (IF work \in {"engine", "both"} THEN <<RestartEngine>> ELSE <<>>)
    \o (IF work \in {"thrusters", "both"} THEN <<CancelThrusters, CreateThrusters>> ELSE <<>>)

CorrectTurn(t) == <<Wait(Copy(t)), Use(Gas), Post({Copy(t)})>>
LevelTurn(t) == <<Use(Copy(t)), Pause>>

ClimbTurn == <<Use(Dist)>>
TopTurn == <<Use(Dist), CreateThrusters, change_action, Pause>>

TurnsOf(t) ==
  CASE t \in SignalGyros -> SignalGyroTurns(t)
    [] t \in GyroThreads -> {CorrectTurn(t), LevelTurn(t)}
    [] t \in Engines     -> {EngineTurn}
    [] t = RL            -> {RestartTurn, NoRestartTurn}
    [] t = LC            -> {LandingTurn, CutTurn}
    [] t = MA            -> {ManualTurn(w) : w \in AlarmWork}
    [] t = GU            -> {ClimbTurn, TopTurn}

Turns == [t \in Threads |-> TurnsOf(t)]

-----------------------------------------------------------------------------

Init ==
  /\ script = [t \in Threads |-> <<>>]
  /\ status = [t \in Threads |->
                 CASE t \in SignalGyros \cup {GT(i, 1) : i \in Gyros} -> "start"
                   [] t = GU -> "asleep"
                   [] t \in {PE(1), RL, LC, MA} -> "run"
                   [] OTHER -> "unborn"]
  /\ cancelled = {}
  /\ sem = [s \in Shared \cup Copies |-> IF s \in Shared THEN 1 ELSE 0]
  /\ held = [t \in Threads |-> {}]
  /\ arg = [i \in Gyros |-> 1]
  /\ engine = PE(1)
  /\ gyro = [i \in Gyros |-> GT(i, 1)]

lifeVars == <<cancelled, arg, engine, gyro>>

\* A thread with a request pending stops at its next cancellation point: a
\* semaphore, send_mesg or the top of its loop; posts are none.
CancellationPoints == {"wait", "use", "pause"}

\* What t may go on with: the rest of its turn or, at the top of its loop, any turn.
Todo(t) == IF script[t] = <<>> THEN Turns[t] ELSE {script[t]}

Runs(t, turn, op) ==
  /\ status[t] = "run" /\ turn \in Todo(t) /\ Head(turn)[1] = op
  /\ t \in cancelled => op \notin CancellationPoints

Advance(t, turn) == script' = [script EXCEPT ![t] = Tail(turn)]

\* The thread copies arg->sem_gyro as it stands; a gyroscope_thread then pauses.
Start(t) ==
  /\ status[t] = "start"
  /\ sem' = [sem EXCEPT ![Copy(t)] = arg[t[2]]]
  /\ status' = [status EXCEPT ![t] = IF t \in SignalGyros THEN "run" ELSE "asleep"]
  /\ UNCHANGED <<script, held, lifeVars>>

sem_wait(t, turn) ==
  LET s == Head(turn)[2] IN
  /\ Runs(t, turn, "wait")
  /\ sem[s] > 0
  /\ sem' = [sem EXCEPT ![s] = @ - 1]
  /\ held' = [held EXCEPT ![t] = @ \cup {s}]
  /\ Advance(t, turn)
  /\ UNCHANGED <<status, lifeVars>>

UseSem(t, turn) ==
  /\ Runs(t, turn, "use")
  /\ sem[Head(turn)[2]] > 0
  /\ Advance(t, turn)
  /\ UNCHANGED <<status, sem, held, lifeVars>>

sem_post(t, turn) ==
  LET S == Head(turn)[2] IN
  /\ Runs(t, turn, "post")
  /\ sem' = [s \in DOMAIN sem |-> IF s \in S THEN sem[s] + 1 ELSE sem[s]]
  /\ held' = [held EXCEPT ![t] = @ \ S]
  /\ Advance(t, turn)
  /\ UNCHANGED <<status, lifeVars>>

pthread_cancel(T) == cancelled' = cancelled \cup {t \in T : status[t] # "dead"}

\* Mutant: terminate_event_1(1): the gyroscopes' masters go as well.
terminate_event_1_all(t, turn) ==
  /\ Runs(t, turn, "cancel_thrusters")
  /\ pthread_cancel({gyro[i] : i \in Gyros} \cup SignalGyros)
  /\ Advance(t, turn)
  /\ UNCHANGED <<status, sem, held, arg, engine, gyro>>

\* terminate_event_1(0).
terminate_event_1(t, turn) ==
  /\ Runs(t, turn, "cancel_thrusters")
  /\ pthread_cancel({gyro[i] : i \in Gyros})
  /\ Advance(t, turn)
  /\ UNCHANGED <<status, sem, held, arg, engine, gyro>>

\* create_signals_gyros(0): one new thread per gyroscope, whether or not the one
\* before it is still there, as long as a life is left (a bound).
create_signals_gyros(t, turn) ==
  LET Free(i) == {g \in {GT(i, k) : k \in 1..GyroLives} : status[g] \in {"unborn", "dead"}}
  IN
  /\ Runs(t, turn, "create_thrusters")
  /\ \A i \in Gyros : Free(i) # {}
  /\ arg' = [i \in Gyros |-> sem[Gs(i)]]
  /\ gyro' = [i \in Gyros |-> CHOOSE g \in Free(i) : TRUE]
  /\ status' = [g \in Threads |-> IF \E i \in Gyros : g = gyro'[i] THEN "start" ELSE status[g]]
  /\ Advance(t, turn)
  /\ UNCHANGED <<sem, held, cancelled, engine>>

\* manage_principal_engine(1), as long as a life is left (a bound).
manage_principal_engine(t, turn) ==
  /\ Runs(t, turn, "restart_engine")
  /\ \E e \in Engines :
       /\ status[e] = "unborn"
       /\ status' = [status EXCEPT ![e] = "run"]
       /\ engine' = e
  /\ pthread_cancel({engine})
  /\ Advance(t, turn)
  /\ UNCHANGED <<sem, held, arg, gyro>>

\* SIGCONT ends a pause, and is lost on a thread that is not in one.
Woken(g) == status' = [status EXCEPT ![g] = IF @ = "asleep" THEN "run" ELSE @]

WakeSlave(t, turn) ==
  /\ \/ Runs(t, turn, "wake_climb") /\ Woken(GU)
     \/ Runs(t, turn, "wake_gyro") /\ Woken(gyro[t[2]])
  /\ Advance(t, turn)
  /\ UNCHANGED <<sem, held, lifeVars>>

pause(t, turn) ==
  /\ Runs(t, turn, "pause")
  /\ status' = [status EXCEPT ![t] = "asleep"]
  /\ Advance(t, turn)
  /\ UNCHANGED <<sem, held, lifeVars>>

\* What the thread holds stays taken; its own copy goes with it.
Cancelled(t) ==
  /\ t \in cancelled
  /\ \/ status[t] = "asleep"
     \/ status[t] = "run" /\ \E turn \in Todo(t) : Head(turn)[1] \in CancellationPoints
  /\ status' = [status EXCEPT ![t] = "dead"]
  /\ cancelled' = cancelled \ {t}
  /\ script' = [script EXCEPT ![t] = <<>>]
  /\ sem' = [s \in DOMAIN sem |-> IF s = Copy(t) THEN 0 ELSE sem[s]]
  /\ held' = [held EXCEPT ![t] = @ \ {Copy(t)}]
  /\ UNCHANGED <<arg, engine, gyro>>

Step(t, turn) ==
  \/ sem_wait(t, turn) \/ UseSem(t, turn) \/ sem_post(t, turn)
  \/ terminate_event_1(t, turn) \/ create_signals_gyros(t, turn)
  \/ manage_principal_engine(t, turn)
  \/ WakeSlave(t, turn) \/ pause(t, turn)

Next ==
  \/ \E t \in SignalGyros \cup GyroThreads : Start(t)
  \/ \E t \in Threads : Cancelled(t) \/ \E turn \in Todo(t) : Step(t, turn)

Spec == Init /\ [][Next]_vars

-----------------------------------------------------------------------------
(* Properties.                                                             *)

\* What can be left of a turn of t.
Rests(t) == {<<>>} \cup UNION {{SubSeq(turn, i, Len(turn)) : i \in DOMAIN turn} : turn \in Turns[t]}
ScriptRests == [t \in Threads |-> Rests(t)]

\* The type invariant; the shared semaphores are binary.
TypeOK ==
  /\ \A t \in Threads : script[t] \in ScriptRests[t]
  /\ status \in [Threads -> {"unborn", "start", "run", "asleep", "dead"}]
  /\ cancelled \subseteq Threads
  /\ sem \in [Shared \cup Copies -> 0..1]
  /\ held \in [Threads -> SUBSET (Shared \cup Copies)]
  /\ arg \in [Gyros -> 0..1]
  /\ engine \in Engines
  /\ gyro \in [Gyros -> GyroThreads]

\* Every branch of every thread posts what it took once and only once: a shared
\* semaphore is free, or exactly one thread, alive or dead, is keeping it.
SemBalance ==
  \A s \in Shared : sem[s] + Cardinality({t \in Threads : s \in held[t]}) = 1

\* A thread cancelled while it holds a semaphore takes it along for good.  Only
\* the engine can: gyroscope threads have no cancellation point while they hold
\* a shared semaphore, and no other thread that holds one is ever cancelled.
OnlyEngineLeaks ==
  \A t \in Threads : status[t] = "dead" /\ held[t] # {} => t \in Engines

\* The gyroscope_thread of a gyroscope can correct it: the semaphore it waits
\* on is free, or its own (Proyecto.docx: it corrects the angle).
CorrectorAble ==
  \A i \in Gyros :
    status[gyro[i]] \in {"asleep", "run"} =>
      sem[Copy(gyro[i])] = 1 \/ Copy(gyro[i]) \in held[gyro[i]]

\* t waits for a semaphore that u keeps.
WaitsFor(t, u) ==
  /\ status[t] = "run" /\ t \notin cancelled /\ Todo(t) # {}
  /\ \A turn \in Todo(t) : Head(turn)[1] \in {"wait", "use"} /\ Head(turn)[2] \in held[u]

Waiting == {t \in Threads : \E u \in Threads : WaitsFor(t, u)}

\* The threads on a circle of waits, or that wait for such a thread: the largest
\* set of threads that wait for each other only.
Deadlocked ==
  UNION {D \in SUBSET Waiting : \A t \in D : \E u \in D : WaitsFor(t, u)}

\* The threads wait on one another in a circle only because signal_landing_check
\* calls change_action while it holds the gyroscopes' semaphores.
\* signal_restart_landing does the same (lines 723-728), and no circle closes
\* through it: it still holds sem_dist, which the engine takes first.
OnlyCutDeadlocks ==
  Deadlocked # {} =>
    LC \in Deadlocked /\ AllGs \subseteq held[LC] /\ \A turn \in Todo(LC) : Head(turn) = change_action

=============================================================================
